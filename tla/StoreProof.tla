----------------------------- MODULE StoreProof ------------------------------
(***************************************************************************)
(* A replay that discards frames by their stamp loses nothing, and in a    *)
(* store with a log what was acknowledged is read ever after: for any keys *)
(* and threads, any modes and faults of Store, and any number of batches,  *)
(* checkpoints and crashes. Without power loss Store implements SpanStore. *)
(***************************************************************************)
EXTENDS Store, TLAPS

\* Any of these parts have a last one among them, however many they are.
HasLatest(parts) ==
    \A S \in SUBSET parts : S # {} => \E m \in S : \A s \in S : s.at <= m.at

\* Where a thread holds the seal permit.
Working == {"drain", "write", "publish", "reconcile", "position", "manifest", "current",
            "epoch", "reclaim", "sweep"}

Typed ==
    /\ log \subseteq [at : Nat \ {0}, epoch : Nat, row : Row]
    /\ files \subseteq [at : Nat, row : Row]
    /\ DOMAIN manifests \subseteq Nat /\ \A g \in DOMAIN manifests : manifests[g] \in Stamp
    /\ current \in Nat /\ liveGeneration \in Nat
    /\ mode \in Modes /\ buffer \in Row /\ nextSegment \in Nat
    /\ epoch \in Nat /\ sequence \in Nat
    /\ pc \in [Procs -> PC] /\ batch \in [Procs -> Nat]
    /\ permit \in Procs \cup {Free}
    /\ drained \in [at : Nat, row : Row, stamp : Stamp] /\ folded \in Stamp
    /\ status \in {"up", "down"} /\ batches \in Seq(SUBSET Keys)

\* Later frames carry later epochs, and newer versions of the keys they carry.
Precedes(f, g) == /\ f.epoch <= g.epoch
                  /\ \A k \in Keys : g.row[k] # 0 => f.row[k] <= g.row[k]

LogOrdered ==
    /\ HasLatest(log)
    /\ \A f, g \in log : f.at <= g.at => Precedes(f, g)
    /\ \A f \in log : mode # "buffered" => f.at <= sequence /\ f.epoch <= epoch

\* Nothing is newer than the last batch admitted.
NoNewer ==
    \A k \in Keys : /\ buffer[k] <= Len(batches)
                    /\ \A f \in log : f.row[k] <= Len(batches)

\* The buffer is the newest, and what it lets go of is in the segments.
Backed ==
    \A k \in Keys, f \in log :
        /\ buffer[k] # 0 => f.row[k] <= buffer[k]
        /\ buffer[k] = 0 /\ mode # "buffered" => f.row[k] <= Resolve(files)[k]

NamesUnused == HasLatest(files) /\ \A f \in files : f.at < nextSegment

Generations ==
    /\ current \in DOMAIN manifests
    /\ liveGeneration <= current
    /\ \A g \in DOMAIN manifests : manifests[g].epoch <= g

InSegments(fold) ==
    \A f \in log : ~After(StampOf(f), fold) => \A k \in Keys : f.row[k] <= Resolve(files)[k]

Past(stamp) == stamp.epoch <= epoch /\ stamp.seq <= sequence

\* A segment about to be written is behind no other, and newer than every frame
\* that it or the live generation stands for.
WriteIsNewest ==
    \A p \in Procs : pc[p] = "write" =>
        /\ \A f \in files : f.at < drained.at
        /\ drained.at < nextSegment
        /\ Past(drained.stamp)
        /\ \A k \in Keys : drained.row[k] # 0 => buffer[k] # 0
        /\ \A f \in log, k \in Keys :
              \/ After(StampOf(f), drained.stamp) /\ After(StampOf(f), manifests[current])
              \/ f.row[k] <= IF drained.row[k] # 0 THEN drained.row[k] ELSE Resolve(files)[k]

\* A segment that was written shows, and the frames up to its stamp are in it.
SealIsWritten ==
    \A p \in Procs : pc[p] \in {"publish", "reconcile"} =>
        /\ Past(drained.stamp)
        /\ InSegments(drained.stamp)
        /\ \A k \in Keys : drained.row[k] # 0 => Resolve(files)[k] = drained.row[k]

FoldIsSealed ==
    /\ pc[Maintainer] \in {"manifest", "current"} => Past(folded) /\ InSegments(folded)
    /\ pc[Maintainer] = "current" =>
           NextGeneration \in DOMAIN manifests /\ manifests[NextGeneration] = folded
    /\ pc[Maintainer] \in {"epoch", "reclaim"} => mode # "buffered"

OnePermit ==
    \A p \in Procs : /\ pc[p] \in Working => permit = p
                     /\ status = "down" => pc[p] = "idle"

Inv ==
    /\ Typed /\ LogOrdered /\ NoNewer /\ Backed /\ NamesUnused /\ Generations
    /\ InSegments(manifests[current])
    /\ mode # "buffered" => Past(manifests[current])
    /\ WriteIsNewest /\ SealIsWritten /\ FoldIsSealed /\ OnePermit

----------------------------------------------------------------------------

(* A part behind all others provides every key it holds (Resolve).         *)
LEMMA ResolveLast ==
    ASSUME NEW parts, NEW k \in Keys, NEW p \in parts, p.row[k] # 0,
           \A q \in parts : q.at \in Nat,
           \A q \in parts : q # p => q.at < p.at
    PROVE  Resolve(parts)[k] = p.row[k]
<1> DEFINE holding == {q \in parts : q.row[k] # 0}
<1>1. p \in holding /\ \A q \in holding : q.at <= p.at
  OBVIOUS
<1>2. ASSUME NEW r \in holding, \A q \in holding : q.at <= r.at
      PROVE  r = p
  BY <1>1, <1>2
<1>3. (CHOOSE r \in holding : \A q \in holding : q.at <= r.at) = p
  BY <1>1, <1>2
<1> QED
  BY <1>1, <1>3 DEF Resolve

(* A part that comes last is upserted over what was there (Resolve).       *)
LEMMA ResolveMore ==
    ASSUME NEW parts, NEW new, NEW k \in Keys, new.at \in Nat,
           \A q \in parts : q.at \in Nat /\ q.at < new.at
    PROVE  /\ new.row[k] # 0 => Resolve(parts \cup {new})[k] = new.row[k]
           /\ new.row[k] = 0 => Resolve(parts \cup {new})[k] = Resolve(parts)[k]
<1> DEFINE more == parts \cup {new}
<1>1. CASE new.row[k] # 0
  <2>1. new \in more /\ \A q \in more : q.at \in Nat /\ (q # new => q.at < new.at)
    OBVIOUS
  <2> HIDE DEF more
  <2>2. Resolve(more)[k] = new.row[k]
    BY <1>1, <2>1, ResolveLast
  <2> QED
    BY <1>1, <2>2 DEF more
<1>2. CASE new.row[k] = 0
  <2> DEFINE before == {q \in parts : q.row[k] # 0}
             after == {q \in parts \cup {new} : q.row[k] # 0}
  <2>1. Resolve(parts)[k] = IF before = {} THEN 0
                           ELSE (CHOOSE p \in before : \A q \in before : q.at <= p.at).row[k]
    BY DEF Resolve
  <2>2. Resolve(parts \cup {new})[k] = IF after = {} THEN 0
                           ELSE (CHOOSE p \in after : \A q \in after : q.at <= p.at).row[k]
    BY DEF Resolve
  <2>3. after = before
    BY <1>2
  <2> HIDE DEF before, after
  <2> QED
    BY <1>2, <2>1, <2>2, <2>3
<1> QED
  BY <1>1, <1>2

(* What parts resolve to is what the last of them that holds the key says  *)
(* (Resolve).                                                              *)
LEMMA ResolveHolds ==
    ASSUME NEW parts, NEW k \in Keys, HasLatest(parts)
    PROVE  \/ /\ Resolve(parts)[k] = 0
              /\ \A q \in parts : q.row[k] = 0
           \/ \E p \in parts : /\ p.row[k] # 0
                               /\ Resolve(parts)[k] = p.row[k]
                               /\ \A q \in parts : q.row[k] # 0 => q.at <= p.at
<1> DEFINE holding == {q \in parts : q.row[k] # 0}
<1>1. CASE holding = {}
  BY <1>1 DEF Resolve
<1>2. CASE holding # {}
  <2>1. \E p \in holding : \A q \in holding : q.at <= p.at
    <3>1. holding \in SUBSET parts
      OBVIOUS
    <3> HIDE DEF holding
    <3> QED
      BY <1>2, <3>1 DEF HasLatest
  <2>2. PICK p \in holding : /\ \A q \in holding : q.at <= p.at
                             /\ p = CHOOSE r \in holding : \A q \in holding : q.at <= r.at
    BY <2>1
  <2>3. Resolve(parts)[k] = p.row[k]
    BY <1>2, <2>2 DEF Resolve
  <2> QED
    BY <2>2, <2>3
<1> QED
  BY <1>1, <1>2

(* Rows resolve to rows (Resolve).                                         *)
LEMMA ResolveRow ==
    ASSUME NEW parts, HasLatest(parts), \A p \in parts : p.row \in Row
    PROVE  Resolve(parts) \in Row
<1>1. ASSUME NEW k \in Keys PROVE Resolve(parts)[k] \in Nat
  BY ResolveHolds DEF Row
<1>2. Resolve(parts) = [k \in Keys |-> Resolve(parts)[k]]
  BY DEF Resolve
<1> HIDE DEF Resolve
<1> QED
  BY <1>1, <1>2 DEF Row

(* A part of a log, or one more frame at its end, has a last frame too     *)
(* (the file of wal.rs only grows at its end or loses frames).             *)
LEMMA LatestOfFewer ==
    ASSUME NEW parts, HasLatest(parts), NEW fewer \in SUBSET parts
    PROVE  HasLatest(fewer)
BY DEF HasLatest

(* One more at the end is the last.                                        *)
LEMMA LatestOfMore ==
    ASSUME NEW parts, HasLatest(parts), NEW new, new.at \in Nat,
           \A q \in parts : q.at \in Nat /\ q.at < new.at
    PROVE  HasLatest(parts \cup {new})
<1> SUFFICES ASSUME NEW S \in SUBSET (parts \cup {new}), S # {}
             PROVE  \E m \in S : \A s \in S : s.at <= m.at
  BY DEF HasLatest
<1>1. CASE new \in S
  BY <1>1
<1>2. CASE new \notin S
  BY <1>2 DEF HasLatest
<1> QED
  BY <1>1, <1>2

(* So has a log of one frame or none (Wal::rewrite, Wal::reset).           *)
LEMMA LatestOfOne ==
    ASSUME NEW one, one.at \in Nat
    PROVE  HasLatest({one}) /\ HasLatest({})
BY DEF HasLatest

(* What Admit and Open make of rows are rows (Over, Resolve).              *)
LEMMA OverRow ==
    ASSUME NEW older \in Row, NEW newer \in Row
    PROVE  Over(older, newer) \in Row
BY DEF Over, Row

(* Nothing is a row (Empty).                                               *)
LEMMA EmptyRow == Empty \in Row
BY DEF Empty, Row

(* The segments resolve to a row (Resolve).                                *)
LEMMA FilesRow ==
    ASSUME Typed, NamesUnused
    PROVE  Resolve(files) \in Row
<1>1. HasLatest(files) /\ \A p \in files : p.row \in Row
  BY DEF Typed, NamesUnused
<1> QED
  BY <1>1, ResolveRow

(* The larger of two counters is one of them and at least both (Larger).   *)
LEMMA LargerIs ==
    ASSUME NEW a \in Nat, NEW b \in Nat
    PROVE  Larger(a, b) \in Nat /\ Larger(a, b) >= a /\ Larger(a, b) >= b
BY DEF Larger

(* The last frame of a log has the highest stamp: no epoch and no sequence *)
(* of the log is above it (Wal::replay, resume_after).                     *)
LEMMA HighestIs ==
    ASSUME Typed, LogOrdered
    PROVE  /\ Highest \in Stamp
           /\ \A f \in log : f.epoch <= Highest.epoch /\ f.at <= Highest.seq
<1>1. CASE log = {}
  BY <1>1 DEF Highest, NoFold, Stamp
<1>2. CASE log # {}
  <2>1. PICK last \in log : \A f \in log : f.at <= last.at
    BY <1>2 DEF LogOrdered, HasLatest
  <2>2. \A f \in log : ~After(StampOf(f), StampOf(last))
    BY <2>1 DEF LogOrdered, Precedes, Typed, After, StampOf
  <2>3. PICK f \in log : /\ Highest = StampOf(f)
                         /\ \A g \in log : ~After(StampOf(g), StampOf(f))
    BY <1>2, <2>1, <2>2 DEF Highest
  <2>4. ASSUME NEW g \in log PROVE g.epoch <= f.epoch /\ g.at <= f.at
    <3>1. g.epoch \in Nat /\ f.epoch \in Nat /\ g.at \in Nat /\ f.at \in Nat
      BY DEF Typed
    <3>2. g.at > f.at => f.epoch <= g.epoch
      BY <3>1 DEF LogOrdered, Precedes
    <3> QED
      BY <2>3, <3>1, <3>2 DEF After, StampOf
  <2> QED
    BY <2>3, <2>4 DEF StampOf, Stamp, Typed
<1> QED
  BY <1>1, <1>2

(* The generation a checkpoint is about to publish is new (NextGeneration).*)
LEMMA NextGenerationIs ==
    ASSUME Typed
    PROVE  NextGeneration \in Nat /\ NextGeneration > liveGeneration /\ NextGeneration > epoch
<1>1. liveGeneration \in Nat /\ epoch \in Nat
  BY DEF Typed
<1> QED
  BY <1>1 DEF NextGeneration, Larger

----------------------------------------------------------------------------
(* Initial states and types.                                               *)

(* A new directory satisfies the invariant (Store::open).                  *)
LEMMA InvInit == Init => Inv
<1> SUFFICES ASSUME Init PROVE Inv
  OBVIOUS
<1> USE DEF Init
<1>1. Typed
  <2>1. [row |-> Empty, at |-> 0, stamp |-> NoFold] \in [at : Nat, row : Row, stamp : Stamp]
    BY EmptyRow DEF NoFold, Stamp
  <2>2. [p \in Procs |-> "idle"] \in [Procs -> PC] /\ [p \in Procs |-> 0] \in [Procs -> Nat]
    BY DEF PC
  <2>3. epoch \in Nat
    OBVIOUS
  <2> QED
    BY <2>1, <2>2, <2>3, EmptyRow DEF Typed, NoFold, Stamp
<1>2. HasLatest({})
  BY DEF HasLatest
<1>3. LogOrdered /\ NoNewer /\ Backed /\ NamesUnused /\ Generations
  BY <1>2, EmptyRow DEF LogOrdered, NoNewer, Backed, NamesUnused, Generations, NoFold, Empty
<1>4. InSegments(manifests[current]) /\ (mode # "buffered" => Past(manifests[current]))
  BY DEF InSegments, Past, NoFold
<1>5. WriteIsNewest /\ SealIsWritten /\ FoldIsSealed /\ OnePermit
  BY DEF WriteIsNewest, SealIsWritten, FoldIsSealed, OnePermit, Procs, Working
<1> QED
  BY <1>1, <1>3, <1>4, <1>5 DEF Inv

(* A thread that moves leaves the others where they are (Goto).            *)
LEMMA GotoIs ==
    ASSUME Typed, NEW p \in Procs, NEW where \in PC, Goto(p, where)
    PROVE  /\ pc' \in [Procs -> PC]
           /\ pc'[p] = where
           /\ \A q \in Procs : q # p => pc'[q] = pc[q]
BY DEF Typed, Goto

(* The permit and the locals of its holder are given back (Release).       *)
LEMMA ReleaseIs ==
    ASSUME NEW p \in Procs, Release(p)
    PROVE  /\ permit' = Free
           /\ drained' \in [at : Nat, row : Row, stamp : Stamp]
           /\ folded' \in Stamp
BY EmptyRow DEF Release, NoFold, Stamp

(* Every action keeps the types.                                           *)
LEMMA TypedStep ==
    ASSUME Inv, [Next]_vars
    PROVE  Typed'
<1> USE DEF Inv
<1>a. /\ log \subseteq [at : Nat \ {0}, epoch : Nat, row : Row]
      /\ buffer \in Row /\ epoch \in Nat /\ sequence \in Nat /\ drained.row \in Row
      /\ drained.at \in Nat /\ drained.stamp \in Stamp /\ Position \in Stamp
      /\ NoFold \in Stamp /\ Survivors \in Row /\ nextSegment + 1 \in Nat
      /\ current \in Nat /\ liveGeneration \in Nat
  BY DEF Typed, Survivors, Row, Position, NoFold, Stamp
<1>b. ASSUME NEW e \in Nat, NEW row \in Row, RewriteLog(row, e)
      PROVE  /\ log' \subseteq [at : Nat \ {0}, epoch : Nat, row : Row]
             /\ sequence' \in Nat /\ epoch' \in Nat
  BY <1>a, <1>b, LargerIs DEF RewriteLog
<1>c. ASSUME UNCHANGED <<log, files, manifests, current, mode, buffer, nextSegment, epoch>>,
             UNCHANGED <<sequence, liveGeneration, status, batches>>,
             pc' \in [Procs -> PC], batch' \in [Procs -> Nat], permit' \in Procs \cup {Free},
             drained' \in [at : Nat, row : Row, stamp : Stamp], folded' \in Stamp
      PROVE  Typed'
  BY <1>c DEF Typed
<1>d. ASSUME NEW t \in Procs, NEW where \in PC, Goto(t, where),
             UNCHANGED batch \/ batch' = [batch EXCEPT ![t] = 0]
      PROVE  pc' \in [Procs -> PC] /\ batch' \in [Procs -> Nat]
  BY <1>d DEF Goto, Typed
<1>1. CASE UNCHANGED vars
  BY <1>1 DEF vars, disk, logFile, memory, list, stamps, thread, sealing, history, Typed
<1>2. ASSUME NEW t \in Ingesters, NEW ks \in (SUBSET Keys) \ {{}}, Admit(t, ks)
      PROVE  Typed'
  <2> DEFINE b == Len(batches) + 1
             row == [k \in Keys |-> IF k \in ks THEN b ELSE 0]
  <2>0. t \in Procs /\ b \in Nat /\ row \in Row
    BY DEF Procs, Typed, Row
  <2> HIDE DEF row, b
  <2>1. /\ batches' = Append(batches, ks) /\ batch' = [batch EXCEPT ![t] = b]
        /\ buffer' = Over(buffer, row)
        /\ \/ UNCHANGED <<log, sequence>>
           \/ log' = log \cup {Frame(row)} /\ sequence' = sequence + 1
    BY <1>2 DEF Admit, b, row
  <2>2. Over(buffer, row) \in Row
    BY <1>a, <2>0, OverRow
  <2>3. Frame(row) \in [at : Nat \ {0}, epoch : Nat, row : Row]
    BY <1>a, <2>0 DEF Frame
  <2>4. pc' \in [Procs -> PC]
    BY <1>2, <2>0 DEF Admit, Goto, Typed, PC
  <2>5. log' \subseteq [at : Nat \ {0}, epoch : Nat, row : Row] /\ sequence' \in Nat
    BY <1>a, <2>1, <2>3
  <2>6. batches' \in Seq(SUBSET Keys) /\ batch' \in [Procs -> Nat]
    BY <2>0, <2>1 DEF Typed
  <2>7. buffer' \in Row
    BY <2>1, <2>2
  <2>8. /\ UNCHANGED <<files, manifests, current, mode, nextSegment, epoch, liveGeneration>>
        /\ UNCHANGED <<permit, drained, folded, status>>
    BY <1>2 DEF Admit, list, sealing
  <2> QED
    BY <2>4, <2>5, <2>6, <2>7, <2>8 DEF Typed
<1>3. ASSUME NEW t \in Procs,
             \/ CommitAck(t) \/ CommitSeal(t) \/ CommitFails(t) \/ TakePermit(t) \/ SkipSeal(t)
      PROVE  Typed'
  <2>1. t \in Procs /\ {"idle", "permit", "drain"} \subseteq PC
    BY DEF Procs, PC
  <2>2. /\ UNCHANGED <<log, files, manifests, current, mode, buffer, nextSegment, epoch>>
        /\ UNCHANGED <<sequence, liveGeneration, status, batches, drained, folded>>
        /\ permit' = permit \/ permit' = t
    BY <1>3 DEF CommitAck, CommitSeal, CommitFails, TakePermit, SkipSeal, disk, logFile, memory,
       list, stamps, sealing, history
  <2>3. /\ Goto(t, "idle") \/ Goto(t, "permit") \/ Goto(t, "drain")
        /\ UNCHANGED batch \/ batch' = [batch EXCEPT ![t] = 0]
    BY <1>3 DEF CommitAck, CommitSeal, CommitFails, TakePermit, SkipSeal, Acknowledge
  <2>4. pc' \in [Procs -> PC] /\ batch' \in [Procs -> Nat]
    BY <2>1, <2>3, <1>d
  <2> QED
    BY <2>2, <2>4, <1>c DEF Typed
<1>4. CASE Sync \/ AgeSeal \/ BeginCheckpoint
  <2>1. Maintainer \in Procs /\ "permit" \in PC
    BY DEF Procs, PC
  <2> QED
    BY <1>4, <2>1 DEF Sync, AgeSeal, BeginCheckpoint, Goto, disk, logFile, memory, thread,
       sealing,
       list, stamps, history, Typed
<1>5. ASSUME NEW t \in Procs, DrainNothing(t)
      PROVE  Typed'
  <2>1. {"idle", "position"} \subseteq PC
    BY DEF PC
  <2>2. permit' \in Procs \cup {Free} /\ drained' \in [at : Nat, row : Row, stamp : Stamp]
        /\ folded' \in Stamp
    BY <1>5, ReleaseIs DEF DrainNothing, sealing, Typed
  <2>3. /\ UNCHANGED <<log, files, manifests, current, mode, buffer, nextSegment, epoch>>
        /\ UNCHANGED <<sequence, liveGeneration, status, batches>>
    BY <1>5 DEF DrainNothing, disk, logFile, memory, list, stamps
  <2>4. /\ Goto(t, "idle") \/ Goto(t, "position")
        /\ UNCHANGED batch \/ batch' = [batch EXCEPT ![t] = 0]
    BY <1>5 DEF DrainNothing, Acknowledge
  <2>5. pc' \in [Procs -> PC] /\ batch' \in [Procs -> Nat]
    BY <2>1, <2>4, <1>d
  <2> QED
    BY <2>2, <2>3, <2>5, <1>c
<1>6. ASSUME NEW t \in Procs, Drain(t)
      PROVE  Typed'
  <2>1. "write" \in PC
    BY DEF PC
  <2>2. drained' \in [at : Nat, row : Row, stamp : Stamp]
    BY <1>6, <1>a DEF Drain, Typed
  <2> QED
    BY <1>6, <1>a, <2>1, <2>2 DEF Drain, Goto, disk, logFile, stamps, history, Typed
<1>7. ASSUME NEW t \in Procs, WriteSegment(t) \/ Publish(t)
      PROVE  Typed'
  <2>1. {"publish", "reconcile"} \subseteq PC /\ Sealed \in [at : Nat, row : Row]
    BY <1>a DEF PC, Sealed
  <2> QED
    BY <1>7, <2>1 DEF WriteSegment, Publish, Goto, disk, logFile, memory, list, stamps, sealing,
       history, Typed
<1>8. ASSUME NEW t \in Procs, Reconcile(t)
      PROVE  Typed'
  <2>1. {"idle", "manifest"} \subseteq PC /\ FoldPoint \in Stamp
    BY <1>a DEF PC, FoldPoint
  <2>2. /\ log' \subseteq [at : Nat \ {0}, epoch : Nat, row : Row]
        /\ sequence' \in Nat /\ epoch' \in Nat
    <3>1. RewriteLog(Survivors, 0) \/ ResetLog \/ LeaveLog
      BY <1>8 DEF Reconcile, ReclaimSealed
    <3> QED
      BY <3>1, <1>a, <1>b DEF ResetLog, LeaveLog, logFile, stamps
  <2>3. permit' \in Procs \cup {Free} /\ drained' \in [at : Nat, row : Row, stamp : Stamp]
        /\ folded' \in Stamp
    BY <1>8, <2>1, ReleaseIs DEF Reconcile, Typed
  <2>4. pc' \in [Procs -> PC] /\ batch' \in [Procs -> Nat]
    <3>1. \/ Goto(t, "manifest") /\ UNCHANGED batch
          \/ Goto(t, "idle") /\ batch' = [batch EXCEPT ![t] = 0]
      BY <1>8 DEF Reconcile, Acknowledge
    <3> QED
      BY <2>1, <3>1 DEF Goto, Typed
  <2>5. buffer' \in Row
    BY <1>8, <1>a DEF Reconcile
  <2>6. UNCHANGED <<files, manifests, current, mode, nextSegment, liveGeneration, status, batches>>
    BY <1>8 DEF Reconcile, list
  <2> QED
    BY <2>2, <2>3, <2>4, <2>5, <2>6 DEF Typed
<1>9. CASE FoldPosition
  <2>1. Maintainer \in Procs /\ {"manifest", "drain"} \subseteq PC
    BY DEF Procs, PC
  <2>2. folded' \in Stamp
    BY <1>9, <1>a DEF FoldPosition, Typed
  <2> QED
    BY <1>9, <2>1, <2>2 DEF FoldPosition, Goto, disk, logFile, memory, list, stamps, history,
       Typed
<1>10. CASE WriteManifest
  <2>1. Maintainer \in Procs /\ "current" \in PC
    BY DEF Procs, PC
  <2>2. DOMAIN manifests' \subseteq Nat /\ \A g \in DOMAIN manifests' : manifests'[g] \in Stamp
    BY <1>10, NextGenerationIs DEF WriteManifest, Typed
  <2> QED
    BY <1>10, <2>1, <2>2 DEF WriteManifest, Goto, logFile, memory, list, stamps, sealing,
       history, Typed
<1>11. CASE PublishCurrent
  <2>1. Maintainer \in Procs /\ {"sweep", "epoch"} \subseteq PC
    BY DEF Procs, PC
  <2>2. current' \in Nat /\ liveGeneration' \in Nat
    BY <1>11, NextGenerationIs DEF PublishCurrent
  <2> QED
    BY <1>11, <2>1, <2>2 DEF PublishCurrent, Goto, logFile, list, stamps, sealing, history, Typed
<1>12. CASE AdvanceEpoch \/ ReclaimFolded
  <2>1. Maintainer \in Procs /\ {"reclaim", "sweep"} \subseteq PC
    BY DEF Procs, PC
  <2>2. /\ log' \subseteq [at : Nat \ {0}, epoch : Nat, row : Row]
        /\ sequence' \in Nat /\ epoch' \in Nat
    <3>1. CASE AdvanceEpoch
      BY <3>1, <1>a, LargerIs DEF AdvanceEpoch, disk, logFile
    <3>2. CASE ReclaimFolded
      <4>1. RewriteLog(buffer, liveGeneration) \/ ResetLog
        BY <3>2 DEF ReclaimFolded
      <4> QED
        BY <4>1, <1>a, <1>b DEF ResetLog
    <3> QED
      BY <1>12, <3>1, <3>2
  <2> QED
    BY <1>12, <2>1, <2>2 DEF AdvanceEpoch, ReclaimFolded, Goto, disk, logFile, list, sealing,
       history, Typed
<1>13. CASE SweepGenerations
  <2>1. Maintainer \in Procs /\ "idle" \in PC
    BY DEF Procs, PC
  <2>2. DOMAIN manifests' \subseteq Nat /\ \A g \in DOMAIN manifests' : manifests'[g] \in Stamp
    BY <1>13 DEF SweepGenerations, Typed
  <2>3. permit' \in Procs \cup {Free} /\ drained' \in [at : Nat, row : Row, stamp : Stamp]
        /\ folded' \in Stamp
    BY <1>13, <2>1, ReleaseIs DEF SweepGenerations
  <2> QED
    BY <1>13, <2>1, <2>2, <2>3 DEF SweepGenerations, Goto, logFile, memory, list, stamps, history,
       Typed
<1>14. ASSUME NEW p \in Procs, SealFails(p)
      PROVE  Typed'
  <2>1. "idle" \in PC
    BY DEF PC
  <2>2. permit' \in Procs \cup {Free} /\ drained' \in [at : Nat, row : Row, stamp : Stamp]
        /\ folded' \in Stamp
    BY <1>14, ReleaseIs DEF SealFails, Fail
  <2>3. /\ UNCHANGED <<log, files, manifests, current, mode, buffer, nextSegment, epoch>>
        /\ UNCHANGED <<sequence, liveGeneration, status, batches>>
    BY <1>14 DEF SealFails, disk, logFile, memory, list, stamps, history
  <2>4. pc' \in [Procs -> PC] /\ batch' \in [Procs -> Nat]
    BY <1>14, <2>1, <1>d DEF SealFails, Fail
  <2> QED
    BY <2>2, <2>3, <2>4, <1>c
<1>15. CASE CurrentUnsynced
  <2>1. Maintainer \in Procs /\ "idle" \in PC
    BY DEF Procs, PC
  <2>2. permit' \in Procs \cup {Free} /\ drained' \in [at : Nat, row : Row, stamp : Stamp]
        /\ folded' \in Stamp
    BY <1>15, <2>1, ReleaseIs DEF CurrentUnsynced, Fail
  <2>3. current' \in Nat
    BY <1>15, NextGenerationIs DEF CurrentUnsynced
  <2> QED
    BY <1>15, <2>1, <2>2, <2>3 DEF CurrentUnsynced, Fail, Goto, logFile, memory, list, stamps,
       history, Typed
<1>16. CASE Kill \/ Power
  <2>1. Maintainer \in Procs /\ "idle" \in PC
    BY DEF Procs, PC
  <2>2. Die /\ log' \subseteq log
    BY <1>16 DEF Kill, Power, logFile
  <2>3. permit' \in Procs \cup {Free} /\ drained' \in [at : Nat, row : Row, stamp : Stamp]
        /\ folded' \in Stamp
    BY <2>1, <2>2, ReleaseIs DEF Die
  <2> QED
    BY <2>1, <2>2, <2>3 DEF Die, memory, list, stamps, history, Typed
<1>17. ASSUME NEW m \in Modes, Open(m)
      PROVE  Typed'
  <2>1. manifests[current] \in Stamp
    BY DEF Typed, Generations
  <2>2. buffer' \in Row
    <3>1. Replay(manifests[current]) \in Row
      <4> DEFINE unfolded == {f \in log : After(StampOf(f), manifests[current])}
      <4>1. HasLatest(unfolded) /\ \A f \in unfolded : f.row \in Row
        BY <1>a, LatestOfFewer DEF LogOrdered
      <4> HIDE DEF unfolded
      <4>2. Resolve(unfolded) \in Row
        BY <4>1, ResolveRow
      <4> QED
        BY <4>2 DEF Replay, unfolded
    <3> QED
      BY <1>17, <3>1, EmptyRow DEF Open
  <2>3. epoch' \in Nat /\ sequence' \in Nat
    <3>1. ResumeEpoch \in Nat /\ ResumeAfter(manifests[current]) \in Nat
      BY <1>a, <2>1, HighestIs, LargerIs DEF ResumeEpoch, ResumeAfter, Stamp
    <3> QED
      BY <1>17, <3>1 DEF Open
  <2>4. nextSegment' \in Nat
    <3> DEFINE ids == {f.at : f \in files}
    <3>1. CASE files = {}
      BY <1>17, <3>1 DEF Open
    <3>2. CASE files # {}
      <4>1. PICK last \in files : \A f \in files : f.at <= last.at
        BY <3>2 DEF NamesUnused, HasLatest
      <4>2. last.at \in ids /\ \A n \in ids : n <= last.at
        BY <4>1
      <4>3. ids \subseteq Nat /\ ids # {}
        BY <3>2 DEF Typed
      <4>4. nextSegment' = Greatest(ids) + 1
        BY <1>17, <3>2 DEF Open
      <4> HIDE DEF ids
      <4>5. Greatest(ids) \in Nat
        BY <4>2, <4>3 DEF Greatest
      <4> QED
        BY <4>4, <4>5
    <3> QED
      BY <3>1, <3>2
  <2> QED
    BY <1>17, <2>2, <2>3, <2>4 DEF Open, thread, sealing, Typed
<1>18. CASE CheckpointStep
  BY <1>18, <1>9, <1>10, <1>11, <1>12, <1>13 DEF CheckpointStep
<1>19. ASSUME NEW p \in Procs, SealStep(p)
       PROVE  Typed'
  BY <1>19, <1>3, <1>5, <1>6, <1>7, <1>8 DEF SealStep
<1>20. ASSUME NEW t \in Ingesters, IngestStep(t)
       PROVE  Typed'
  BY <1>20, <1>3 DEF IngestStep, Procs
<1> QED
  <2>1. CASE \E t \in Ingesters : \/ \E ks \in (SUBSET Keys) \ {{}} : Admit(t, ks)
                                  \/ IngestStep(t) \/ CommitFails(t)
    BY <2>1, <1>2, <1>3, <1>20 DEF Procs
  <2>2. CASE \E p \in Procs : SealStep(p) \/ SkipSeal(p) \/ SealFails(p)
    BY <2>2, <1>3, <1>14, <1>19
  <2>3. CASE Sync \/ AgeSeal \/ BeginCheckpoint \/ CheckpointStep \/ CurrentUnsynced \/ Kill \/ Power
    BY <2>3, <1>4, <1>15, <1>16, <1>18
  <2>4. CASE \E m \in Modes : Open(m)
    BY <2>4, <1>17
  <2> QED
    BY <1>1, <2>1, <2>2, <2>3, <2>4 DEF Next

----------------------------------------------------------------------------
(* The permit.                                                             *)

(* Whoever works holds the permit, so nobody else works.                   *)
LEMMA Alone ==
    ASSUME Typed, OnePermit, NEW p \in Procs, pc[p] \in Working, NEW q \in Procs, q # p
    PROVE  pc[q] \notin Working
BY DEF OnePermit

(* Seals and checkpoints run one at a time, under the permit, and not      *)
(* while the store is down (Store::seal_gate).                             *)
LEMMA OnePermitStep ==
    ASSUME Inv, Typed', [Next]_vars
    PROVE  OnePermit'
<1> USE DEF Inv
<1>1. CASE UNCHANGED vars
  BY <1>1 DEF vars, thread, sealing, OnePermit
<1>2. ASSUME NEW p \in Procs, NEW where \in PC, status = "up", status' = "up", Goto(p, where),
             where \in Working => permit' = p,
             permit' = permit \/ pc[p] \in Working \/ permit = Free
      PROVE  OnePermit'
  <2>1. /\ pc'[p] = where
        /\ \A q \in Procs : q # p => pc'[q] = pc[q]
    BY <1>2, GotoIs
  <2>2. ASSUME NEW q \in Procs, pc'[q] \in Working
        PROVE  permit' = q
    <3>1. CASE q = p
      BY <1>2, <2>1, <2>2, <3>1
    <3>2. CASE q # p
      <4>1. pc[q] \in Working
        BY <2>1, <2>2, <3>2
      <4>2. permit = q /\ q # Free
        BY <4>1, ProcessAssumption DEF OnePermit, Procs
      <4>3. pc[p] \notin Working
        BY <3>2, <4>2 DEF OnePermit
      <4> QED
        BY <1>2, <4>2, <4>3
    <3> QED
      BY <3>1, <3>2
  <2> QED
    BY <1>2, <2>2 DEF OnePermit
<1>a. /\ Maintainer \in Procs /\ Ingesters \subseteq Procs
      /\ PC = {"idle", "commit", "permit"} \cup Working
  BY DEF Procs, PC, Working
<1>b. ASSUME NEW p \in Procs, pc[p] \in Working PROVE permit = p
  BY <1>b DEF OnePermit
<1>3. ASSUME NEW t \in Ingesters, NEW ks \in (SUBSET Keys) \ {{}}, Admit(t, ks)
      PROVE  OnePermit'
  <2>1. /\ status = "up" /\ status' = "up" /\ permit' = permit
        /\ Goto(t, "permit") \/ Goto(t, "commit")
    BY <1>3 DEF Admit, At, sealing
  <2> QED
    BY <2>1, <1>2, <1>a DEF Working
<1>4. ASSUME NEW t \in Procs,
             \/ CommitAck(t) \/ CommitSeal(t) \/ CommitFails(t) \/ TakePermit(t) \/ SkipSeal(t)
      PROVE  OnePermit'
  <2>1. /\ status = "up" /\ status' = "up"
        /\ \/ permit' = permit /\ Goto(t, "idle")
           \/ permit' = permit /\ Goto(t, "permit")
           \/ permit = Free /\ permit' = t /\ Goto(t, "drain")
    BY <1>4 DEF CommitAck, CommitSeal, CommitFails, TakePermit, SkipSeal, Acknowledge, At,
       Waiting, Committed, sealing
  <2> QED
    BY <2>1, <1>2, <1>a DEF Working
<1>5. CASE Sync
  BY <1>5 DEF Sync, thread, sealing, OnePermit
<1>6. CASE AgeSeal \/ BeginCheckpoint
  <2>1. status = "up" /\ status' = "up" /\ permit' = permit /\ Goto(Maintainer, "permit")
    BY <1>6 DEF AgeSeal, BeginCheckpoint, At, sealing
  <2> QED
    BY <2>1, <1>2, <1>a DEF Working
<1>7. ASSUME NEW t \in Procs,
             DrainNothing(t) \/ Drain(t) \/ WriteSegment(t) \/ Publish(t) \/ Reconcile(t)
      PROVE  OnePermit'
  <2>1. /\ status = "up" /\ status' = "up" /\ pc[t] \in Working
        /\ \/ permit' = permit /\ \E where \in Working : Goto(t, where)
           \/ Goto(t, "idle")
    BY <1>7 DEF DrainNothing, Drain, WriteSegment, Publish, Reconcile, Acknowledge, At, sealing,
       Working
  <2> QED
    BY <2>1, <1>2, <1>a, <1>b DEF Working
<1>8. CASE FoldPosition \/ WriteManifest \/ PublishCurrent \/ AdvanceEpoch \/ ReclaimFolded
           \/ SweepGenerations \/ CurrentUnsynced
  <2>1. /\ status = "up" /\ status' = "up" /\ pc[Maintainer] \in Working
        /\ \/ permit' = permit /\ \E where \in Working : Goto(Maintainer, where)
           \/ Goto(Maintainer, "idle")
    BY <1>8 DEF FoldPosition, WriteManifest, PublishCurrent, AdvanceEpoch, ReclaimFolded,
       SweepGenerations, CurrentUnsynced, Fail, At, sealing, Working
  <2> QED
    BY <2>1, <1>2, <1>a, <1>b DEF Working
<1>9. ASSUME NEW p \in Procs, SealFails(p)
      PROVE  OnePermit'
  <2>1. status = "up" /\ status' = "up" /\ pc[p] \in Working /\ Goto(p, "idle")
    BY <1>9 DEF SealFails, Fail, Working
  <2> QED
    BY <2>1, <1>2, <1>a DEF Working
<1>10. CASE Kill \/ Power
  <2>1. \A p \in Procs : pc'[p] = "idle"
    BY <1>10 DEF Kill, Power, Die
  <2> QED
    BY <2>1 DEF OnePermit, Working
<1>11. ASSUME NEW m \in Modes, Open(m)
       PROVE  OnePermit'
  BY <1>11 DEF Open, thread, sealing, OnePermit
<1> QED
  BY <1>1, <1>3, <1>4, <1>5, <1>6, <1>7, <1>8, <1>9, <1>10, <1>11, <1>a
     DEF Next, IngestStep, SealStep, CheckpointStep

----------------------------------------------------------------------------
(* What is in the log, the buffer and the segments, whoever is at work,    *)
(* and what the holder of the permit is about to do with it.               *)

Settled ==
    /\ LogOrdered /\ NoNewer /\ Backed /\ NamesUnused /\ Generations
    /\ InSegments(manifests[current])
    /\ mode # "buffered" => Past(manifests[current])

InFlight == WriteIsNewest /\ SealIsWritten /\ FoldIsSealed

contents == <<log, files, manifests, current, mode, buffer, nextSegment, epoch, sequence,
              liveGeneration, batches>>

\* Where a thread relies on what it drained or folded, or on the log.
Flying == {"write", "publish", "reconcile", "manifest", "current", "epoch", "reclaim"}

(* A step that leaves the contents alone keeps what is said of them.       *)
LEMMA SettledStays ==
    ASSUME Settled, UNCHANGED contents
    PROVE  Settled'
BY DEF Settled, contents, LogOrdered, NoNewer, Backed, NamesUnused, Generations, InSegments, Past

(* So does a move of one thread to where it relies on nothing, even if it  *)
(* gives the permit back.                                                  *)
LEMMA QuietMove ==
    ASSUME Inv, UNCHANGED contents, NEW p \in Procs, NEW where \in PC \ Flying, Goto(p, where),
           UNCHANGED <<drained, folded>> \/ pc[p] \in Working
    PROVE  InFlight'
<1> USE DEF Inv
<1>1. pc'[p] = where /\ \A q \in Procs : q # p => pc'[q] = pc[q]
  BY GotoIs
<1>2. ASSUME NEW q \in Procs, pc'[q] \in Flying
      PROVE  pc[q] = pc'[q] /\ drained' = drained /\ folded' = folded
  BY <1>1, <1>2, Alone DEF Flying, Working
<1>3. Maintainer \in Procs
  BY DEF Procs
<1>4. WriteIsNewest'
  BY <1>2 DEF Flying, WriteIsNewest, contents, Past
<1>5. SealIsWritten'
  BY <1>2 DEF Flying, SealIsWritten, contents, InSegments, Past
<1>6. FoldIsSealed'
  BY <1>2, <1>3 DEF Flying, FoldIsSealed, contents, InSegments, Past, NextGeneration
<1> QED
  BY <1>4, <1>5, <1>6 DEF InFlight

(* A frame about to be appended is after every stamp that is past.         *)
LEMMA NextIsAfter ==
    ASSUME Typed, NEW stamp \in Stamp, Past(stamp), NEW e \in Nat, e >= epoch, NEW row
    PROVE  After(StampOf([at |-> sequence + 1, epoch |-> e, row |-> row]), stamp)
BY DEF Typed, Stamp, Past, After, StampOf

(* A stamp that is past stays past while the counters grow.                *)
LEMMA PastStays ==
    ASSUME NEW stamp \in Stamp, Past(stamp), {epoch, sequence, epoch', sequence'} \subseteq Nat,
           epoch <= epoch', sequence <= sequence'
    PROVE  stamp.epoch <= epoch' /\ stamp.seq <= sequence'
BY DEF Stamp, Past

----------------------------------------------------------------------------
(* Ingest.                                                                 *)

(* An admitted batch is newer than everything, and its frame is after what *)
(* any fold or drain under way stands for (Store::admit).                  *)
LEMMA AdmitKeeps ==
    ASSUME Inv, Typed', NEW t \in Ingesters, NEW ks \in (SUBSET Keys) \ {{}}, Admit(t, ks)
    PROVE  Settled' /\ InFlight'
<1> USE DEF Inv
<1> DEFINE b == Len(batches) + 1
           row == [k \in Keys |-> IF k \in ks THEN b ELSE 0]
           new == Frame(row)
<1>1. /\ buffer' = Over(buffer, row) /\ batches' = Append(batches, ks)
      /\ \/ UNCHANGED <<log, sequence>> /\ mode = "buffered"
         \/ log' = log \cup {new} /\ sequence' = sequence + 1 /\ mode # "buffered"
      /\ UNCHANGED <<files, manifests, current, mode, nextSegment, epoch, liveGeneration>>
      /\ UNCHANGED <<permit, drained, folded>>
  BY DEF Admit, list, sealing
<1>2. /\ Len(batches) \in Nat /\ Len(batches') = b
      /\ epoch \in Nat /\ sequence \in Nat /\ buffer \in Row
      /\ \A f \in log : f.at \in Nat /\ f.epoch \in Nat /\ f.row \in Row
  BY <1>1 DEF Typed
<1>3. /\ \A k \in Keys : row[k] = IF k \in ks THEN b ELSE 0
      /\ new.at = sequence + 1 /\ new.epoch = epoch /\ new.row = row
  BY DEF Frame
<1>4. \A k \in Keys : buffer'[k] = IF k \in ks THEN b ELSE buffer[k]
  BY <1>1, <1>2, <1>3 DEF Over
<1>5. ASSUME NEW stamp \in Stamp, Past(stamp)
      PROVE  After(StampOf(new), stamp)
  <2> HIDE DEF row
  <2>1. After(StampOf([at |-> sequence + 1, epoch |-> epoch, row |-> row]), stamp)
    BY <1>2, <1>5, NextIsAfter
  <2> QED
    BY <2>1 DEF Frame
<1> HIDE DEF row, new
<1>6. \A k \in Keys, f \in log : f.row[k] \in Nat /\ f.row[k] <= Len(batches)
  BY <1>2 DEF NoNewer, Row
<1>7. LogOrdered'
  <2>1. CASE UNCHANGED <<log, sequence>>
    BY <1>1, <2>1 DEF LogOrdered, Precedes
  <2>2. CASE log' = log \cup {new} /\ sequence' = sequence + 1 /\ mode # "buffered"
    <3>1. \A f \in log : f.at <= sequence /\ f.epoch <= epoch
      BY <2>2 DEF LogOrdered
    <3>2. HasLatest(log')
      BY <1>2, <1>3, <2>2, <3>1, LatestOfMore DEF LogOrdered
    <3>3. ASSUME NEW f \in log', NEW g \in log', f.at <= g.at
          PROVE  Precedes(f, g)
      <4>1. CASE f \in log /\ g \in log
        BY <3>3, <4>1 DEF LogOrdered
      <4>2. CASE f \in log /\ g = new
        BY <1>2, <1>3, <1>6, <3>1, <4>2 DEF Precedes
      <4>3. CASE f = new /\ g \in log
        BY <1>2, <1>3, <3>1, <3>3, <4>3
      <4>4. CASE f = new /\ g = new
        BY <1>2, <1>3, <4>4 DEF Precedes
      <4> QED
        BY <2>2, <4>1, <4>2, <4>3, <4>4
    <3>4. \A f \in log' : f.at <= sequence' /\ f.epoch <= epoch'
      BY <1>1, <1>2, <1>3, <2>2, <3>1
    <3> QED
      BY <3>2, <3>3, <3>4 DEF LogOrdered, Precedes
  <2> QED
    BY <1>1, <2>1, <2>2
<1>8. NoNewer'
  BY <1>1, <1>2, <1>3, <1>4, <1>6 DEF NoNewer, Row
<1>9. Backed'
  <2>1. ASSUME NEW k \in Keys, NEW f \in log', buffer'[k] # 0
        PROVE  f.row[k] <= buffer'[k]
    <3>1. CASE f \in log
      BY <1>2, <1>4, <1>6, <2>1, <3>1 DEF Backed
    <3>2. CASE f = new
      BY <1>2, <1>3, <1>4, <2>1, <3>2 DEF Row
    <3> QED
      BY <1>1, <3>1, <3>2
  <2>2. ASSUME NEW k \in Keys, NEW f \in log', buffer'[k] = 0, mode # "buffered"
        PROVE  f.row[k] <= Resolve(files)[k]
    <3>1. k \notin ks /\ buffer[k] = 0
      BY <1>2, <1>4, <2>2
    <3>2. CASE f \in log
      BY <2>2, <3>1, <3>2 DEF Backed
    <3>3. CASE f = new
      <4>1. f.row[k] = 0
        BY <1>3, <3>1, <3>3
      <4>2. Resolve(files)[k] \in Nat
        BY FilesRow DEF Row
      <4> QED
        BY <4>1, <4>2
    <3> QED
      BY <1>1, <3>2, <3>3
  <2> QED
    BY <1>1, <2>1, <2>2 DEF Backed
<1>10. NamesUnused' /\ Generations'
  BY <1>1 DEF NamesUnused, Generations
<1>11. ASSUME NEW stamp \in Stamp, Past(stamp)
       PROVE  /\ stamp.epoch <= epoch' /\ stamp.seq <= sequence'
              /\ \A f \in log' \ log : After(StampOf(f), stamp)
  BY <1>1, <1>2, <1>5, <1>11 DEF Past, Stamp
<1>12. manifests[current] \in Stamp /\ drained.stamp \in Stamp /\ folded \in Stamp
  BY DEF Generations, Typed
<1>13. /\ InSegments(manifests[current])'
       /\ (mode # "buffered" => Past(manifests[current]))'
  BY <1>1, <1>11, <1>12 DEF InSegments, Past
<1>14. ASSUME NEW q \in Procs, pc'[q] \in Flying
       PROVE  pc'[q] = pc[q]
  BY <1>14 DEF Admit, Goto, Typed, Procs, Flying
<1>15. WriteIsNewest'
  <2> SUFFICES ASSUME NEW q \in Procs, pc'[q] = "write"
               PROVE  /\ \A f \in files : f.at < drained.at
                      /\ drained.at < nextSegment
                      /\ Past(drained.stamp)'
                      /\ \A k \in Keys : drained.row[k] # 0 => buffer'[k] # 0
                      /\ \A f \in log', k \in Keys :
                            \/ After(StampOf(f), drained.stamp) /\ After(StampOf(f), manifests[current])
                            \/ f.row[k] <= IF drained.row[k] # 0 THEN drained.row[k] ELSE Resolve(files)[k]
    BY <1>1 DEF WriteIsNewest
  <2>1. pc[q] = "write"
    BY <1>14 DEF Flying
  <2>2. Past(drained.stamp)' /\ \A f \in log' \ log : After(StampOf(f), drained.stamp)
    BY <1>1, <1>11, <1>12, <2>1 DEF WriteIsNewest, Past
  <2>3. \A f \in log' \ log : After(StampOf(f), manifests[current])
    BY <1>1, <1>11, <1>12
  <2>4. \A k \in Keys : drained.row[k] # 0 => buffer'[k] # 0
    BY <1>2, <1>4, <2>1 DEF WriteIsNewest
  <2> QED
    BY <2>1, <2>2, <2>3, <2>4 DEF WriteIsNewest
<1>16. SealIsWritten'
  BY <1>1, <1>11, <1>12, <1>14 DEF SealIsWritten, InSegments, Past, Flying
<1>17. FoldIsSealed'
  <2>1. Maintainer \in Procs
    BY DEF Procs
  <2> QED
    BY <1>1, <1>11, <1>12, <1>14, <2>1 DEF FoldIsSealed, InSegments, Past, Flying, NextGeneration
<1> QED
  BY <1>7, <1>8, <1>9, <1>10, <1>13, <1>15, <1>16, <1>17 DEF Settled, InFlight

----------------------------------------------------------------------------
(* Seals.                                                                  *)

(* While one thread works nobody else relies on a drain or a fold.         *)
LEMMA OthersRest ==
    ASSUME Typed, OnePermit, NEW p \in Procs, pc[p] \in Working, NEW where \in PC, Goto(p, where)
    PROVE  pc'[p] = where /\ \A q \in Procs : pc'[q] \in Flying => q = p
<1>1. pc'[p] = where /\ \A q \in Procs : q # p => pc'[q] = pc[q]
  BY GotoIs
<1> QED
  BY <1>1, Alone DEF Flying, Working

(* A drain is the whole buffer, taken under the writer lock with the stamp *)
(* of the last frame: newer than every frame it stands for                 *)
(* (Store::seal_with_permit).                                              *)
LEMMA DrainKeeps ==
    ASSUME Inv, NEW t \in Procs, Drain(t)
    PROVE  Settled' /\ InFlight'
<1> USE DEF Inv
<1>1. /\ UNCHANGED <<log, files, manifests, current, mode, buffer, epoch, sequence, batches>>
      /\ UNCHANGED <<liveGeneration, folded>>
      /\ nextSegment' = nextSegment + 1
      /\ drained'.row = buffer /\ drained'.at = nextSegment
      /\ drained'.stamp = IF mode = "buffered" THEN NoFold ELSE Position
  BY DEF Drain, disk, logFile, stamps, history
<1>2. pc'[t] = "write" /\ \A q \in Procs : pc'[q] \in Flying => q = t
  BY OthersRest DEF Drain, At, Working, PC
<1>3. nextSegment \in Nat /\ epoch \in Nat /\ sequence \in Nat
  BY DEF Typed
<1>4. Settled'
  <2>1. NamesUnused'
    BY <1>1, <1>3 DEF NamesUnused, Typed
  <2> QED
    BY <1>1, <2>1 DEF Settled, LogOrdered, NoNewer, Backed, Generations, InSegments, Past
<1>5. Past(drained.stamp)'
  BY <1>1, <1>3 DEF Past, NoFold, Position
<1>6. ASSUME NEW f \in log, NEW k \in Keys,
             ~After(StampOf(f), drained'.stamp) \/ ~After(StampOf(f), manifests[current])
      PROVE  f.row[k] <= IF buffer[k] # 0 THEN buffer[k] ELSE Resolve(files)[k]
  <2>1. CASE buffer[k] # 0
    BY <2>1 DEF Backed
  <2>2. CASE buffer[k] = 0 /\ mode # "buffered"
    BY <2>2 DEF Backed
  <2>3. CASE buffer[k] = 0 /\ mode = "buffered"
    <3>1. After(StampOf(f), NoFold)
      BY DEF Typed, After, StampOf, NoFold
    <3>2. ~After(StampOf(f), manifests[current])
      BY <1>1, <1>6, <2>3, <3>1
    <3>3. f.row[k] <= Resolve(files)[k]
      BY <3>2 DEF InSegments
    <3> QED
      BY <2>3, <3>3
  <2> QED
    BY <2>1, <2>2, <2>3
<1>7. WriteIsNewest'
  BY <1>1, <1>2, <1>3, <1>5, <1>6 DEF WriteIsNewest, Flying, NamesUnused, Past
<1>8. SealIsWritten' /\ FoldIsSealed'
  <2>1. Maintainer \in Procs
    BY DEF Procs
  <2> QED
    BY <1>2, <2>1 DEF SealIsWritten, FoldIsSealed, Flying
<1> QED
  BY <1>4, <1>7, <1>8 DEF InFlight

(* A segment that is written shows over the others, and takes from no      *)
(* frame what stood for it (Segment::write).                               *)
LEMMA WriteKeeps ==
    ASSUME Inv, NEW t \in Procs, WriteSegment(t)
    PROVE  Settled' /\ InFlight'
<1> USE DEF Inv
<1>1. /\ UNCHANGED <<log, manifests, current, mode, buffer, nextSegment, epoch, sequence>>
      /\ UNCHANGED <<liveGeneration, batches, drained, folded>>
      /\ files' = files \cup {Sealed}
  BY DEF WriteSegment, logFile, memory, list, stamps, sealing, history
<1>2. pc[t] = "write" /\ pc'[t] = "publish" /\ \A q \in Procs : pc'[q] \in Flying => q = t
  BY OthersRest DEF WriteSegment, At, Working, PC
<1>3. /\ Sealed.at = drained.at /\ Sealed.row = drained.row
      /\ drained.at \in Nat /\ nextSegment \in Nat
      /\ \A f \in files : f.at \in Nat /\ f.at < drained.at
      /\ drained.at < nextSegment
  BY <1>2 DEF Sealed, Typed, WriteIsNewest
<1>4. ASSUME NEW k \in Keys
      PROVE  /\ drained.row[k] # 0 => Resolve(files')[k] = drained.row[k]
             /\ drained.row[k] = 0 => Resolve(files')[k] = Resolve(files)[k]
  <2> DEFINE new == Sealed
  <2> HIDE DEF new
  <2>1. /\ new.row[k] # 0 => Resolve(files \cup {new})[k] = new.row[k]
        /\ new.row[k] = 0 => Resolve(files \cup {new})[k] = Resolve(files)[k]
    BY <1>3, ResolveMore DEF new
  <2> QED
    BY <1>1, <1>3, <2>1 DEF new
<1>5. NamesUnused'
  <2>1. HasLatest(files')
    BY <1>1, <1>3, LatestOfMore DEF NamesUnused
  <2> QED
    BY <1>1, <1>3, <2>1 DEF NamesUnused
<1>6. Backed'
  BY <1>1, <1>2, <1>4 DEF Backed, WriteIsNewest
<1>7. ASSUME NEW f \in log, NEW k \in Keys,
             ~After(StampOf(f), drained.stamp) \/ ~After(StampOf(f), manifests[current])
      PROVE  f.row[k] <= Resolve(files')[k]
  BY <1>2, <1>4, <1>7 DEF WriteIsNewest
<1>8. InSegments(manifests[current])' /\ InSegments(drained.stamp)'
  BY <1>1, <1>7 DEF InSegments
<1>9. Settled'
  BY <1>1, <1>5, <1>6, <1>8 DEF Settled, LogOrdered, NoNewer, Generations, Past
<1>10. SealIsWritten'
  BY <1>1, <1>2, <1>4, <1>8 DEF SealIsWritten, WriteIsNewest, Flying, Past
<1>11. WriteIsNewest' /\ FoldIsSealed'
  <2>1. Maintainer \in Procs
    BY DEF Procs
  <2> QED
    BY <1>2, <2>1 DEF WriteIsNewest, FoldIsSealed, Flying
<1> QED
  BY <1>9, <1>10, <1>11 DEF InFlight

(* Publishing shows what was written (Store::publish_segment).             *)
LEMMA PublishKeeps ==
    ASSUME Inv, NEW t \in Procs, Publish(t)
    PROVE  Settled' /\ InFlight'
<1> USE DEF Inv
<1>1. UNCHANGED contents /\ UNCHANGED <<drained, folded>>
  BY DEF Publish, contents, disk, logFile, stamps, sealing, history
<1>2. pc[t] = "publish" /\ pc'[t] = "reconcile" /\ \A q \in Procs : pc'[q] \in Flying => q = t
  BY OthersRest DEF Publish, At, Working, PC
<1>3. Settled'
  BY <1>1, SettledStays DEF Settled
<1>4. SealIsWritten'
  BY <1>1, <1>2 DEF SealIsWritten, Flying, contents, InSegments, Past
<1>5. WriteIsNewest' /\ FoldIsSealed'
  <2>1. Maintainer \in Procs
    BY DEF Procs
  <2> QED
    BY <1>2, <2>1 DEF WriteIsNewest, FoldIsSealed, Flying
<1> QED
  BY <1>3, <1>4, <1>5 DEF InFlight

(* A log that is reset, or rewritten to carry just what is left in the     *)
(* buffer, keeps its meaning, and no earlier stamp stands for its frame    *)
(* (Wal::reset, Wal::rewrite).                                             *)
LEMMA ReclaimKeeps ==
    ASSUME Inv, mode # "buffered", NEW e \in Nat, ResetLog \/ RewriteLog(buffer', e),
           buffer' \in Row, \A k \in Keys : buffer'[k] <= Len(batches),
           UNCHANGED <<files, manifests, current, mode, nextSegment, liveGeneration, batches>>
    PROVE  /\ Settled'
           /\ epoch <= epoch' /\ sequence <= sequence'
           /\ \A stamp \in Stamp, f \in log' : Past(stamp) => After(StampOf(f), stamp)
<1> USE DEF Inv
<1>0. epoch \in Nat /\ sequence \in Nat /\ manifests[current] \in Stamp /\ Past(manifests[current])
  BY DEF Typed, Generations
<1>1. epoch' \in Nat /\ sequence' \in Nat /\ epoch <= epoch' /\ sequence <= sequence'
  <2>1. Larger(epoch, e) \in Nat /\ epoch <= Larger(epoch, e)
    BY <1>0, LargerIs
  <2> QED
    BY <1>0, <2>1 DEF ResetLog, RewriteLog
<1>2. epoch \in Nat /\ sequence \in Nat /\ Resolve(files) \in Row
  BY FilesRow DEF Typed
<1>3. CASE ResetLog
  <2>1. log' = {} /\ epoch' = epoch /\ sequence' = sequence
    BY <1>3 DEF ResetLog
  <2>2. LogOrdered' /\ NoNewer' /\ Backed'
    BY <2>1 DEF LogOrdered, HasLatest, NoNewer, Backed
  <2>3. NamesUnused' /\ Generations' /\ InSegments(manifests[current])'
    BY <2>1 DEF NamesUnused, Generations, InSegments
  <2>4. Past(manifests[current])'
    BY <1>0, <1>1, PastStays DEF Past
  <2> QED
    BY <1>2, <2>1, <2>2, <2>3, <2>4 DEF Settled
<1>4. CASE RewriteLog(buffer', e)
  <2> DEFINE new == [at |-> sequence + 1, epoch |-> epoch', row |-> buffer']
  <2>1. log' = {new} /\ sequence' = sequence + 1 /\ epoch' \in Nat /\ epoch' >= epoch
    BY <1>2, <1>4, LargerIs DEF RewriteLog
  <2>2. new.at = sequence + 1 /\ new.epoch = epoch' /\ new.row = buffer'
    OBVIOUS
  <2>3. \A stamp \in Stamp : Past(stamp) => After(StampOf(new), stamp)
    BY <2>1, NextIsAfter
  <2> HIDE DEF new
  <2>4. LogOrdered'
    <3>1. HasLatest(log')
      BY <1>2, <2>1, <2>2, LatestOfOne
    <3>2. \A f \in log' : f.at <= sequence' /\ f.epoch <= epoch'
      BY <1>2, <2>1, <2>2
    <3>3. \A f, g \in log' : Precedes(f, g)
      BY <1>2, <2>1, <2>2 DEF Precedes, Row
    <3> QED
      BY <3>1, <3>2, <3>3 DEF LogOrdered, Precedes
  <2>5. NoNewer' /\ Backed'
    BY <1>2, <2>1, <2>2 DEF NoNewer, Backed, Row
  <2>6. NamesUnused' /\ Generations'
    BY DEF NamesUnused, Generations
  <2>7. InSegments(manifests[current])' /\ (mode # "buffered" => Past(manifests[current]))'
    BY <1>0, <1>1, <2>1, <2>3, PastStays DEF InSegments, Past
  <2> QED
    BY <1>2, <2>1, <2>3, <2>4, <2>5, <2>6, <2>7 DEF Settled
<1> QED
  BY <1>3, <1>4

(* A seal lets go of what its segment shows, and the fold point of a       *)
(* checkpoint is the drain's stamp (Store::reconcile_after_publish).       *)
LEMMA ReconcileKeeps ==
    ASSUME Inv, Typed', NEW t \in Procs, Reconcile(t)
    PROVE  Settled' /\ InFlight'
<1> USE DEF Inv
<1>1. /\ UNCHANGED <<files, manifests, current, mode, nextSegment, liveGeneration, batches>>
      /\ buffer' = Survivors
      /\ LeaveLog \/ (mode # "buffered" /\ (ResetLog \/ RewriteLog(Survivors, 0)))
  BY DEF Reconcile, ReclaimSealed, list
<1>2. /\ pc[t] = "reconcile"
      /\ \/ Checkpoints(t) /\ Goto(t, "manifest") /\ folded' = drained.stamp
         \/ Goto(t, "idle")
  BY DEF Reconcile, At, FoldPoint, Acknowledge
<1>3. /\ Past(drained.stamp) /\ InSegments(drained.stamp) /\ drained.stamp \in Stamp
      /\ \A k \in Keys : drained.row[k] # 0 => Resolve(files)[k] = drained.row[k]
  BY <1>2 DEF SealIsWritten, Typed
<1>4. /\ Survivors \in Row
      /\ \A k \in Keys : /\ Survivors[k] = IF buffer[k] = drained.row[k] THEN 0 ELSE buffer[k]
                         /\ Survivors[k] <= Len(batches)
  <2>1. \A k \in Keys : /\ Survivors[k] = IF buffer[k] = drained.row[k] THEN 0 ELSE buffer[k]
                        /\ buffer[k] \in Nat /\ buffer[k] <= Len(batches)
    BY DEF Survivors, Typed, Row, NoNewer
  <2>2. Survivors \in Row
    BY <2>1 DEF Survivors, Row
  <2>3. Len(batches) \in Nat
    BY DEF Typed
  <2> QED
    BY <2>1, <2>2, <2>3
<1>5. ASSUME LeaveLog PROVE Settled'
  <2>1. UNCHANGED <<log, epoch, sequence>>
    BY <1>5 DEF LeaveLog, logFile, stamps
  <2>2. Backed'
    <3>1. ASSUME NEW k \in Keys, NEW f \in log, Survivors[k] = 0, mode # "buffered"
          PROVE  f.row[k] <= Resolve(files)[k]
      <4>1. CASE buffer[k] = 0
        BY <3>1, <4>1 DEF Backed
      <4>2. CASE buffer[k] # 0
        <5>1. Resolve(files)[k] = buffer[k]
          BY <1>3, <1>4, <3>1, <4>2
        <5> QED
          BY <4>2, <5>1 DEF Backed
      <4> QED
        BY <4>1, <4>2
    <3>2. ASSUME NEW k \in Keys, NEW f \in log, Survivors[k] # 0
          PROVE  f.row[k] <= Survivors[k]
      BY <1>4, <3>2 DEF Backed
    <3> QED
      BY <1>1, <2>1, <3>1, <3>2 DEF Backed
  <2>3. NoNewer'
    BY <1>1, <1>4, <2>1 DEF NoNewer
  <2>4. LogOrdered' /\ NamesUnused' /\ Generations'
    BY <1>1, <2>1 DEF LogOrdered, NamesUnused, Generations
  <2>5. InSegments(manifests[current])' /\ (mode # "buffered" => Past(manifests[current]))'
    BY <1>1, <2>1 DEF InSegments, Past
  <2> QED
    BY <2>1, <2>2, <2>3, <2>4, <2>5 DEF Settled
<1>6. ASSUME mode # "buffered", ResetLog \/ RewriteLog(Survivors, 0) PROVE Settled'
  BY <1>1, <1>4, <1>6, ReclaimKeeps
<1>7. Settled'
  BY <1>1, <1>5, <1>6
<1>8. /\ epoch <= epoch' /\ sequence <= sequence'
      /\ \A f \in log' : ~After(StampOf(f), drained.stamp) => f \in log
  <2>1. CASE LeaveLog
    BY <2>1 DEF LeaveLog, logFile, stamps, Typed
  <2>2. CASE mode # "buffered" /\ (ResetLog \/ RewriteLog(Survivors, 0))
    BY <1>1, <1>3, <1>4, <2>2, ReclaimKeeps
  <2> QED
    BY <1>1, <2>1, <2>2
<1>9. \A q \in Procs : pc'[q] \in Flying => q = t /\ pc'[t] = "manifest"
  BY <1>2, OthersRest DEF Working, PC, Flying
<1>10. WriteIsNewest' /\ SealIsWritten'
  BY <1>9 DEF WriteIsNewest, SealIsWritten, Flying
<1>11. ASSUME pc'[Maintainer] \in {"manifest", "current"}
       PROVE  Past(folded)' /\ InSegments(folded)' /\ pc'[Maintainer] = "manifest"
  <2>1. t = Maintainer /\ pc'[t] = "manifest"
    BY <1>9, <1>11 DEF Procs, Flying
  <2>2. folded' = drained.stamp
    BY <1>2, <2>1, GotoIs DEF PC
  <2>3. Past(folded)'
    BY <1>3, <1>8, <2>2, PastStays DEF Past, Typed
  <2>4. InSegments(folded)'
    BY <1>1, <1>3, <1>8, <2>2 DEF InSegments
  <2> QED
    BY <2>1, <2>3, <2>4
<1>12. FoldIsSealed'
  BY <1>9, <1>11 DEF FoldIsSealed, Flying, Procs
<1> QED
  BY <1>7, <1>10, <1>12 DEF InFlight

----------------------------------------------------------------------------
(* Checkpoints.                                                            *)

(* Every frame of a log is after the fold of a store that folded nothing   *)
(* (FoldedThrough::default).                                               *)
LEMMA NothingFolded ==
    ASSUME Typed
    PROVE  InSegments(NoFold)
BY DEF Typed, InSegments, After, StampOf, NoFold

(* A thread at rest, alone or with a store that is down, relies on nothing.*)
LEMMA AtRest ==
    ASSUME \A q \in Procs : pc'[q] \notin Flying
    PROVE  InFlight'
BY DEF InFlight, WriteIsNewest, SealIsWritten, FoldIsSealed, Flying, Procs

(* With nothing in the buffer everything is in segments, so the fold point *)
(* is the last frame (Store::checkpoint_locked).                           *)
LEMMA FoldPositionKeeps ==
    ASSUME Inv, FoldPosition
    PROVE  Settled' /\ InFlight'
<1> USE DEF Inv
<1>1. /\ UNCHANGED contents /\ Maintainer \in Procs /\ pc[Maintainer] \in Working
      /\ {"drain", "manifest"} \subseteq PC
  BY DEF FoldPosition, contents, disk, logFile, memory, list, stamps, history, Procs, At,
     Working, PC
<1>2. Settled'
  BY <1>1, SettledStays DEF Settled
<1>3. CASE Goto(Maintainer, "drain")
  BY <1>1, <1>3, OthersRest, AtRest, <1>2 DEF Flying
<1>4. CASE /\ buffer = Empty \/ mode = "buffered"
           /\ folded' = (IF mode = "buffered" THEN NoFold ELSE Position)
           /\ Goto(Maintainer, "manifest")
  <2>1. InSegments(folded')
    <3>1. CASE mode = "buffered"
      BY <1>4, <3>1, NothingFolded
    <3>2. CASE mode # "buffered" /\ buffer = Empty
      BY <3>2 DEF Backed, InSegments, Empty
    <3> QED
      BY <1>4, <3>1, <3>2
  <2>2. folded'.epoch <= epoch /\ folded'.seq <= sequence
    BY <1>4 DEF NoFold, Position, Typed
  <2>3. pc'[Maintainer] = "manifest" /\ \A q \in Procs : pc'[q] \in Flying => q = Maintainer
    BY <1>1, <1>4, OthersRest
  <2>4. FoldIsSealed'
    BY <1>1, <2>1, <2>2, <2>3 DEF FoldIsSealed, contents, InSegments, Past
  <2> QED
    BY <1>2, <2>3, <2>4 DEF InFlight, WriteIsNewest, SealIsWritten, Flying
<1> QED
  BY <1>3, <1>4 DEF FoldPosition

(* The manifest of a generation may overwrite the one CURRENT names, after *)
(* a publication whose sync failed: its fold is sealed too                 *)
(* (Store::checkpoint_locked, Manifest::write).                            *)
LEMMA ManifestKeeps ==
    ASSUME Inv, WriteManifest
    PROVE  Settled' /\ InFlight'
<1> USE DEF Inv
<1>1. /\ UNCHANGED <<log, files, current, mode, buffer, nextSegment, epoch, sequence>>
      /\ UNCHANGED <<liveGeneration, batches, folded>>
      /\ DOMAIN manifests' = DOMAIN manifests \cup {NextGeneration}
      /\ manifests'[NextGeneration] = folded
      /\ \A g \in DOMAIN manifests \ {NextGeneration} : manifests'[g] = manifests[g]
  BY DEF WriteManifest, logFile, memory, list, stamps, sealing, history
<1>2. pc[Maintainer] = "manifest" /\ Maintainer \in Procs
  BY DEF WriteManifest, At, Procs
<1>3. pc'[Maintainer] = "current" /\ \A q \in Procs : pc'[q] \in Flying => q = Maintainer
  BY <1>2, OthersRest DEF WriteManifest, Working, PC
<1>4. Past(folded) /\ InSegments(folded) /\ folded \in Stamp
  BY <1>2 DEF FoldIsSealed, Typed
<1>5. manifests'[current] = folded \/ manifests'[current] = manifests[current]
  BY <1>1 DEF Generations
<1>6. Generations'
  <2>1. folded.epoch <= NextGeneration
    BY <1>4, NextGenerationIs DEF Past, Stamp, Typed
  <2> QED
    BY <1>1, <2>1 DEF Generations
<1>7. InSegments(manifests[current])' /\ (mode # "buffered" => Past(manifests[current]))'
  BY <1>1, <1>4, <1>5 DEF InSegments, Past
<1>8. Settled'
  BY <1>1, <1>6, <1>7 DEF Settled, LogOrdered, NoNewer, Backed, NamesUnused
<1>9. FoldIsSealed'
  BY <1>1, <1>3, <1>4 DEF FoldIsSealed, InSegments, Past, NextGeneration
<1> QED
  BY <1>3, <1>8, <1>9 DEF InFlight, WriteIsNewest, SealIsWritten, Flying

(* CURRENT names a generation whose manifest is written, whether or not    *)
(* memory learns of it (Store::checkpoint_locked, publish_current).        *)
LEMMA CurrentKeeps ==
    ASSUME Inv, pc[Maintainer] = "current", current' = NextGeneration,
           UNCHANGED <<log, files, manifests, mode, buffer, nextSegment, epoch, sequence, batches>>,
           liveGeneration' = liveGeneration \/ liveGeneration' = NextGeneration
    PROVE  Settled'
<1> USE DEF Inv
<1>1. /\ Past(folded) /\ InSegments(folded)
      /\ NextGeneration \in DOMAIN manifests /\ manifests[NextGeneration] = folded
  BY DEF FoldIsSealed
<1>2. Generations'
  BY <1>1, NextGenerationIs DEF Generations, Typed
<1>3. InSegments(manifests[current])' /\ (mode # "buffered" => Past(manifests[current]))'
  BY <1>1 DEF InSegments, Past
<1> QED
  BY <1>2, <1>3 DEF Settled, LogOrdered, NoNewer, Backed, NamesUnused

(* So the publication keeps the invariant, and so does one whose directory *)
(* sync fails (publish_current).                                           *)
LEMMA PublishCurrentKeeps ==
    ASSUME Inv, PublishCurrent \/ CurrentUnsynced
    PROVE  Settled' /\ InFlight'
<1> USE DEF Inv
<1>1. Maintainer \in Procs /\ pc[Maintainer] = "current" /\ {"sweep", "epoch", "idle"} \subseteq PC
  BY DEF PublishCurrent, CurrentUnsynced, At, Procs, PC
<1>2. Settled'
  <2>1. /\ current' = NextGeneration
        /\ UNCHANGED <<log, files, manifests, mode, buffer, nextSegment, epoch, sequence, batches>>
        /\ liveGeneration' = liveGeneration \/ liveGeneration' = NextGeneration
    BY DEF PublishCurrent, CurrentUnsynced, logFile, memory, list, stamps, history
  <2> QED
    BY <1>1, <2>1, CurrentKeeps
<1>3. CASE Goto(Maintainer, "epoch") /\ mode # "buffered" /\ mode' = mode
  <2>1. pc'[Maintainer] = "epoch" /\ \A q \in Procs : pc'[q] \in Flying => q = Maintainer
    BY <1>1, <1>3, OthersRest DEF Working
  <2> QED
    BY <1>2, <1>3, <2>1 DEF InFlight, WriteIsNewest, SealIsWritten, FoldIsSealed, Flying
<1>4. CASE Goto(Maintainer, "sweep") \/ Goto(Maintainer, "idle")
  <2>1. \A q \in Procs : pc'[q] \notin Flying
    BY <1>1, <1>4, OthersRest DEF Working, Flying
  <2> QED
    BY <1>2, <2>1, AtRest
<1> QED
  BY <1>3, <1>4 DEF PublishCurrent, CurrentUnsynced, Fail

(* The epoch only grows, and not in a store without a log                  *)
(* (Wal::set_epoch).                                                       *)
LEMMA EpochKeeps ==
    ASSUME Inv, Typed', AdvanceEpoch
    PROVE  Settled' /\ InFlight'
<1> USE DEF Inv
<1>1. /\ UNCHANGED <<log, files, manifests, current, mode, buffer, nextSegment, sequence>>
      /\ UNCHANGED <<liveGeneration, batches>>
      /\ epoch' = Larger(epoch, liveGeneration)
  BY DEF AdvanceEpoch, disk, logFile, list, history
<1>2. Maintainer \in Procs /\ pc[Maintainer] = "epoch" /\ "reclaim" \in PC
  BY DEF AdvanceEpoch, At, Procs, PC
<1>3. epoch \in Nat /\ epoch' \in Nat /\ sequence \in Nat /\ epoch <= epoch'
  BY <1>1, LargerIs DEF Typed
<1>4. manifests[current] \in Stamp
  BY DEF Typed, Generations
<1>5. LogOrdered' /\ (mode # "buffered" => Past(manifests[current]))'
  BY <1>1, <1>3, <1>4, PastStays DEF LogOrdered, Precedes, Past, Typed
<1>6. Settled'
  BY <1>1, <1>5 DEF Settled, NoNewer, Backed, NamesUnused, Generations, InSegments
<1>7. pc'[Maintainer] = "reclaim" /\ \A q \in Procs : pc'[q] \in Flying => q = Maintainer
  BY <1>2, OthersRest DEF AdvanceEpoch, Working
<1>8. mode' # "buffered"
  BY <1>1, <1>2 DEF FoldIsSealed
<1> QED
  BY <1>6, <1>7, <1>8 DEF InFlight, WriteIsNewest, SealIsWritten, FoldIsSealed, Flying

(* What a checkpoint leaves in the log is what is left in the buffer       *)
(* (Store::checkpoint_locked).                                             *)
LEMMA ReclaimFoldedKeeps ==
    ASSUME Inv, ReclaimFolded
    PROVE  Settled' /\ InFlight'
<1> USE DEF Inv
<1>1. /\ UNCHANGED <<files, manifests, current, mode, buffer, nextSegment, liveGeneration, batches>>
      /\ ResetLog \/ RewriteLog(buffer', liveGeneration)
  BY DEF ReclaimFolded, list, history, RewriteLog
<1>2. Maintainer \in Procs /\ pc[Maintainer] = "reclaim" /\ "sweep" \in PC
  BY DEF ReclaimFolded, At, Procs, PC
<1>3. Settled'
  <2>1. mode # "buffered" /\ liveGeneration \in Nat /\ buffer' \in Row
        /\ \A k \in Keys : buffer'[k] <= Len(batches)
    BY <1>1, <1>2 DEF FoldIsSealed, Typed, NoNewer
  <2> QED
    BY <1>1, <2>1, ReclaimKeeps
<1>4. \A q \in Procs : pc'[q] \notin Flying
  BY <1>2, OthersRest DEF ReclaimFolded, Working, Flying
<1> QED
  BY <1>3, <1>4, AtRest

(* The sweep leaves the generation CURRENT names (sweep_generations).      *)
LEMMA SweepKeeps ==
    ASSUME Inv, SweepGenerations
    PROVE  Settled' /\ InFlight'
<1> USE DEF Inv
<1>1. UNCHANGED <<log, files, current, mode, buffer, nextSegment, epoch, sequence, batches, liveGeneration>>
  BY DEF SweepGenerations, logFile, memory, list, stamps, history
<1>2. Maintainer \in Procs /\ pc[Maintainer] = "sweep" /\ "idle" \in PC
  BY DEF SweepGenerations, At, Procs, PC
<1>3. /\ DOMAIN manifests' = {g \in DOMAIN manifests : g >= liveGeneration}
      /\ \A g \in DOMAIN manifests' : manifests'[g] = manifests[g]
  BY DEF SweepGenerations
<1>4. Generations' /\ manifests'[current] = manifests[current]
  BY <1>1, <1>3 DEF Generations, Typed
<1>5. Settled'
  BY <1>1, <1>4 DEF Settled, LogOrdered, NoNewer, Backed, NamesUnused, InSegments, Past
<1>6. \A q \in Procs : pc'[q] \notin Flying
  BY <1>2, OthersRest DEF SweepGenerations, Working, Flying
<1> QED
  BY <1>5, <1>6, AtRest

----------------------------------------------------------------------------
(* Crashes and restarts.                                                   *)

(* A crash takes a suffix of the log and whoever was at work.              *)
LEMMA CrashKeeps ==
    ASSUME Inv, Kill \/ Power
    PROVE  Settled' /\ InFlight'
<1> USE DEF Inv
<1>1. /\ log' \subseteq log
      /\ UNCHANGED <<files, manifests, current, mode, buffer, nextSegment, epoch, sequence>>
      /\ UNCHANGED <<liveGeneration, batches>>
      /\ \A q \in Procs : pc'[q] = "idle"
  BY DEF Kill, Power, Die, logFile, memory, list, stamps, history
<1>2. LogOrdered'
  BY <1>1, LatestOfFewer DEF LogOrdered, Precedes
<1>3. Settled'
  BY <1>1, <1>2 DEF Settled, NoNewer, Backed, NamesUnused, Generations, InSegments, Past
<1> QED
  BY <1>1, <1>3, AtRest DEF Flying

(* A restart replays what no generation folded, and what it discards is in *)
(* the segments; the counters it resumes are past every frame and the fold *)
(* (Store::open).                                                          *)
LEMMA OpenKeeps ==
    ASSUME Inv, Typed', NEW m \in Modes, Open(m)
    PROVE  Settled' /\ InFlight'
<1> USE DEF Inv
<1> DEFINE fold == manifests[current]
           unfolded == {f \in log : After(StampOf(f), fold)}
<1>1. /\ UNCHANGED <<log, files, manifests, current, batches, pc>>
      /\ liveGeneration' = current /\ mode' = m /\ status = "down"
      /\ nextSegment' = IF files = {} THEN 0 ELSE Greatest({f.at : f \in files}) + 1
      /\ \/ m = "buffered" /\ buffer' = Empty
         \/ /\ m # "buffered" /\ buffer' = Resolve(unfolded)
            /\ epoch' = ResumeEpoch /\ sequence' = ResumeAfter(fold)
  BY DEF Open, Replay, thread
<1>2. InFlight'
  BY <1>1, AtRest DEF OnePermit, Flying
<1>3. /\ HasLatest(unfolded) /\ unfolded \subseteq log
      /\ \A f \in log : /\ f.at \in Nat /\ f.epoch \in Nat
                        /\ \A k \in Keys : f.row[k] \in Nat /\ f.row[k] <= Len(batches)
      /\ fold \in Stamp /\ fold.epoch <= current /\ current \in Nat
      /\ Len(batches) \in Nat
  <2>1. HasLatest(unfolded) /\ unfolded \subseteq log
    BY LatestOfFewer DEF LogOrdered
  <2>2. \A f \in log : /\ f.at \in Nat /\ f.epoch \in Nat
                       /\ \A k \in Keys : f.row[k] \in Nat
    <3>1. \A f \in log : f.at \in Nat /\ f.epoch \in Nat /\ f.row \in Row
      BY DEF Typed
    <3> QED
      BY <3>1 DEF Row
  <2>3. \A f \in log, k \in Keys : f.row[k] <= Len(batches)
    BY DEF NoNewer
  <2>4. fold \in Stamp /\ fold.epoch <= current /\ current \in Nat /\ Len(batches) \in Nat
    BY DEF Typed, Generations
  <2> QED
    BY <2>1, <2>2, <2>3, <2>4
<1>4. \A f \in log : f \in unfolded \/ \A k \in Keys : f.row[k] <= Resolve(files)[k]
  BY DEF InSegments
<1>5. ASSUME NEW f \in log \ unfolded, NEW g \in unfolded
      PROVE  f.at <= g.at
  <2>1. SUFFICES ASSUME g.at <= f.at PROVE f \in unfolded
    BY <1>3
  <2>2. g.epoch <= f.epoch
    BY <1>3, <2>1 DEF LogOrdered, Precedes
  <2> QED
    BY <1>3, <2>1, <2>2 DEF After, StampOf, Stamp
<1> HIDE DEF unfolded
<1>6. NamesUnused'
  <2> DEFINE ids == {f.at : f \in files}
  <2>1. CASE files = {}
    BY <1>1, <2>1 DEF NamesUnused
  <2>2. CASE files # {}
    <3>1. PICK last \in files : \A f \in files : f.at <= last.at
      BY <2>2 DEF NamesUnused, HasLatest
    <3>2. last.at \in ids /\ \A n \in ids : n <= last.at
      BY <3>1
    <3>3. ids \subseteq Nat /\ ids # {} /\ \A f \in files : f.at \in ids
      <4>1. \A f \in files : f.at \in Nat
        BY DEF Typed
      <4> QED
        BY <2>2, <4>1
    <3>4. nextSegment' = Greatest(ids) + 1
      BY <1>1, <2>2
    <3> HIDE DEF ids
    <3>5. \A n \in ids : n <= Greatest(ids)
      BY <3>2, <3>3 DEF Greatest
    <3>6. Greatest(ids) \in Nat
      BY <3>2, <3>3 DEF Greatest
    <3>7. \A f \in files : f.at < nextSegment'
      <4> SUFFICES ASSUME NEW f \in files PROVE f.at < nextSegment'
        OBVIOUS
      <4>1. f.at \in ids
        BY <3>3
      <4>2. f.at \in Nat /\ f.at <= Greatest(ids)
        BY <3>3, <3>5, <4>1
      <4> QED
        BY <3>4, <3>6, <4>2
    <3> QED
      BY <1>1, <3>7 DEF NamesUnused
  <2> QED
    BY <2>1, <2>2
<1>7. Generations' /\ InSegments(manifests[current])'
  BY <1>1 DEF Generations, InSegments, Typed
<1>8. CASE m = "buffered" /\ buffer' = Empty
  <2>1. LogOrdered' /\ NoNewer' /\ Backed'
    BY <1>1, <1>3, <1>8 DEF LogOrdered, NoNewer, Backed, Empty
  <2> QED
    BY <1>1, <1>2, <1>6, <1>7, <1>8, <2>1 DEF Settled
<1>9. CASE /\ m # "buffered" /\ buffer' = Resolve(unfolded)
           /\ epoch' = ResumeEpoch /\ sequence' = ResumeAfter(fold)
  <2>1. ASSUME NEW k \in Keys
        PROVE  \/ buffer'[k] = 0 /\ \A f \in unfolded : f.row[k] = 0
               \/ \E p \in unfolded : /\ p.row[k] # 0 /\ buffer'[k] = p.row[k]
                                      /\ \A f \in unfolded : f.row[k] # 0 => f.at <= p.at
    BY <1>3, <1>9, ResolveHolds
  <2>2. NoNewer'
    BY <1>1, <1>3, <2>1 DEF NoNewer
  <2>3. ASSUME NEW k \in Keys, NEW f \in log, buffer'[k] # 0
        PROVE  f.row[k] <= buffer'[k]
    <3>1. PICK p \in unfolded : /\ p.row[k] # 0 /\ buffer'[k] = p.row[k]
                                /\ \A g \in unfolded : g.row[k] # 0 => g.at <= p.at
      BY <2>1, <2>3
    <3>2. f.row[k] = 0 \/ f.at <= p.at
      BY <1>5, <3>1
    <3> QED
      BY <1>3, <3>1, <3>2 DEF LogOrdered, Precedes
  <2>4. ASSUME NEW k \in Keys, NEW f \in log, buffer'[k] = 0
        PROVE  f.row[k] <= Resolve(files)[k]
    <3>1. Resolve(files)[k] \in Nat
      BY FilesRow DEF Row
    <3>2. f \in unfolded => f.row[k] = 0
      BY <2>1, <2>4
    <3> QED
      BY <1>4, <3>1, <3>2
  <2>5. Backed'
    BY <1>1, <2>3, <2>4 DEF Backed
  <2>6. /\ \A f \in log : f.at <= sequence' /\ f.epoch <= epoch'
        /\ fold.epoch <= epoch' /\ fold.seq <= sequence'
    <3>1. Highest \in Stamp /\ \A f \in log : f.epoch <= Highest.epoch /\ f.at <= Highest.seq
      BY HighestIs
    <3>2. /\ epoch' \in Nat /\ epoch' >= current /\ epoch' >= Highest.epoch
          /\ sequence' \in Nat /\ sequence' >= Highest.seq /\ sequence' >= fold.seq
      BY <1>3, <1>9, <3>1, LargerIs DEF ResumeEpoch, ResumeAfter, Stamp
    <3> QED
      BY <1>3, <3>1, <3>2 DEF Stamp
  <2>7. LogOrdered'
    BY <1>1, <2>6 DEF LogOrdered, Precedes
  <2>8. Past(manifests[current])'
    BY <1>1, <2>6 DEF Past
  <2> QED
    BY <1>2, <1>6, <1>7, <2>2, <2>5, <2>7, <2>8 DEF Settled
<1> QED
  BY <1>1, <1>8, <1>9

----------------------------------------------------------------------------
(* The theorem.                                                            *)

(* Every step keeps the invariant.                                         *)
LEMMA InvStep == Inv /\ [Next]_vars => Inv'
<1> SUFFICES ASSUME Inv, [Next]_vars PROVE Inv'
  OBVIOUS
<1>1. Typed' /\ OnePermit'
  BY TypedStep, OnePermitStep
<1>2. Settled' /\ InFlight' => Inv'
  BY <1>1 DEF Inv, Settled, InFlight
<1>a. /\ Maintainer \in Procs /\ Ingesters \subseteq Procs
      /\ {"idle", "commit", "permit", "drain", "position"} \subseteq PC \ Flying
  BY DEF Procs, PC, Flying
<1>3. ASSUME UNCHANGED contents, UNCHANGED <<pc, drained, folded>> PROVE Inv'
  <2>1. Settled'
    BY <1>3, SettledStays DEF Inv, Settled
  <2>2. InFlight'
    BY <1>3 DEF contents, Inv, InFlight, WriteIsNewest, SealIsWritten, FoldIsSealed, InSegments,
       Past, NextGeneration
  <2> QED
    BY <1>2, <2>1, <2>2
<1>4. ASSUME NEW p \in Procs, NEW where \in PC \ Flying, UNCHANGED contents, Goto(p, where),
             UNCHANGED <<drained, folded>> \/ pc[p] \in Working
      PROVE  Inv'
  BY <1>2, <1>4, SettledStays, QuietMove DEF Inv, Settled
<1>5. CASE UNCHANGED vars \/ Sync
  BY <1>3, <1>5 DEF vars, Sync, contents, disk, logFile, memory, list, stamps, thread, sealing,
     history
<1>6. ASSUME NEW t \in Procs, CommitAck(t) \/ CommitSeal(t) \/ CommitFails(t)
                              \/ TakePermit(t) \/ SkipSeal(t)
      PROVE  Inv'
  <2>1. /\ UNCHANGED contents /\ UNCHANGED <<drained, folded>>
        /\ Goto(t, "idle") \/ Goto(t, "permit") \/ Goto(t, "drain")
    BY <1>6 DEF CommitAck, CommitSeal, CommitFails, TakePermit, SkipSeal, Acknowledge,
       contents, disk, logFile, memory, list, stamps, sealing, history
  <2> QED
    BY <1>4, <1>a, <2>1
<1>7. CASE AgeSeal \/ BeginCheckpoint
  <2>1. UNCHANGED contents /\ UNCHANGED <<drained, folded>> /\ Goto(Maintainer, "permit")
    BY <1>7 DEF AgeSeal, BeginCheckpoint, contents, disk, logFile, memory, list, stamps,
       sealing, history
  <2> QED
    BY <1>4, <1>a, <2>1
<1>8. ASSUME NEW t \in Procs, DrainNothing(t) \/ SealFails(t)
      PROVE  Inv'
  <2>1. /\ UNCHANGED contents /\ pc[t] \in Working
        /\ Goto(t, "idle") \/ Goto(t, "position")
    BY <1>8 DEF DrainNothing, SealFails, Fail, Acknowledge, At, Working, contents, disk, logFile,
       memory, list, stamps, history
  <2> QED
    BY <1>4, <1>a, <2>1
<1>9. ASSUME NEW t \in Procs, Drain(t) \/ WriteSegment(t) \/ Publish(t) \/ Reconcile(t)
      PROVE  Inv'
  BY <1>1, <1>2, <1>9, DrainKeeps, WriteKeeps, PublishKeeps, ReconcileKeeps
<1>10. CASE CheckpointStep \/ CurrentUnsynced
  BY <1>1, <1>2, <1>10, FoldPositionKeeps, ManifestKeeps, PublishCurrentKeeps, EpochKeeps,
     ReclaimFoldedKeeps, SweepKeeps DEF CheckpointStep
<1>11. CASE Kill \/ Power \/ \E m \in Modes : Open(m)
  BY <1>1, <1>2, <1>11, CrashKeeps, OpenKeeps
<1>12. ASSUME NEW t \in Ingesters, NEW ks \in (SUBSET Keys) \ {{}}, Admit(t, ks)
       PROVE  Inv'
  BY <1>1, <1>2, <1>12, AdmitKeeps
<1> QED
  BY <1>5, <1>6, <1>7, <1>8, <1>9, <1>10, <1>11, <1>12, <1>a DEF Next, IngestStep, SealStep

(* Discarding a frame by its stamp loses nothing, and no frame will be     *)
(* stamped at or before the fold a restart would read: for any keys,       *)
(* threads, modes and faults, the bounds aside (wal.rs append, rewrite;    *)
(* lib.rs checkpoint_locked, open).                                        *)
THEOREM FoldsAreSafe == Spec => []FoldsLoseNothing
<1>1. Inv => FoldsLoseNothing
  <2> SUFFICES ASSUME Inv PROVE FoldsLoseNothing
    OBVIOUS
  <2>1. FoldedIsSealed
    BY DEF Inv, FoldedIsSealed, InSegments
  <2>2. ASSUME mode # "buffered"
        PROVE  After([epoch |-> epoch, seq |-> sequence + 1], manifests[current])
    <3>1. /\ Past(manifests[current]) /\ manifests[current] \in Stamp
          /\ epoch \in Nat /\ sequence \in Nat
      BY <2>2 DEF Inv, Typed, Generations
    <3> QED
      BY <3>1 DEF Past, Stamp, After
  <2> QED
    BY <2>1, <2>2 DEF FoldsLoseNothing, StampsPassFold
<1> QED
  BY <1>1, InvInit, InvStep, PTL DEF Spec
-----------------------------------------------------------------------------
(* What is acknowledged.  In a store with a log, whatever ingest has        *)
(* acknowledged is read after any crashes, power losses included, and      *)
(* during any seal or checkpoint.  A store opened as `buffered` promises   *)
(* less, and `flushed` does not keep it: finding F4 of the README.         *)

WalOnly == Modes = {"wal"}

\* What a client may rely on: what was acknowledged, or is under way; of the
\* latter, a sync has covered what is promised.
Pending(b) == \E t \in Ingesters : batch[t] = b /\ b # 0
Promised(b) == b \in acked \/ (Pending(b) /\ b <= durable)

Synced == {f \in log : f.at <= syncedTo}

\* A frame carries this version of k or a newer one, or the segments show one and
\* no frame would hide it.
Carried(frames, b, k) == \E f \in frames : f.row[k] >= b
InFiles(b, k) == Resolve(files)[k] >= b /\ \A f \in log : f.row[k] = 0 \/ f.row[k] >= b

Shown(parts, b, k) == b <= IF buffer[k] # 0 THEN buffer[k] ELSE Resolve(parts)[k]

Numbered ==
    /\ syncedTo \in Nat /\ durable \in Nat /\ durable <= Len(batches)
    /\ acked \subseteq 1 .. Len(batches)
    /\ \A S \in SUBSET acked : S # {} => \E m \in S : \A s \in S : s <= m
    /\ \A t \in Ingesters : /\ batch[t] <= Len(batches)
                            /\ pc[t] = "idle" <=> batch[t] = 0
                            /\ pc[t] \notin {"idle", "commit"} => batch[t] <= durable

OnDisk ==
    \A b \in 1 .. Len(batches) : \A k \in batches[b] :
        /\ Promised(b) => Carried(Synced, b, k) \/ InFiles(b, k)
        /\ Pending(b) => Carried(log, b, k) \/ InFiles(b, k)

Visibly ==
    \A b \in 1 .. Len(batches) : \A k \in batches[b] :
        Promised(b) \/ Pending(b) => Shown(files, b, k) /\ Shown(segments, b, k)

\* A segment about to be written hides nothing that only older segments have.
HidesNothing ==
    \A p \in Procs : pc[p] = "write" =>
        \A b \in 1 .. Len(batches) : \A k \in batches[b] :
            \/ drained.row[k] = 0 \/ drained.row[k] >= b
            \/ /\ Promised(b) => Carried(Synced, b, k)
               /\ Pending(b) => Carried(log, b, k)

\* A segment is published behind all others, and what it takes the place of stays
\* in the buffer until it shows.
PublishIsLast ==
    /\ segments \subseteq files
    /\ \A p \in Procs :
        /\ pc[p] \in {"publish", "reconcile"} =>
               \A k \in Keys : drained.row[k] # 0 => buffer[k] # 0
        /\ pc[p] = "publish" => Sealed \in files /\ \A f \in segments : f.at < drained.at
        /\ pc[p] = "reconcile" =>
               \A k \in Keys : drained.row[k] # 0 => Resolve(segments)[k] = drained.row[k]

AckInv == Numbered /\ OnDisk /\ Visibly /\ HidesNothing

----------------------------------------------------------------------------

(* The versions a row, the buffer and the segments hold are numbers, and   *)
(* a batch carries keys.                                                   *)
LEMMA Versioned ==
    ASSUME Inv
    PROVE  /\ \A k \in Keys : /\ buffer[k] \in Nat /\ drained.row[k] \in Nat
                              /\ Resolve(files)[k] \in Nat
           /\ \A f \in log : f.at \in Nat /\ \A k \in Keys : f.row[k] \in Nat
           /\ \A b \in 1 .. Len(batches) : batches[b] \subseteq Keys
           /\ Len(batches) \in Nat
<1> USE DEF Inv
<1>1. \A k \in Keys : buffer[k] \in Nat /\ drained.row[k] \in Nat
  BY DEF Typed, Row
<1>2. \A k \in Keys : Resolve(files)[k] \in Nat
  BY FilesRow DEF Row
<1>3. \A f \in log : f.at \in Nat /\ f.row \in Row
  BY DEF Typed
<1>4. batches \in Seq(SUBSET Keys)
  BY DEF Typed
<1>5. (\A b \in 1 .. Len(batches) : batches[b] \subseteq Keys) /\ Len(batches) \in Nat
  BY <1>4
<1> QED
  BY <1>1, <1>2, <1>3, <1>5 DEF Row

(* A store with a log only is never opened without one.                    *)
LEMMA AlwaysLogged ==
    ASSUME WalOnly, Typed
    PROVE  mode = "wal" /\ (\A f \in log : LogOrdered => f.at <= sequence)
BY DEF WalOnly, Typed, LogOrdered

(* Acknowledging one more batch leaves a newest one.                       *)
LEMMA NewestAcked ==
    ASSUME NEW some, some \subseteq Nat, NEW one \in Nat,
           \A S \in SUBSET some : S # {} => \E m \in S : \A s \in S : s <= m
    PROVE  \A S \in SUBSET (some \cup {one}) : S # {} => \E m \in S : \A s \in S : s <= m
<1> SUFFICES ASSUME NEW S \in SUBSET (some \cup {one}), S # {}
             PROVE  \E m \in S : \A s \in S : s <= m
  OBVIOUS
<1> DEFINE rest == S \ {one}
<1>1. CASE rest = {}
  BY <1>1
<1>2. CASE rest # {}
  <2>1. PICK m \in rest : \A s \in rest : s <= m
    BY <1>2
  <2>2. CASE one \in S /\ one > m
    BY <2>1, <2>2
  <2>3. CASE one \notin S \/ one <= m
    BY <2>1, <2>3
  <2> QED
    BY <2>1, <2>2, <2>3
<1> QED
  BY <1>1, <1>2

(* An empty store has promised nothing.                                    *)
LEMMA AckInit == Init => AckInv
<1> SUFFICES ASSUME Init PROVE AckInv
  OBVIOUS
<1> USE DEF Init
<1>1. Len(batches) = 0
  OBVIOUS
<1>2. Numbered
  BY <1>1 DEF Numbered, Procs
<1>3. OnDisk /\ Visibly
  BY <1>1 DEF OnDisk, Visibly
<1>4. HidesNothing
  BY DEF HidesNothing
<1> QED
  BY <1>2, <1>3, <1>4 DEF AckInv

----------------------------------------------------------------------------
(* What seals, reclaims and restarts leave in the store.                   *)

(* A segment that is written shows what it drained and leaves the rest     *)
(* as it was (Segment::write).                                             *)
LEMMA WriteShows ==
    ASSUME Inv, NEW t \in Procs, WriteSegment(t), NEW k \in Keys
    PROVE  /\ drained.row[k] # 0 => Resolve(files')[k] = drained.row[k] /\ buffer[k] # 0
           /\ drained.row[k] = 0 => Resolve(files')[k] = Resolve(files)[k]
<1> USE DEF Inv
<1>1. pc[t] = "write" /\ files' = files \cup {Sealed}
  BY DEF WriteSegment, At
<1>2. /\ Sealed.at = drained.at /\ Sealed.row = drained.row /\ drained.at \in Nat
      /\ \A f \in files : f.at \in Nat /\ f.at < drained.at
      /\ drained.row[k] # 0 => buffer[k] # 0
  BY <1>1 DEF Sealed, Typed, WriteIsNewest
<1> DEFINE new == Sealed
<1> HIDE DEF new
<1>3. /\ new.row[k] # 0 => Resolve(files \cup {new})[k] = new.row[k]
      /\ new.row[k] = 0 => Resolve(files \cup {new})[k] = Resolve(files)[k]
  BY <1>2, ResolveMore DEF new
<1> QED
  BY <1>1, <1>2, <1>3 DEF new

(* A segment that is published is the last of the list (publish_segment).  *)
LEMMA PublishShows ==
    ASSUME Inv, PublishIsLast, NEW t \in Procs, Publish(t), NEW k \in Keys
    PROVE  /\ drained.row[k] # 0 => Resolve(segments')[k] = drained.row[k] /\ buffer[k] # 0
           /\ drained.row[k] = 0 => Resolve(segments')[k] = Resolve(segments)[k]
<1> USE DEF Inv
<1>1. pc[t] = "publish" /\ segments' = segments \cup {Sealed}
  BY DEF Publish, At
<1>2. /\ Sealed.at = drained.at /\ Sealed.row = drained.row /\ drained.at \in Nat
      /\ \A f \in segments : f.at \in Nat /\ f.at < drained.at
      /\ drained.row[k] # 0 => buffer[k] # 0
  BY <1>1 DEF Sealed, Typed, PublishIsLast
<1> DEFINE new == Sealed
<1> HIDE DEF new
<1>3. /\ new.row[k] # 0 => Resolve(segments \cup {new})[k] = new.row[k]
      /\ new.row[k] = 0 => Resolve(segments \cup {new})[k] = Resolve(segments)[k]
  BY <1>2, ResolveMore DEF new
<1> QED
  BY <1>1, <1>2, <1>3 DEF new

(* What a seal takes out of the buffer its segment shows                   *)
(* (Store::reconcile_after_publish).                                       *)
LEMMA ReconcileShows ==
    ASSUME Inv, PublishIsLast, NEW t \in Procs, Reconcile(t),
           NEW b, NEW k \in Keys, Shown(files, b, k), Shown(segments, b, k)
    PROVE  Shown(files, b, k)' /\ Shown(segments, b, k)'
<1> USE DEF Inv
<1>1. /\ UNCHANGED <<files, segments>> /\ buffer' = Survivors /\ pc[t] = "reconcile"
  BY DEF Reconcile, At, list
<1>2. /\ buffer[k] \in Nat /\ drained.row[k] \in Nat
      /\ buffer'[k] = IF buffer[k] = drained.row[k] THEN 0 ELSE buffer[k]
      /\ drained.row[k] # 0 => /\ Resolve(files)[k] = drained.row[k]
                               /\ Resolve(segments)[k] = drained.row[k]
  BY <1>1, Versioned DEF Survivors, SealIsWritten, PublishIsLast
<1>3. CASE buffer[k] # drained.row[k]
  <2>1. buffer'[k] = buffer[k]
    BY <1>2, <1>3
  <2> QED
    BY <1>1, <2>1 DEF Shown
<1>4. CASE buffer[k] = drained.row[k] /\ drained.row[k] # 0
  <2>1. /\ buffer'[k] = 0
        /\ Resolve(files')[k] = buffer[k] /\ Resolve(segments')[k] = buffer[k]
    BY <1>1, <1>2, <1>4
  <2> QED
    BY <1>1, <1>4, <2>1 DEF Shown
<1>5. CASE buffer[k] = 0 /\ drained.row[k] = 0
  <2>1. buffer'[k] = 0
    BY <1>2, <1>5
  <2> QED
    BY <1>1, <1>5, <2>1 DEF Shown
<1> QED
  BY <1>3, <1>4, <1>5

(* What is left in the buffer is a row (Survivors).                        *)
LEMMA SurvivorsRow ==
    ASSUME Inv
    PROVE  Survivors \in Row
<1>1. \A k \in Keys : Survivors[k] \in Nat
  BY Versioned DEF Survivors
<1> QED
  BY <1>1 DEF Survivors, Row

(* A log that is reset with nothing in the buffer, or rewritten to carry   *)
(* what is, still has what the segments do not show (Wal::reset, rewrite). *)
LEMMA ReclaimCarries ==
    ASSUME Inv, buffer' \in Row, NEW e \in Nat,
           \/ ResetLog /\ buffer' = Empty
           \/ RewriteLog(buffer', e),
           files' = files, NEW b \in Nat, NEW k \in Keys, Shown(files, b, k)'
    PROVE  (Carried(log, b, k)' /\ Carried(Synced, b, k)') \/ InFiles(b, k)'
<1> USE DEF Inv
<1>1. sequence \in Nat /\ Resolve(files)[k] \in Nat /\ buffer'[k] \in Nat
  BY Versioned DEF Typed, Row
<1>2. CASE ResetLog /\ buffer' = Empty
  <2>1. log' = {} /\ buffer'[k] = 0
    BY <1>2 DEF ResetLog, Empty
  <2> QED
    BY <1>1, <2>1 DEF Shown, InFiles
<1>3. CASE RewriteLog(buffer', e)
  <2> DEFINE new == [at |-> sequence + 1, epoch |-> epoch', row |-> buffer']
  <2>1. /\ log' = {new} /\ syncedTo' = sequence + 1
        /\ new.at = sequence + 1 /\ new.row = buffer'
    BY <1>3 DEF RewriteLog
  <2> HIDE DEF new
  <2>2. Synced' = log'
    BY <1>1, <2>1 DEF Synced
  <2>3. CASE buffer'[k] # 0
    BY <1>1, <2>1, <2>2, <2>3 DEF Shown, Carried
  <2>4. CASE buffer'[k] = 0
    BY <1>1, <2>1, <2>4 DEF Shown, InFiles
  <2> QED
    BY <2>3, <2>4
<1> QED
  BY <1>2, <1>3

(* A restart shows what the log carries and what the segments show: frames *)
(* it discards are in the segments, and frames it replays hide nothing     *)
(* newer (Store::open).                                                    *)
LEMMA OpenShows ==
    ASSUME Inv, Inv', NEW m \in Modes, m # "buffered", Open(m),
           NEW b \in Nat, b # 0, NEW k \in Keys, Carried(log, b, k) \/ InFiles(b, k)
    PROVE  Shown(files, b, k)' /\ Shown(segments, b, k)'
<1> DEFINE unfolded == {f \in log : After(StampOf(f), manifests[current])}
<1>1. /\ log' = log /\ files' = files /\ segments' = files /\ mode' = m
      /\ buffer' = Resolve(unfolded)
  BY DEF Open, Replay
<1>2. HasLatest(unfolded) /\ unfolded \subseteq log
  BY LatestOfFewer DEF Inv, LogOrdered
<1> HIDE DEF unfolded
<1>3. /\ Resolve(files)[k] \in Nat /\ \A f \in log : f.row[k] \in Nat
      /\ buffer'[k] \in Nat
  <2>1. Resolve(files)[k] \in Nat /\ \A f \in log : f.row[k] \in Nat
    BY Versioned
  <2>2. buffer'[k] \in Nat
    BY DEF Inv, Typed, Row
  <2> QED
    BY <2>1, <2>2
<1>4. CASE Carried(log, b, k)
  <2>1. PICK f \in log : f.row[k] >= b
    BY <1>4 DEF Carried
  <2>2. /\ buffer'[k] # 0 => f.row[k] <= buffer'[k]
        /\ buffer'[k] = 0 => f.row[k] <= Resolve(files)[k]
    BY <1>1 DEF Inv, Backed
  <2> QED
    BY <1>1, <1>3, <2>1, <2>2 DEF Shown
<1>5. CASE InFiles(b, k)
  <2>1. \/ buffer'[k] = 0
        \/ \E f \in log : f.row[k] # 0 /\ buffer'[k] = f.row[k]
    BY <1>1, <1>2, ResolveHolds
  <2> QED
    BY <1>1, <1>3, <1>5, <2>1 DEF Shown, InFiles
<1> QED
  BY <1>4, <1>5

(* A segment is published last, and what it holds stays in the buffer      *)
(* until it shows (Store::seal_with_permit, publish_segment).              *)
LEMMA LastStep ==
    ASSUME Inv, PublishIsLast, [Next]_vars
    PROVE  PublishIsLast'
<1> USE DEF Inv
<1>1. Maintainer \in Procs /\ Ingesters \subseteq Procs /\ "idle" \in PC
  BY DEF Procs, PC
<1>2. ASSUME UNCHANGED <<files, segments>>, \A k \in Keys : buffer[k] # 0 => buffer'[k] # 0,
             \A p \in Procs : pc'[p] \in {"publish", "reconcile"} =>
                 pc'[p] = pc[p] /\ drained' = drained
      PROVE  PublishIsLast'
  BY <1>2 DEF PublishIsLast, Sealed
<1>3. ASSUME NEW p \in Procs, NEW where \in PC \ {"publish", "reconcile"}, Goto(p, where),
             UNCHANGED <<files, segments, buffer>>, drained' = drained \/ pc[p] \in Working
      PROVE  PublishIsLast'
  <2>1. pc'[p] = where /\ \A q \in Procs : q # p => pc'[q] = pc[q]
    BY <1>3, GotoIs
  <2>2. ASSUME NEW q \in Procs, pc'[q] \in {"publish", "reconcile"}
        PROVE  pc'[q] = pc[q] /\ drained' = drained
    <3>1. q # p /\ pc'[q] = pc[q] /\ pc[q] \in Working
      BY <1>3, <2>1, <2>2 DEF Working
    <3> QED
      BY <1>3, <3>1, Alone
  <2> QED
    BY <1>2, <1>3, <2>2
<1>4. ASSUME NEW p \in Procs, pc[p] \in Working, NEW where \in PC, Goto(p, where)
      PROVE  pc'[p] = where /\ \A q \in Procs : pc'[q] \in {"publish", "reconcile"} => q = p
  BY <1>4, OthersRest DEF Flying
<1>5. CASE UNCHANGED vars \/ Sync
  <2>1. UNCHANGED <<files, segments, buffer, pc, drained>>
    BY <1>5 DEF vars, Sync, disk, logFile, memory, list, stamps, thread, sealing, history
  <2> QED
    BY <1>2, <2>1
<1>6. ASSUME NEW t \in Ingesters, NEW ks \in (SUBSET Keys) \ {{}}, Admit(t, ks)
      PROVE  PublishIsLast'
  <2>1. PICK b \in Nat : b = Len(batches) + 1
    BY DEF Typed
  <2> DEFINE row == [k \in Keys |-> IF k \in ks THEN b ELSE 0]
  <2>2. /\ UNCHANGED <<files, segments, drained>> /\ buffer' = Over(buffer, row)
        /\ Goto(t, "permit") \/ Goto(t, "commit")
    BY <1>6, <2>1 DEF Admit, list, sealing
  <2>3. \A k \in Keys : buffer[k] # 0 => buffer'[k] # 0
    BY <2>2 DEF Over
  <2>4. \A p \in Procs : pc'[p] \in {"publish", "reconcile"} => pc'[p] = pc[p]
    BY <1>1, <2>2 DEF Typed, Goto
  <2> HIDE DEF row
  <2> QED
    BY <1>2, <2>2, <2>3, <2>4
<1>7. ASSUME NEW t \in Procs, CommitAck(t) \/ CommitSeal(t) \/ CommitFails(t)
                              \/ TakePermit(t) \/ SkipSeal(t)
      PROVE  PublishIsLast'
  <2>1. /\ UNCHANGED <<files, segments, buffer, drained>>
        /\ Goto(t, "idle") \/ Goto(t, "permit") \/ Goto(t, "drain")
    BY <1>7 DEF CommitAck, CommitSeal, CommitFails, TakePermit, SkipSeal, Acknowledge,
       disk, logFile, memory, list, stamps, sealing, history
  <2> QED
    BY <1>3, <2>1 DEF PC
<1>8. CASE AgeSeal \/ BeginCheckpoint
  <2>1. UNCHANGED <<files, segments, buffer, drained>> /\ Goto(Maintainer, "permit")
    BY <1>8 DEF AgeSeal, BeginCheckpoint, disk, logFile, memory, list, sealing
  <2> QED
    BY <1>1, <1>3, <2>1 DEF PC
<1>9. ASSUME NEW t \in Procs, DrainNothing(t) \/ SealFails(t) \/ Drain(t)
      PROVE  PublishIsLast'
  <2>1. /\ UNCHANGED <<files, segments, buffer>> /\ pc[t] \in Working
        /\ Goto(t, "idle") \/ Goto(t, "position") \/ Goto(t, "write")
    BY <1>9 DEF DrainNothing, SealFails, Drain, Fail, Acknowledge, At, Working, disk, logFile,
       memory, list
  <2> QED
    BY <1>3, <2>1 DEF PC
<1>10. CASE CheckpointStep \/ CurrentUnsynced
  <2>1. /\ UNCHANGED <<files, segments, buffer>> /\ pc[Maintainer] \in Working
        /\ \E where \in PC \ {"publish", "reconcile"} : Goto(Maintainer, where)
    BY <1>10 DEF CheckpointStep, FoldPosition, WriteManifest, PublishCurrent, AdvanceEpoch,
       ReclaimFolded, SweepGenerations, CurrentUnsynced, Fail, At, Working, PC, disk, logFile,
       memory, list
  <2> QED
    BY <1>1, <1>3, <2>1
<1>11. ASSUME NEW t \in Procs, WriteSegment(t) PROVE PublishIsLast'
  <2>1. /\ UNCHANGED <<segments, buffer, drained>> /\ files' = files \cup {Sealed}
        /\ pc[t] = "write" /\ Goto(t, "publish")
    BY <1>11 DEF WriteSegment, At, memory, list, sealing
  <2>2. pc'[t] = "publish" /\ \A q \in Procs : pc'[q] \in {"publish", "reconcile"} => q = t
    BY <1>4, <2>1 DEF Working, PC
  <2>3. /\ \A f \in files : f.at < drained.at
        /\ \A k \in Keys : drained.row[k] # 0 => buffer[k] # 0
    BY <2>1 DEF WriteIsNewest
  <2> QED
    BY <2>1, <2>2, <2>3 DEF PublishIsLast, Sealed
<1>12. ASSUME NEW t \in Procs, Publish(t) PROVE PublishIsLast'
  <2>1. /\ UNCHANGED <<files, buffer, drained>> /\ segments' = segments \cup {Sealed}
        /\ pc[t] = "publish" /\ Goto(t, "reconcile")
    BY <1>12 DEF Publish, At, disk, sealing
  <2>2. pc'[t] = "reconcile" /\ \A q \in Procs : pc'[q] \in {"publish", "reconcile"} => q = t
    BY <1>4, <2>1 DEF Working, PC
  <2>3. \A k \in Keys : drained.row[k] # 0 => Resolve(segments')[k] = drained.row[k]
    BY <1>12, PublishShows
  <2> QED
    BY <2>1, <2>2, <2>3 DEF PublishIsLast
<1>13. ASSUME NEW t \in Procs, Reconcile(t) PROVE PublishIsLast'
  <2>1. /\ UNCHANGED <<files, segments>> /\ pc[t] \in Working
        /\ Goto(t, "idle") \/ Goto(t, "manifest")
    BY <1>13 DEF Reconcile, Acknowledge, At, Working, list
  <2>2. \A q \in Procs : pc'[q] \notin {"publish", "reconcile"}
    BY <1>4, <2>1 DEF PC
  <2> QED
    BY <2>1, <2>2 DEF PublishIsLast
<1>14. CASE Kill \/ Power \/ \E m \in Modes : Open(m)
  <2>1. /\ files' = files /\ segments' \subseteq files
        /\ \A q \in Procs : pc'[q] = "idle"
    BY <1>14 DEF Kill, Power, Die, Open, thread, memory, list, OnePermit, PublishIsLast
  <2> QED
    BY <2>1 DEF PublishIsLast
<1> QED
  BY <1>1, <1>5, <1>6, <1>7, <1>8, <1>9, <1>10, <1>11, <1>12, <1>13, <1>14
     DEF Next, IngestStep, SealStep
----------------------------------------------------------------------------
(* Steps that move threads.                                                *)

\* A thread moves on with what it is admitting, or returns: with Ok, which
\* acknowledges a batch that a sync has covered, or with an error.
Moves(p, where) ==
    /\ Goto(p, where)
    /\ \/ /\ batch' = batch /\ acked' = acked
          /\ p \in Ingesters => /\ pc[p] # "idle" /\ where # "idle"
                                /\ where = "commit" \/ batch[p] <= durable
       \/ /\ where = "idle" /\ batch' = [batch EXCEPT ![p] = 0]
          /\ \/ acked' = acked
             \/ /\ p \in Ingesters /\ pc[p] # "idle" /\ batch[p] <= durable
                /\ acked' = acked \cup {batch[p]}

\* Nobody comes to rely on anything new.
ReliesOnNoMore ==
    \A b : /\ Pending(b)' => Pending(b)
           /\ Promised(b)' => Promised(b) \/ (Pending(b) /\ durable # durable')

(* A thread that moves relies on nothing new (Store::admit).               *)
LEMMA MovesRely ==
    ASSUME Typed, Numbered, NEW p \in Procs, NEW where \in PC, Moves(p, where)
    PROVE  ReliesOnNoMore
<1>1. \A t \in Ingesters : batch'[t] = batch[t] \/ batch'[t] = 0
  BY DEF Moves, Typed, Procs
<1>2. \A b : Pending(b)' => Pending(b)
  BY <1>1 DEF Pending
<1>3. ASSUME p \in Ingesters, pc[p] # "idle", batch[p] <= durable
      PROVE  Promised(batch[p])
  BY <1>3 DEF Promised, Pending, Numbered
<1>4. \A b \in acked' : Promised(b)
  BY <1>3 DEF Moves, Promised
<1>5. \A b : Promised(b)' => Promised(b) \/ (Pending(b) /\ durable # durable')
  BY <1>2, <1>4 DEF Promised
<1> QED
  BY <1>2, <1>5 DEF ReliesOnNoMore

(* The counters stay in order when a thread moves (Store::admit).          *)
LEMMA MovesNumber ==
    ASSUME Typed, Numbered, NEW p \in Procs, NEW where \in PC, Moves(p, where),
           batches' = batches, syncedTo' \in Nat,
           durable' = durable \/ durable' = Len(batches)
    PROVE  Numbered'
<1>1. /\ Len(batches) \in Nat /\ durable \in Nat /\ durable <= Len(batches)
      /\ pc \in [Procs -> PC] /\ batch \in [Procs -> Nat]
      /\ Ingesters \subseteq Procs
  BY DEF Typed, Numbered, Procs
<1>2. durable' \in Nat /\ durable <= durable' /\ durable' <= Len(batches')
  BY <1>1
<1>3. \/ acked' = acked
      \/ /\ p \in Ingesters /\ batch[p] \in 1 .. Len(batches)
         /\ acked' = acked \cup {batch[p]}
  <2>1. p \in Ingesters /\ pc[p] # "idle" => batch[p] \in 1 .. Len(batches)
    BY <1>1 DEF Numbered
  <2> QED
    BY <2>1 DEF Moves
<1>4. /\ acked' \subseteq 1 .. Len(batches')
      /\ \A S \in SUBSET acked' : S # {} => \E m \in S : \A s \in S : s <= m
  <2>1. acked \subseteq Nat /\ acked \subseteq 1 .. Len(batches)
    BY <1>1 DEF Numbered
  <2>2. CASE acked' = acked
    BY <2>1, <2>2 DEF Numbered
  <2>3. CASE p \in Ingesters /\ batch[p] \in 1 .. Len(batches) /\ acked' = acked \cup {batch[p]}
    <3> DEFINE one == batch[p]
    <3>1. one \in Nat /\ one \in 1 .. Len(batches) /\ acked' = acked \cup {one}
      BY <1>1, <2>3
    <3> HIDE DEF one
    <3>2. \A S \in SUBSET (acked \cup {one}) : S # {} => \E m \in S : \A s \in S : s <= m
      BY <2>1, <3>1, NewestAcked DEF Numbered
    <3> QED
      BY <2>1, <3>1, <3>2
  <2> QED
    BY <1>3, <2>2, <2>3
<1>5. ASSUME NEW t \in Ingesters
      PROVE  /\ batch'[t] <= Len(batches')
             /\ pc'[t] = "idle" <=> batch'[t] = 0
             /\ pc'[t] \notin {"idle", "commit"} => batch'[t] <= durable'
  <2>1. CASE t # p
    <3>1. pc'[t] = pc[t] /\ batch'[t] = batch[t]
      BY <1>1, <2>1 DEF Moves, Goto
    <3> QED
      BY <1>1, <1>2, <3>1 DEF Numbered
  <2>2. CASE t = p
    <3>1. pc'[t] = where
      BY <1>1, <2>2 DEF Moves, Goto
    <3>2. \/ batch'[t] = batch[t] /\ pc[t] # "idle" /\ where # "idle"
             /\ (where = "commit" \/ batch[t] <= durable)
          \/ batch'[t] = 0 /\ where = "idle"
      BY <1>1, <2>2 DEF Moves
    <3> QED
      BY <1>1, <1>2, <3>1, <3>2 DEF Numbered
  <2> QED
    BY <2>1, <2>2
<1> QED
  BY <1>2, <1>4, <1>5 DEF Numbered

\* What the acknowledgements are about.
kept == <<log, syncedTo, files, segments, buffer, durable, batches>>

(* A step that leaves the store alone, and moves threads among the places  *)
(* where they rely on nothing, keeps what is promised.                     *)
LEMMA StillAcked ==
    ASSUME AckInv, Numbered', ReliesOnNoMore, UNCHANGED kept,
           \A p \in Procs : pc'[p] \in {"write", "publish", "reconcile"} =>
               pc'[p] = pc[p] /\ drained' = drained
    PROVE  AckInv'
<1> USE DEF AckInv, kept
<1>1. \A b : (Promised(b)' => Promised(b)) /\ (Pending(b)' => Pending(b))
  BY DEF ReliesOnNoMore
<1>2. OnDisk'
  BY <1>1 DEF OnDisk, Carried, Synced, InFiles
<1>3. Visibly'
  BY <1>1 DEF Visibly, Shown
<1>4. HidesNothing'
  BY <1>1 DEF HidesNothing, Carried, Synced
<1> QED
  BY <1>2, <1>3, <1>4

(* So does one thread's move that gives up or keeps what it had drained.   *)
LEMMA QuietAcked ==
    ASSUME Inv, AckInv, NEW p \in Procs, NEW where \in PC \ {"write", "publish", "reconcile"},
           Moves(p, where), UNCHANGED kept, drained' = drained \/ pc[p] \in Working
    PROVE  AckInv'
<1> USE DEF Inv
<1>1. ReliesOnNoMore /\ Numbered'
  BY MovesRely, MovesNumber DEF AckInv, Numbered, kept
<1>2. Goto(p, where)
  BY DEF Moves
<1>3. pc'[p] = where /\ \A q \in Procs : q # p => pc'[q] = pc[q]
  BY <1>2, GotoIs
<1>4. ASSUME NEW q \in Procs, pc'[q] \in {"write", "publish", "reconcile"}
      PROVE  pc'[q] = pc[q] /\ drained' = drained
  <2>1. q # p /\ pc'[q] = pc[q]
    BY <1>3, <1>4
  <2>2. pc[q] \in Working
    BY <1>4, <2>1 DEF Working
  <2> QED
    BY <2>1, <2>2, Alone
<1> QED
  BY <1>1, <1>4, StillAcked

(* Ingest calls that return or go on to seal, and threads on their way     *)
(* through a checkpoint, keep what is promised (Store::admit, checkpoint). *)
LEMMA CallsKeepAcked ==
    ASSUME Inv, AckInv, mode = "wal", NEW t \in Ingesters,
           CommitAck(t) \/ CommitSeal(t) \/ CommitFails(t)
    PROVE  AckInv'
<1>1. /\ t \in Procs /\ durable \in Nat /\ batch[t] \in Nat
      /\ {"idle", "permit"} \subseteq PC \ {"write", "publish", "reconcile"}
  BY DEF Inv, Typed, AckInv, Numbered, Procs, PC
<1>2. pc[t] = "commit" /\ UNCHANGED kept /\ drained' = drained
  BY DEF CommitAck, CommitSeal, CommitFails, Committed, Waiting, At, kept, disk, logFile,
         memory, list, stamps, sealing, history
<1>3. CASE CommitAck(t)
  <2>1. Moves(t, "idle")
    BY <1>1, <1>2, <1>3 DEF CommitAck, Committed, Waiting, Acknowledge, Moves
  <2> QED
    BY <1>1, <1>2, <2>1, QuietAcked
<1>4. CASE CommitSeal(t)
  <2>1. Moves(t, "permit")
    BY <1>1, <1>2, <1>4 DEF CommitSeal, Committed, Waiting, Moves, history
  <2> QED
    BY <1>1, <1>2, <2>1, QuietAcked
<1>5. CASE CommitFails(t)
  <2>1. Moves(t, "idle")
    BY <1>1, <1>2, <1>5 DEF CommitFails, Moves, history
  <2> QED
    BY <1>1, <1>2, <2>1, QuietAcked
<1> QED
  BY <1>3, <1>4, <1>5

(* Taking the permit, or leaving the seal to the thread that has it, and   *)
(* finding nothing to seal (Store::seal).                                  *)
LEMMA SealsKeepAcked ==
    ASSUME Inv, AckInv, NEW p \in Procs,
           TakePermit(p) \/ SkipSeal(p) \/ DrainNothing(p) \/ SealFails(p)
    PROVE  AckInv'
<1>1. {"idle", "drain", "position"} \subseteq PC \ {"write", "publish", "reconcile"}
  BY DEF PC
<1>2. p \in Ingesters /\ pc[p] \notin {"idle", "commit"} => batch[p] <= durable
  BY DEF AckInv, Numbered
<1>3. CASE TakePermit(p)
  <2>1. pc[p] = "permit" /\ UNCHANGED kept /\ drained' = drained
    BY <1>3 DEF TakePermit, At, kept, disk, logFile, memory, list, stamps, history
  <2>2. Moves(p, "drain")
    BY <1>2, <1>3, <2>1 DEF TakePermit, Moves, history
  <2> QED
    BY <1>1, <2>1, <2>2, QuietAcked
<1>4. CASE SkipSeal(p)
  <2>1. pc[p] = "permit" /\ UNCHANGED kept /\ drained' = drained
    BY <1>4 DEF SkipSeal, At, kept, disk, logFile, memory, list, stamps, sealing
  <2>2. Moves(p, "idle")
    BY <1>2, <1>4, <2>1 DEF SkipSeal, Moves, Acknowledge
  <2> QED
    BY <1>1, <2>1, <2>2, QuietAcked
<1>5. CASE DrainNothing(p)
  <2>1. pc[p] = "drain" /\ pc[p] \in Working /\ UNCHANGED kept
    BY <1>5 DEF DrainNothing, At, Working, kept, disk, logFile, memory, list, stamps
  <2>2. Moves(p, "position") \/ Moves(p, "idle")
    BY <1>2, <1>5, <2>1 DEF DrainNothing, Moves, Acknowledge
  <2> QED
    BY <1>1, <2>1, <2>2, QuietAcked
<1>6. CASE SealFails(p)
  <2>1. pc[p] \in Working /\ UNCHANGED kept
    BY <1>6 DEF SealFails, Working, kept, disk, logFile, memory, list, stamps, history
  <2>2. Moves(p, "idle")
    BY <1>6 DEF SealFails, Fail, Moves, history
  <2> QED
    BY <1>1, <2>1, <2>2, QuietAcked
<1> QED
  BY <1>3, <1>4, <1>5, <1>6

(* What a checkpoint does up to the reclaim of the log, and its sweep      *)
(* (Store::checkpoint_locked).                                             *)
LEMMA CheckpointsKeepAcked ==
    ASSUME Inv, AckInv,
           \/ AgeSeal \/ BeginCheckpoint \/ FoldPosition \/ WriteManifest \/ PublishCurrent
           \/ AdvanceEpoch \/ SweepGenerations \/ CurrentUnsynced
    PROVE  AckInv'
<1>1. /\ Maintainer \in Procs /\ Maintainer \notin Ingesters
      /\ {"idle", "permit", "drain", "manifest", "current", "epoch", "reclaim", "sweep"}
            \subseteq PC \ {"write", "publish", "reconcile"}
  BY ProcessAssumption DEF PC, Procs
<1>2. UNCHANGED kept
  BY DEF AgeSeal, BeginCheckpoint, FoldPosition, WriteManifest, PublishCurrent, AdvanceEpoch,
         SweepGenerations, CurrentUnsynced, kept, disk, logFile, memory, list, stamps, history
<1>3. CASE AgeSeal \/ BeginCheckpoint
  <2>1. drained' = drained /\ Moves(Maintainer, "permit")
    BY <1>1, <1>3 DEF AgeSeal, BeginCheckpoint, Moves, sealing, history
  <2> QED
    BY <1>1, <1>2, <2>1, QuietAcked
<1>4. CASE FoldPosition
  <2>1. drained' = drained /\ (Moves(Maintainer, "manifest") \/ Moves(Maintainer, "drain"))
    BY <1>1, <1>4 DEF FoldPosition, Moves, history
  <2> QED
    BY <1>1, <1>2, <2>1, QuietAcked
<1>5. CASE WriteManifest
  <2>1. drained' = drained /\ Moves(Maintainer, "current")
    BY <1>1, <1>5 DEF WriteManifest, Moves, sealing, history
  <2> QED
    BY <1>1, <1>2, <2>1, QuietAcked
<1>6. CASE PublishCurrent
  <2>1. drained' = drained /\ (Moves(Maintainer, "sweep") \/ Moves(Maintainer, "epoch"))
    BY <1>1, <1>6 DEF PublishCurrent, Moves, sealing, history
  <2> QED
    BY <1>1, <1>2, <2>1, QuietAcked
<1>7. CASE AdvanceEpoch
  <2>1. drained' = drained /\ Moves(Maintainer, "reclaim")
    BY <1>1, <1>7 DEF AdvanceEpoch, Moves, sealing, history
  <2> QED
    BY <1>1, <1>2, <2>1, QuietAcked
<1>8. CASE SweepGenerations
  <2>1. pc[Maintainer] \in Working
    BY <1>8 DEF SweepGenerations, At, Working
  <2>2. Moves(Maintainer, "idle")
    BY <1>1, <1>8 DEF SweepGenerations, Moves, history
  <2> QED
    BY <1>1, <1>2, <2>1, <2>2, QuietAcked
<1>9. CASE CurrentUnsynced
  <2>1. pc[Maintainer] \in Working
    BY <1>9 DEF CurrentUnsynced, At, Working
  <2>2. Moves(Maintainer, "idle")
    BY <1>1, <1>9 DEF CurrentUnsynced, Fail, Moves, history
  <2> QED
    BY <1>1, <1>2, <2>1, <2>2, QuietAcked
<1> QED
  BY <1>3, <1>4, <1>5, <1>6, <1>7, <1>8, <1>9

----------------------------------------------------------------------------
(* Ingest.                                                                 *)

(* A batch that is admitted is in the log and in the buffer, over what was *)
(* there; nothing is promised of it yet (Store::admit).                    *)
LEMMA AdmitKeepsAcked ==
    ASSUME Inv, AckInv, mode = "wal",
           NEW t \in Ingesters, NEW ks \in (SUBSET Keys) \ {{}}, Admit(t, ks)
    PROVE  AckInv'
<1> USE DEF Inv, AckInv
<1>0. PICK new \in Nat : new = Len(batches) + 1
  BY DEF Typed
<1> DEFINE row == [k \in Keys |-> IF k \in ks THEN new ELSE 0]
           frame == Frame(row)
<1>1. /\ batches' = Append(batches, ks) /\ batch' = [batch EXCEPT ![t] = new]
      /\ buffer' = Over(buffer, row) /\ Goto(t, "commit")
      /\ log' = log \cup {frame}
      /\ UNCHANGED <<syncedTo, files, segments, durable, acked, drained>>
      /\ pc[t] = "idle"
  BY <1>0 DEF Admit, At, list, sealing
<1>2. /\ batches \in Seq(SUBSET Keys) /\ Len(batches) \in Nat
      /\ buffer \in Row /\ sequence \in Nat /\ syncedTo \in Nat /\ durable \in Nat
      /\ pc \in [Procs -> PC] /\ batch \in [Procs -> Nat] /\ Ingesters \subseteq Procs
      /\ \A f \in log : f.at \in Nat /\ f.row \in Row
  BY DEF Typed, Numbered, Procs
<1>3. /\ Len(batches') = new /\ new \in Nat /\ new > Len(batches)
      /\ \A b \in 1 .. Len(batches) : batches'[b] = batches[b] /\ batches[b] \subseteq Keys
      /\ batches'[new] = ks
  BY <1>0, <1>1, <1>2
<1>4. /\ frame.row = row /\ frame.at \in Nat
      /\ \A k \in Keys : /\ row[k] = IF k \in ks THEN new ELSE 0
                         /\ buffer'[k] = IF k \in ks THEN new ELSE buffer[k]
  BY <1>1, <1>2, <1>3 DEF Frame, Over
<1>5. batch'[t] = new /\ \A s \in Ingesters : s # t => batch'[s] = batch[s] /\ pc'[s] = pc[s]
  BY <1>1, <1>2 DEF Goto
<1>6. pc'[t] = "commit" /\ \A p \in Procs : p # t => pc'[p] = pc[p]
  BY <1>1, <1>2 DEF Goto
<1> HIDE DEF frame
<1> HIDE DEF row
<1>7. ASSUME NEW b \in 1 .. Len(batches)
      PROVE  (Pending(b)' => Pending(b)) /\ (Promised(b)' => Promised(b))
  <2>1. b # new
    BY <1>2, <1>3
  <2>2. Pending(b)' => Pending(b)
    BY <1>5, <2>1 DEF Pending
  <2> QED
    BY <1>1, <2>2 DEF Promised
<1>8. ~Promised(new)'
  BY <1>1, <1>2, <1>3 DEF Promised, Numbered
<1>9. Numbered'
  <2>1. \A s \in Ingesters : /\ batch'[s] <= new
                             /\ pc'[s] = "idle" <=> batch'[s] = 0
                             /\ pc'[s] \notin {"idle", "commit"} => batch'[s] <= durable
    BY <1>2, <1>3, <1>5, <1>6 DEF Numbered
  <2> QED
    BY <1>1, <1>2, <1>3, <2>1 DEF Numbered
<1>10. ASSUME NEW b \in 1 .. Len(batches), NEW k \in batches[b]
       PROVE  /\ Carried(Synced, b, k) => Carried(Synced, b, k)'
              /\ Carried(log, b, k) => Carried(log, b, k)'
              /\ InFiles(b, k) => InFiles(b, k)'
  <2>1. frame.row[k] = 0 \/ frame.row[k] >= b
    BY <1>2, <1>3, <1>4
  <2> QED
    BY <1>1, <2>1 DEF Carried, Synced, InFiles
<1>11. \A k \in ks : Carried(log, new, k)'
  BY <1>1, <1>3, <1>4 DEF Carried
<1>12. ASSUME NEW b \in 1 .. new PROVE b = new \/ b \in 1 .. Len(batches)
  BY <1>0, <1>2, <1>12
<1>13. OnDisk'
  <2>1. ASSUME NEW b \in 1 .. Len(batches), NEW k \in batches[b]
        PROVE  /\ Promised(b)' => Carried(Synced, b, k)' \/ InFiles(b, k)'
               /\ Pending(b)' => Carried(log, b, k)' \/ InFiles(b, k)'
    BY <1>7, <1>10 DEF OnDisk
  <2> QED
    BY <1>3, <1>8, <1>11, <1>12, <2>1 DEF OnDisk
<1>14. Visibly'
  <2>1. ASSUME NEW b \in 1 .. Len(batches), NEW k \in batches[b], Promised(b)' \/ Pending(b)'
        PROVE  Shown(files, b, k)' /\ Shown(segments, b, k)'
    <3>1. Shown(files, b, k) /\ Shown(segments, b, k) /\ k \in Keys
      BY <1>3, <1>7, <2>1 DEF Visibly
    <3>2. CASE k \in ks
      <4>1. buffer'[k] = new /\ new # 0 /\ b <= new
        BY <1>2, <1>3, <1>4, <3>1, <3>2
      <4> QED
        BY <4>1 DEF Shown
    <3>3. CASE k \notin ks
      <4>1. buffer'[k] = buffer[k]
        BY <1>4, <3>1, <3>3
      <4> QED
        BY <1>1, <3>1, <4>1 DEF Shown
    <3> QED
      BY <3>2, <3>3
  <2>2. \A k \in ks : Shown(files, new, k)' /\ Shown(segments, new, k)'
    BY <1>2, <1>3, <1>4 DEF Shown
  <2> QED
    BY <1>3, <1>12, <2>1, <2>2 DEF Visibly
<1>15. HidesNothing'
  <2>1. ASSUME NEW p \in Procs, pc'[p] = "write"
        PROVE  pc[p] = "write"
    BY <1>6, <2>1
  <2>2. ASSUME NEW p \in Procs, pc'[p] = "write",
               NEW b \in 1 .. Len(batches), NEW k \in batches[b]
        PROVE  \/ drained.row[k] = 0 \/ drained.row[k] >= b
               \/ /\ Promised(b)' => Carried(Synced, b, k)'
                  /\ Pending(b)' => Carried(log, b, k)'
    BY <1>7, <1>10, <2>1, <2>2 DEF HidesNothing
  <2> QED
    BY <1>1, <1>3, <1>8, <1>11, <1>12, <2>2 DEF HidesNothing
<1> QED
  BY <1>9, <1>13, <1>14, <1>15

(* A sync covers the whole log, so all that is under way may be promised   *)
(* (Wal::commit).                                                          *)
LEMMA SyncKeepsAcked ==
    ASSUME Inv, AckInv, mode = "wal", Sync
    PROVE  AckInv'
<1> USE DEF Inv, AckInv
<1>1. /\ UNCHANGED <<log, files, segments, buffer, pc, batch, drained, batches, acked>>
      /\ syncedTo' = sequence /\ durable' = Len(batches)
  BY DEF Sync, list, thread, sealing, history
<1>2. /\ Len(batches) \in Nat /\ sequence \in Nat /\ durable \in Nat
      /\ batch \in [Procs -> Nat] /\ Ingesters \subseteq Procs
      /\ \A f \in log : f.at <= sequence
  BY DEF Typed, Numbered, LogOrdered, Procs
<1>3. Synced' = log /\ Synced \subseteq log
  BY <1>1, <1>2 DEF Synced
<1>4. \A b : (Pending(b)' <=> Pending(b)) /\ (Promised(b)' => Promised(b) \/ Pending(b))
  BY <1>1 DEF Promised, Pending
<1>5. ASSUME NEW b, NEW k
      PROVE  /\ Carried(Synced, b, k) => Carried(log, b, k)
             /\ Carried(log, b, k) => Carried(log, b, k)' /\ Carried(Synced, b, k)'
             /\ InFiles(b, k) => InFiles(b, k)'
  BY <1>1, <1>3 DEF Carried, InFiles
<1>6. Numbered'
  BY <1>1, <1>2 DEF Numbered
<1>7. OnDisk'
  BY <1>1, <1>4, <1>5 DEF OnDisk
<1>8. Visibly'
  BY <1>1, <1>4 DEF Visibly, Shown
<1>9. HidesNothing'
  BY <1>1, <1>4, <1>5 DEF HidesNothing
<1> QED
  BY <1>6, <1>7, <1>8, <1>9

----------------------------------------------------------------------------
(* Seals.                                                                  *)

(* A drain is the buffer, which hides nothing (Store::seal_with_permit).   *)
LEMMA DrainKeepsAcked ==
    ASSUME Inv, AckInv, NEW t \in Procs, Drain(t)
    PROVE  AckInv'
<1> USE DEF Inv, AckInv
<1>1. /\ UNCHANGED kept /\ UNCHANGED <<batch, acked>> /\ drained'.row = buffer
      /\ pc[t] = "drain" /\ Goto(t, "write")
  BY DEF Drain, At, kept, disk, logFile, stamps, history
<1>2. /\ "write" \in PC /\ pc[t] \in Working
      /\ t \in Ingesters => batch[t] <= durable
  BY <1>1 DEF PC, Working, Numbered
<1>3. Moves(t, "write")
  BY <1>1, <1>2 DEF Moves
<1>4. ReliesOnNoMore /\ Numbered'
  BY <1>1, <1>2, <1>3, MovesRely, MovesNumber DEF Numbered, kept
<1>5. \A b : (Pending(b)' => Pending(b)) /\ (Promised(b)' => Promised(b))
  BY <1>1, <1>4 DEF ReliesOnNoMore, kept
<1>6. OnDisk'
  BY <1>1, <1>5 DEF OnDisk, Carried, Synced, InFiles, kept
<1>7. Visibly'
  BY <1>1, <1>5 DEF Visibly, Shown, kept
<1>8. HidesNothing'
  <2>1. ASSUME NEW b \in 1 .. Len(batches), NEW k \in batches[b], Promised(b) \/ Pending(b),
               buffer[k] # 0
        PROVE  b <= buffer[k]
    BY <2>1 DEF Visibly, Shown
  <2>2. ASSUME NEW b \in 1 .. Len(batches), NEW k \in batches[b]
        PROVE  b \in Nat /\ buffer[k] \in Nat
    <3>1. k \in Keys
      BY Versioned
    <3> QED
      BY <3>1, Versioned
  <2>3. ASSUME NEW b \in 1 .. Len(batches), NEW k \in batches[b]
        PROVE  buffer[k] = 0 \/ buffer[k] >= b \/ (~Promised(b)' /\ ~Pending(b)')
    BY <1>5, <2>1, <2>2
  <2> QED
    BY <1>1, <2>3 DEF HidesNothing, kept
<1> QED
  BY <1>4, <1>6, <1>7, <1>8

(* A segment that is written shows what it drained and leaves the rest     *)
(* as it was (Segment::write).                                             *)
LEMMA WriteKeepsAcked ==
    ASSUME Inv, AckInv, NEW t \in Procs, WriteSegment(t)
    PROVE  AckInv'
<1> USE DEF Inv, AckInv
<1>1. /\ UNCHANGED <<log, syncedTo, segments, buffer, durable, batches, batch, acked, drained>>
      /\ files' = files \cup {Sealed}
      /\ pc[t] = "write" /\ Goto(t, "publish")
  BY DEF WriteSegment, At, logFile, memory, list, stamps, sealing, history
<1>2. /\ "publish" \in PC /\ pc[t] \in Working
      /\ t \in Ingesters => batch[t] <= durable
  BY <1>1 DEF PC, Working, Numbered
<1>3. Moves(t, "publish")
  BY <1>1, <1>2 DEF Moves
<1>4. ReliesOnNoMore /\ Numbered'
  BY <1>1, <1>2, <1>3, MovesRely, MovesNumber DEF Numbered
<1>5. \A b : (Pending(b)' => Pending(b)) /\ (Promised(b)' => Promised(b))
  BY <1>1, <1>4 DEF ReliesOnNoMore
<1>6. \A p \in Procs : pc'[p] \in Flying => pc'[p] = "publish"
  BY <1>1, <1>2, OthersRest
<1>7. OnDisk'
  <2>1. ASSUME NEW b \in 1 .. Len(batches), NEW k \in batches[b], InFiles(b, k),
               drained.row[k] = 0 \/ drained.row[k] >= b
        PROVE  InFiles(b, k)'
    <3>1. k \in Keys
      BY Versioned
    <3> QED
      BY <1>1, <2>1, <3>1, WriteShows DEF InFiles
  <2>2. ASSUME NEW b \in 1 .. Len(batches), NEW k \in batches[b]
        PROVE  /\ Promised(b) => Carried(Synced, b, k) \/ InFiles(b, k)'
               /\ Pending(b) => Carried(log, b, k) \/ InFiles(b, k)'
    BY <1>1, <2>1, <2>2 DEF OnDisk, HidesNothing
  <2> QED
    BY <1>1, <1>5, <2>2 DEF OnDisk, Carried, Synced
<1>8. Visibly'
  <2>1. ASSUME NEW b \in 1 .. Len(batches), NEW k \in batches[b], Shown(files, b, k)
        PROVE  Shown(files, b, k)'
    <3>1. k \in Keys
      BY Versioned
    <3> QED
      BY <1>1, <2>1, <3>1, WriteShows DEF Shown
  <2> QED
    BY <1>1, <1>5, <2>1 DEF Visibly, Shown
<1>9. HidesNothing'
  BY <1>6 DEF HidesNothing, Flying
<1> QED
  BY <1>4, <1>7, <1>8, <1>9

(* A segment that is published is the last of the list: it shows what it   *)
(* drained, and the buffer still has it (Store::publish_segment).          *)
LEMMA PublishKeepsAcked ==
    ASSUME Inv, PublishIsLast, AckInv, NEW t \in Procs, Publish(t)
    PROVE  AckInv'
<1> USE DEF Inv, AckInv
<1>1. /\ UNCHANGED <<log, syncedTo, files, buffer, durable, batches, batch, acked, drained>>
      /\ segments' = segments \cup {Sealed}
      /\ pc[t] = "publish" /\ Goto(t, "reconcile")
  BY DEF Publish, At, disk, logFile, stamps, sealing, history
<1>2. /\ "reconcile" \in PC /\ pc[t] \in Working
      /\ t \in Ingesters => batch[t] <= durable
  BY <1>1 DEF PC, Working, Numbered
<1>3. Moves(t, "reconcile")
  BY <1>1, <1>2 DEF Moves
<1>4. ReliesOnNoMore /\ Numbered'
  BY <1>1, <1>2, <1>3, MovesRely, MovesNumber DEF Numbered
<1>5. \A b : (Pending(b)' => Pending(b)) /\ (Promised(b)' => Promised(b))
  BY <1>1, <1>4 DEF ReliesOnNoMore
<1>6. \A p \in Procs : pc'[p] \in Flying => pc'[p] = "reconcile"
  BY <1>1, <1>2, OthersRest
<1>7. OnDisk'
  BY <1>1, <1>5 DEF OnDisk, Carried, Synced, InFiles
<1>8. Visibly'
  <2>1. ASSUME NEW b \in 1 .. Len(batches), NEW k \in batches[b], Shown(segments, b, k)
        PROVE  Shown(segments, b, k)'
    <3>1. k \in Keys
      BY Versioned
    <3> QED
      BY <1>1, <2>1, <3>1, PublishShows DEF Shown
  <2> QED
    BY <1>1, <1>5, <2>1 DEF Visibly, Shown
<1>9. HidesNothing'
  BY <1>6 DEF HidesNothing, Flying
<1> QED
  BY <1>4, <1>7, <1>8, <1>9

(* A reclaimed log, or what the segments show, still has what may be       *)
(* relied on (Wal::reset, rewrite).                                        *)
LEMMA ReclaimKeepsAcked ==
    ASSUME Inv, buffer' \in Row, NEW e \in Nat,
           \/ ResetLog /\ buffer' = Empty
           \/ RewriteLog(buffer', e),
           batches' = batches, files' = files,
           \A b \in 1 .. Len(batches) : \A k \in batches[b] :
               Promised(b)' \/ Pending(b)' => Shown(files, b, k)'
    PROVE  OnDisk' /\ syncedTo' \in Nat /\ durable' = Len(batches)
<1>1. ASSUME NEW b \in 1 .. Len(batches), NEW k \in batches[b]
      PROVE  /\ Promised(b)' => Carried(Synced, b, k)' \/ InFiles(b, k)'
             /\ Pending(b)' => Carried(log, b, k)' \/ InFiles(b, k)'
  <2>1. k \in Keys /\ b \in Nat
    BY Versioned
  <2> QED
    BY <2>1, ReclaimCarries
<1>2. OnDisk'
  BY <1>1 DEF OnDisk
<1>3. syncedTo' \in Nat /\ durable' = Len(batches)
  BY DEF ResetLog, RewriteLog, Inv, Typed
<1> QED
  BY <1>2, <1>3

(* What a seal takes out of the buffer its segment shows, and what it      *)
(* leaves there the log still has (Store::reconcile_after_publish).        *)
LEMMA ReconcileKeepsAcked ==
    ASSUME Inv, PublishIsLast, AckInv, mode = "wal", NEW t \in Procs, Reconcile(t)
    PROVE  AckInv'
<1> USE DEF Inv, AckInv
<1>1. /\ UNCHANGED <<files, segments, batches>>
      /\ buffer' = Survivors /\ pc[t] = "reconcile"
      /\ \/ LeaveLog
         \/ ResetLog /\ buffer' = Empty
         \/ RewriteLog(buffer', 0)
  BY DEF Reconcile, ReclaimSealed, NothingLeft, At, list
<1>2. /\ {"manifest", "idle"} \subseteq PC /\ pc[t] \in Working
      /\ t \in Ingesters => batch[t] <= durable
  BY <1>1 DEF PC, Working, Numbered
<1>3. PICK where \in {"manifest", "idle"} : Moves(t, where)
  BY <1>1, <1>2 DEF Reconcile, Moves, Acknowledge
<1>4. ReliesOnNoMore
  BY <1>2, <1>3, MovesRely
<1>5. \A b : (Promised(b)' \/ Pending(b)' => Promised(b) \/ Pending(b))
  BY <1>4 DEF ReliesOnNoMore
<1>6. buffer' \in Row
  BY <1>1, SurvivorsRow
<1>7. ASSUME NEW b \in 1 .. Len(batches), NEW k \in batches[b], Promised(b)' \/ Pending(b)'
      PROVE  Shown(files, b, k)' /\ Shown(segments, b, k)'
  <2>1. k \in Keys
    BY Versioned
  <2>2. Shown(files, b, k) /\ Shown(segments, b, k)
    BY <1>5, <1>7 DEF Visibly
  <2> QED
    BY <2>1, <2>2, ReconcileShows
<1>8. Visibly'
  BY <1>1, <1>7 DEF Visibly
<1>9. OnDisk' /\ syncedTo' \in Nat /\ (durable' = durable \/ durable' = Len(batches))
  <2>1. CASE LeaveLog
    <3>1. UNCHANGED <<log, syncedTo, durable>>
      BY <2>1 DEF LeaveLog, logFile, stamps
    <3>2. \A b : (Pending(b)' => Pending(b)) /\ (Promised(b)' => Promised(b))
      BY <1>4, <3>1 DEF ReliesOnNoMore
    <3>3. OnDisk'
      BY <1>1, <3>1, <3>2 DEF OnDisk, Carried, Synced, InFiles
    <3> QED
      BY <3>1, <3>3 DEF Numbered
  <2>2. CASE (ResetLog /\ buffer' = Empty) \/ RewriteLog(buffer', 0)
    BY <1>1, <1>6, <1>7, <2>2, ReclaimKeepsAcked
  <2> QED
    BY <1>1, <2>1, <2>2
<1>10. Numbered'
  BY <1>1, <1>2, <1>3, <1>9, MovesNumber DEF Numbered
<1>11. \A p \in Procs : pc'[p] \in Flying => pc'[p] \in {"manifest", "idle"}
  BY <1>2, <1>3, OthersRest DEF Moves
<1>12. HidesNothing'
  BY <1>11 DEF HidesNothing, Flying
<1> QED
  BY <1>8, <1>9, <1>10, <1>12

(* A checkpoint's reclaim drops frames that its segments or its rewritten  *)
(* log have (Store::checkpoint_locked).                                    *)
LEMMA ReclaimFoldedKeepsAcked ==
    ASSUME Inv, AckInv, ReclaimFolded
    PROVE  AckInv'
<1> USE DEF Inv, AckInv
<1>0. Maintainer \in Procs /\ Maintainer \notin Ingesters
  BY ProcessAssumption DEF Procs
<1>1. /\ UNCHANGED <<files, segments, buffer, batches, batch, acked>>
      /\ pc[Maintainer] = "reclaim" /\ Goto(Maintainer, "sweep")
      /\ \/ ResetLog /\ buffer' = Empty
         \/ RewriteLog(buffer', liveGeneration)
  BY DEF ReclaimFolded, At, list, sealing, history
<1>2. /\ "sweep" \in PC /\ pc[Maintainer] \in Working /\ liveGeneration \in Nat /\ buffer \in Row
  BY <1>1 DEF PC, Working, Typed
<1>3. Moves(Maintainer, "sweep")
  BY <1>0, <1>1 DEF Moves
<1>4. ReliesOnNoMore
  BY <1>0, <1>2, <1>3, MovesRely
<1>5. ASSUME NEW b \in 1 .. Len(batches), NEW k \in batches[b], Promised(b)' \/ Pending(b)'
      PROVE  Shown(files, b, k)' /\ Shown(segments, b, k)'
  <2>1. Shown(files, b, k) /\ Shown(segments, b, k)
    BY <1>4, <1>5 DEF ReliesOnNoMore, Visibly
  <2> QED
    BY <1>1, <2>1 DEF Shown
<1>6. Visibly'
  BY <1>1, <1>5 DEF Visibly
<1>7. OnDisk' /\ syncedTo' \in Nat /\ durable' = Len(batches)
  BY <1>1, <1>2, <1>5, ReclaimKeepsAcked
<1>8. Numbered'
  BY <1>0, <1>1, <1>2, <1>3, <1>7, MovesNumber DEF Numbered
<1>9. \A p \in Procs : pc'[p] \in Flying => pc'[p] = "sweep"
  BY <1>0, <1>1, <1>2, OthersRest
<1>10. HidesNothing'
  BY <1>9 DEF HidesNothing, Flying
<1> QED
  BY <1>6, <1>7, <1>8, <1>10

----------------------------------------------------------------------------
(* Crashes and restarts.                                                   *)

(* A crash keeps the frames a sync has covered, and leaves no call under   *)
(* way (Wal::commit, File::sync_data).                                     *)
LEMMA CrashKeepsAcked ==
    ASSUME Inv, AckInv, Kill \/ Power
    PROVE  AckInv'
<1> USE DEF Inv, AckInv
<1>1. /\ UNCHANGED <<files, segments, buffer, durable, batches, acked>>
      /\ pc' = [p \in Procs |-> "idle"] /\ batch' = [p \in Procs |-> 0]
      /\ \/ UNCHANGED <<log, syncedTo>>
         \/ \E n \in syncedTo .. Larger(syncedTo, sequence) :
               log' = {f \in log : f.at <= n} /\ syncedTo' = n
  BY DEF Kill, Power, Die, logFile, memory, list, stamps, history
<1>2. /\ syncedTo \in Nat /\ sequence \in Nat /\ Larger(syncedTo, sequence) \in Nat
      /\ \A f \in log : f.at \in Nat
      /\ Ingesters \subseteq Procs
  BY LargerIs DEF Typed, Numbered, Procs
<1>3. log' \subseteq log /\ Synced \subseteq Synced' /\ syncedTo' \in Nat
  BY <1>1, <1>2 DEF Synced
<1>4. \A b : ~Pending(b)' /\ (Promised(b)' => Promised(b))
  BY <1>1, <1>2 DEF Promised, Pending
<1>5. Numbered'
  BY <1>1, <1>2, <1>3 DEF Numbered
<1>6. OnDisk'
  <2>1. ASSUME NEW b, NEW k
        PROVE  /\ Carried(Synced, b, k) => Carried(Synced, b, k)'
               /\ InFiles(b, k) => InFiles(b, k)'
    BY <1>1, <1>3 DEF Carried, InFiles
  <2> QED
    BY <1>1, <1>4, <2>1 DEF OnDisk
<1>7. Visibly'
  BY <1>1, <1>4 DEF Visibly, Shown
<1>8. HidesNothing'
  BY <1>1 DEF HidesNothing
<1> QED
  BY <1>5, <1>6, <1>7, <1>8

(* A restart keeps what is promised (Store::open).                         *)
LEMMA OpenKeepsAcked ==
    ASSUME Inv, Inv', AckInv, NEW m \in Modes, m = "wal", Open(m)
    PROVE  AckInv'
<1> USE DEF AckInv
<1>1. /\ UNCHANGED <<log, files, batches, acked, pc, batch, drained>>
      /\ segments' = files /\ durable' = Len(batches) /\ mode' = "wal" /\ status = "down"
      /\ syncedTo' = IF syncedTo <= sequence' THEN syncedTo ELSE sequence'
  BY DEF Open, thread, sealing
<1>2. /\ syncedTo \in Nat /\ sequence' \in Nat /\ durable \in Nat /\ Len(batches) \in Nat
      /\ \A f \in log : f.at \in Nat /\ f.at <= sequence'
      /\ Ingesters \subseteq Procs
  BY <1>1 DEF Inv, Typed, Numbered, LogOrdered, Procs
<1>3. (\A p \in Procs : pc[p] = "idle") /\ (\A t \in Ingesters : batch[t] = 0)
  BY <1>1, <1>2 DEF Inv, OnePermit, Numbered
<1>4. \A b : ~Pending(b)' /\ (Promised(b)' => Promised(b))
  BY <1>1, <1>3 DEF Promised, Pending
<1>5. Synced' = Synced /\ syncedTo' \in Nat
  BY <1>1, <1>2 DEF Synced
<1>6. Numbered'
  <2>1. durable' \in Nat /\ durable' <= Len(batches') /\ syncedTo' \in Nat
    BY <1>1, <1>2, <1>5
  <2>2. \A t \in Ingesters : /\ batch'[t] <= Len(batches')
                             /\ pc'[t] = "idle" <=> batch'[t] = 0
                             /\ pc'[t] \notin {"idle", "commit"} => batch'[t] <= durable'
    BY <1>1, <1>2, <1>3
  <2> QED
    BY <1>1, <2>1, <2>2 DEF Numbered
<1>7. OnDisk'
  BY <1>1, <1>4, <1>5 DEF OnDisk, Carried, InFiles
<1>8. Visibly'
  <2>1. ASSUME NEW b \in 1 .. Len(batches), NEW k \in batches[b], Promised(b)'
        PROVE  Shown(files, b, k)' /\ Shown(segments, b, k)'
    <3>1. Carried(Synced, b, k) \/ InFiles(b, k)
      BY <1>4, <2>1 DEF OnDisk
    <3>2. Carried(log, b, k) \/ InFiles(b, k)
      BY <3>1 DEF Carried, Synced
    <3>3. k \in Keys /\ b \in Nat /\ b # 0
      BY Versioned DEF Inv
    <3> QED
      BY <3>2, <3>3, OpenShows
  <2> QED
    BY <1>1, <1>4, <2>1 DEF Visibly
<1>9. HidesNothing'
  BY <1>1, <1>3 DEF HidesNothing
<1> QED
  BY <1>6, <1>7, <1>8, <1>9

----------------------------------------------------------------------------
(* The theorem.                                                            *)

(* Every step of a store with a log keeps what it promised.                *)
LEMMA AckStep ==
    ASSUME WalOnly, Inv, Inv', PublishIsLast, AckInv, [Next]_vars
    PROVE  AckInv'
<1>1. mode = "wal" /\ Maintainer \in Procs /\ Ingesters \subseteq Procs
  BY AlwaysLogged DEF Inv, Procs
<1>2. CASE UNCHANGED vars
  <2>1. UNCHANGED <<log, syncedTo, files, segments, buffer, durable, batches, batch, acked, pc,
                    drained>>
    BY <1>2 DEF vars, disk, logFile, memory, list, stamps, thread, sealing, history
  <2>2. Numbered'
    BY <2>1 DEF AckInv, Numbered
  <2>3. ReliesOnNoMore
    BY <2>1 DEF ReliesOnNoMore, Promised, Pending
  <2> QED
    BY <2>1, <2>2, <2>3, StillAcked DEF kept
<1>3. ASSUME NEW t \in Ingesters, NEW ks \in (SUBSET Keys) \ {{}}, Admit(t, ks)
      PROVE  AckInv'
  BY <1>1, <1>3, AdmitKeepsAcked
<1>4. ASSUME NEW t \in Ingesters, IngestStep(t) \/ CommitFails(t)
      PROVE  AckInv'
  BY <1>1, <1>4, CallsKeepAcked DEF IngestStep
<1>5. CASE Sync
  BY <1>1, <1>5, SyncKeepsAcked
<1>6. ASSUME NEW p \in Procs, SealStep(p) \/ SkipSeal(p) \/ SealFails(p)
      PROVE  AckInv'
  BY <1>1, <1>6, SealsKeepAcked, DrainKeepsAcked, WriteKeepsAcked, PublishKeepsAcked,
     ReconcileKeepsAcked DEF SealStep
<1>7. CASE AgeSeal \/ BeginCheckpoint \/ CheckpointStep \/ CurrentUnsynced
  BY <1>7, CheckpointsKeepAcked, ReclaimFoldedKeepsAcked DEF CheckpointStep
<1>8. CASE Kill \/ Power
  BY <1>8, CrashKeepsAcked
<1>9. ASSUME NEW m \in Modes, Open(m) PROVE AckInv'
  <2>1. m = "wal"
    BY DEF WalOnly
  <2> QED
    BY <1>9, <2>1, OpenKeepsAcked
<1> QED
  BY <1>2, <1>3, <1>4, <1>5, <1>6, <1>7, <1>8, <1>9 DEF Next

(* Power loss included, and in the middle of any seal or checkpoint, a     *)
(* store that is only ever opened with a log reads every key at least as   *)
(* new as the newest batch whose ingest call returned Ok (lib.rs admit,    *)
(* seal_with_permit, checkpoint_locked, open).                             *)
THEOREM AckedIsSafe ==
    ASSUME WalOnly
    PROVE  Spec => []AckedSurvives
<1>1. Inv /\ PublishIsLast /\ AckInv => AckedSurvives
  <2> SUFFICES ASSUME Inv, PublishIsLast, AckInv, NEW k \in Keys
               PROVE  Visible[k] >= Greatest({b \in acked : k \in batches[b]})
    BY DEF AckedSurvives
  <2> DEFINE carrying == {b \in acked : k \in batches[b]}
  <2>1. Visible[k] = IF buffer[k] # 0 THEN buffer[k] ELSE Resolve(segments)[k]
    BY DEF Visible, Over
  <2>2. buffer[k] \in Nat /\ Resolve(segments)[k] \in Nat
    <3>1. HasLatest(segments) /\ \A f \in segments : f.row \in Row
      BY LatestOfFewer DEF Inv, PublishIsLast, NamesUnused, Typed
    <3>2. Resolve(segments) \in Row
      BY <3>1, ResolveRow
    <3> QED
      BY <3>2, Versioned DEF Row
  <2>3. carrying \in SUBSET acked /\ acked \subseteq 1 .. Len(batches)
    BY DEF AckInv, Numbered
  <2>4. \A b \in carrying : b <= Visible[k]
    BY <2>1, <2>3 DEF AckInv, Visibly, Promised, Shown
  <2>5. CASE carrying = {}
    BY <2>1, <2>2, <2>5 DEF Greatest
  <2>6. CASE carrying # {}
    <3>1. \E b \in carrying : \A s \in carrying : s <= b
      BY <2>3, <2>6 DEF AckInv, Numbered
    <3> HIDE DEF carrying
    <3>2. Greatest(carrying) \in carrying
      BY <2>6, <3>1 DEF Greatest
    <3>3. Greatest(carrying) <= Visible[k]
      BY <2>4, <3>2
    <3>4. Greatest(carrying) \in Nat /\ Visible[k] \in Nat
      <4>1. Visible[k] \in Nat
        BY <2>1, <2>2
      <4>2. carrying \subseteq Nat
        BY <2>3, Versioned
      <4> QED
        BY <3>2, <4>1, <4>2
    <3>5. Visible[k] >= Greatest(carrying)
      BY <3>3, <3>4
    <3> QED
      BY <3>5 DEF carrying
  <2> QED
    BY <2>5, <2>6
<1>2. Init => PublishIsLast
  BY DEF Init, PublishIsLast
<1>3. Inv /\ PublishIsLast /\ AckInv /\ [Next]_vars => Inv' /\ PublishIsLast' /\ AckInv'
  BY InvStep, LastStep, AckStep
<1> QED
  BY <1>1, <1>2, <1>3, InvInit, AckInit, PTL DEF Spec

----------------------------------------------------------------------------

(* Store implements SpanStore when processes die and calls fail, but the   *)
(* machine keeps its power and the store its durability mode: for any keys *)
(* and threads, each of the three modes, and any number of batches,        *)
(* generations and faults.                                                 *)

\* What is written to the log stays in it, and a store is reopened as it was.
PowerStays == Faults \cap {"power", "reopen"} = {}

\* A batch no crash took, and a version of k that such a batch carried.
Survives(b) == b \in 1 .. Len(batches) /\ b \notin lost
Real(v, k) == v = 0 \/ (Survives(v) /\ k \in batches[v])

Counted ==
    /\ lost \subseteq 1 .. Len(batches)
    /\ mode # "buffered" => lost = {}
    /\ \A b \in 1 .. Len(batches) : batches[b] # {}
    /\ \A S \in SUBSET (1 .. Len(batches)) : S # {} => \E m \in S : \A s \in S : s <= m
    /\ \A t \in Ingesters : pc[t] # "idle" => Survives(batch[t])

\* Whatever is shown, or may be, is what some surviving batch carried ...
Genuine ==
    \A k \in Keys :
        /\ Real(buffer[k], k) /\ Real(Resolve(files)[k], k) /\ Real(Resolve(segments)[k], k)
        /\ \A f \in log : mode # "buffered" => Real(f.row[k], k)
        /\ \A p \in Procs : pc[p] \in {"write", "publish"} => Real(drained.row[k], k)

\* ... and nothing that surviving batches carried is shown older than it is.
ShowsNewest ==
    \A b \in 1 .. Len(batches) : \A k \in batches[b] :
        Survives(b) => Shown(files, b, k) /\ Shown(segments, b, k)

\* With a log, that holds of what a restart would find.
KeptOnDisk ==
    mode # "buffered" =>
        \A b \in 1 .. Len(batches) : \A k \in batches[b] : Carried(log, b, k) \/ InFiles(b, k)

\* Without one, rows are those of a prefix of the admissions.
PrefixOf(row) ==
    \A b \in 1 .. Len(batches) : \A k \in batches[b] :
        Survives(b) => \A j \in Keys : b <= row[j] => b <= row[k]

KeptAsPrefix == mode = "buffered" => PrefixOf(Resolve(files))

WriteIsWhole ==
    \A p \in Procs : pc[p] = "write" =>
        /\ mode = "buffered" => PrefixOf(Over(Resolve(files), drained.row))
        /\ mode # "buffered" =>
               \A b \in 1 .. Len(batches) : \A k \in batches[b] :
                   drained.row[k] = 0 \/ drained.row[k] >= b \/ Carried(log, b, k)

Faithful == /\ Counted /\ Genuine /\ ShowsNewest /\ KeptOnDisk /\ KeptAsPrefix
            /\ WriteIsWhole

----------------------------------------------------------------------------

(* Numbers, and what a mode without power loss leaves out.                 *)
LEMMA Admissions ==
    ASSUME Inv, Counted
    PROVE  /\ Len(batches) \in Nat /\ DOMAIN batches = 1 .. Len(batches)
           /\ \A b \in 1 .. Len(batches) : b \in Nat /\ b # 0 /\ batches[b] \subseteq Keys
           /\ \A b : Survives(b) => b \in 1 .. Len(batches)
<1>1. batches \in Seq(SUBSET Keys)
  BY DEF Inv, Typed
<1>2. Len(batches) \in Nat /\ DOMAIN batches = 1 .. Len(batches)
  BY <1>1
<1> QED
  BY <1>2, Versioned DEF Survives

(* The newest surviving version of a key is the one that is real and no    *)
(* older than any other (Newest).                                          *)
LEMMA NewestIs ==
    ASSUME Inv, Counted, NEW k \in Keys, NEW v, Real(v, k),
           \A b \in 1 .. Len(batches) : Survives(b) /\ k \in batches[b] => b <= v
    PROVE  Expected[k] = v
<1> DEFINE surviving == {b \in DOMAIN batches \ lost : k \in batches[b]}
<1>1. Expected[k] = Greatest(surviving)
  BY DEF Expected, Newest
<1>2. \A b : b \in surviving <=> Survives(b) /\ k \in batches[b]
  BY Admissions DEF Survives
<1>3. \A b \in surviving : b \in Nat /\ b # 0 /\ b <= v
  BY <1>2, Admissions
<1> HIDE DEF surviving
<1>4. CASE v = 0
  <2>1. surviving = {}
    BY <1>3, <1>4
  <2> QED
    BY <1>1, <1>4, <2>1 DEF Greatest
<1>5. CASE v # 0
  <2>1. v \in surviving /\ \A b \in surviving : b <= v
    BY <1>2, <1>3, <1>5 DEF Real
  <2>2. ASSUME NEW n \in surviving, \A b \in surviving : b <= n
        PROVE  n = v
    BY <1>3, <2>1, <2>2
  <2>3. (CHOOSE n \in surviving : \A b \in surviving : b <= n) = v
    BY <2>1, <2>2
  <2> QED
    BY <1>1, <2>1, <2>3 DEF Greatest
<1> QED
  BY <1>4, <1>5

\* What a read shows is what surviving batches say it should.
ReadsWell == Visible = Expected

(* A faithful store's reads do.                                            *)
LEMMA FaithfulReads == Inv /\ Faithful => ReadsWell
<1> SUFFICES ASSUME Inv, Faithful PROVE Visible = Expected
  BY DEF ReadsWell
<1> USE DEF Faithful
<1>1. ASSUME NEW k \in Keys PROVE Visible[k] = Expected[k]
  <2> DEFINE v == IF buffer[k] # 0 THEN buffer[k] ELSE Resolve(segments)[k]
  <2>1. Visible[k] = v
    BY DEF Visible, Over
  <2>2. Real(v, k)
    BY DEF Genuine
  <2>3. \A b \in 1 .. Len(batches) : Survives(b) /\ k \in batches[b] => b <= v
    BY DEF ShowsNewest, Shown
  <2> HIDE DEF v
  <2> QED
    BY <2>1, <2>2, <2>3, NewestIs
<1>2. Visible = [k \in Keys |-> Visible[k]] /\ Expected = [k \in Keys |-> Expected[k]]
  BY DEF Visible, Over, Expected, Newest
<1> QED
  BY <1>1, <1>2

(* An empty store shows nothing, as it should.                             *)
LEMMA FaithfulInit == Init => Faithful
<1> SUFFICES ASSUME Init PROVE Faithful
  OBVIOUS
<1> USE DEF Init
<1>1. Len(batches) = 0 /\ 1 .. Len(batches) = {}
  OBVIOUS
<1>2. Counted
  BY <1>1 DEF Counted, Procs
<1>3. Genuine
  BY <1>1 DEF Genuine, Real, Resolve, Empty
<1>4. ShowsNewest /\ KeptOnDisk
  BY <1>1 DEF ShowsNewest, KeptOnDisk
<1>5. KeptAsPrefix /\ WriteIsWhole
  BY <1>1 DEF KeptAsPrefix, WriteIsWhole, PrefixOf
<1> QED
  BY <1>2, <1>3, <1>4, <1>5 DEF Faithful

----------------------------------------------------------------------------
(* Threads.                                                                *)

(* Only an admission gives a thread a batch (Store::admit).                *)
LEMMA OnlyAdmitBegins ==
    ASSUME Inv, [Next]_vars, NEW t \in Ingesters, pc'[t] # "idle"
    PROVE  \/ \E s \in Ingesters, ks \in (SUBSET Keys) \ {{}} : Admit(s, ks)
           \/ pc[t] # "idle" /\ batch'[t] = batch[t]
<1>1. /\ pc \in [Procs -> PC] /\ batch \in [Procs -> Nat]
      /\ Maintainer \in Procs /\ Ingesters \subseteq Procs /\ Maintainer # t
  BY ProcessAssumption DEF Inv, Typed, Procs
<1>2. ASSUME NEW p \in Procs, pc[p] # "idle", NEW where, Goto(p, where),
             batch' = batch \/ (where = "idle" /\ batch' = [batch EXCEPT ![p] = 0])
      PROVE  pc[t] # "idle" /\ batch'[t] = batch[t]
  BY <1>1, <1>2 DEF Goto
<1>3. ASSUME NEW where, Goto(Maintainer, where),
             batch' = batch \/ batch' = [batch EXCEPT ![Maintainer] = 0]
      PROVE  pc[t] # "idle" /\ batch'[t] = batch[t]
  BY <1>1, <1>3 DEF Goto
<1>4. CASE UNCHANGED vars \/ Sync \/ \E m \in Modes : Open(m)
  BY <1>4 DEF vars, Sync, Open, thread
<1>5. ASSUME NEW p \in Procs, CommitAck(p) \/ CommitSeal(p) \/ CommitFails(p)
                              \/ TakePermit(p) \/ SkipSeal(p) \/ DrainNothing(p)
      PROVE  pc[t] # "idle" /\ batch'[t] = batch[t]
  BY <1>2, <1>5 DEF CommitAck, CommitSeal, CommitFails, Committed, Waiting, TakePermit, SkipSeal,
     DrainNothing, Acknowledge, At
<1>6. ASSUME NEW p \in Procs, Drain(p) \/ WriteSegment(p) \/ Publish(p) \/ Reconcile(p)
                              \/ SealFails(p)
      PROVE  pc[t] # "idle" /\ batch'[t] = batch[t]
  BY <1>2, <1>6 DEF Drain, WriteSegment, Publish, Reconcile, SealFails, Fail, Acknowledge, At
<1>7. CASE AgeSeal \/ BeginCheckpoint \/ CheckpointStep \/ CurrentUnsynced
  <2>1. /\ \E where : Goto(Maintainer, where)
        /\ batch' = batch \/ batch' = [batch EXCEPT ![Maintainer] = 0]
    BY <1>7 DEF AgeSeal, BeginCheckpoint, CheckpointStep, FoldPosition, WriteManifest,
       PublishCurrent, AdvanceEpoch, ReclaimFolded, SweepGenerations, CurrentUnsynced, Fail
  <2> QED
    BY <1>3, <2>1
<1>8. CASE Kill \/ Power
  BY <1>1, <1>8 DEF Kill, Power, Die
<1> QED
  BY <1>1, <1>4, <1>5, <1>6, <1>7, <1>8 DEF Next, IngestStep, SealStep

(* So the count of what survives stays true in steps that admit and lose   *)
(* nothing.                                                                *)
LEMMA CountedStays ==
    ASSUME Inv, Counted, [Next]_vars, UNCHANGED <<batches, lost, mode>>
    PROVE  Counted'
<1>1. ASSUME NEW s \in Ingesters, NEW ks \in (SUBSET Keys) \ {{}}, Admit(s, ks)
      PROVE  FALSE
  <2>1. batches \in Seq(SUBSET Keys) /\ batches' = Append(batches, ks)
    BY <1>1 DEF Admit, Inv, Typed
  <2>2. Len(batches') = Len(batches) + 1 /\ Len(batches) \in Nat
    BY <2>1
  <2> QED
    BY <2>2
<1>2. \A t \in Ingesters : pc'[t] # "idle" => pc[t] # "idle" /\ batch'[t] = batch[t]
  BY <1>1, OnlyAdmitBegins
<1> QED
  BY <1>2 DEF Counted, Survives

\* What reads and restarts are about.
stored == <<log, files, segments, buffer, batches, lost, mode>>

(* A step that leaves the store alone keeps it faithful.                   *)
LEMMA StillFaithful ==
    ASSUME Faithful, Counted', UNCHANGED stored,
           \A p \in Procs : pc'[p] \in {"write", "publish"} => pc'[p] = pc[p] /\ drained' = drained
    PROVE  Faithful'
<1> USE DEF Faithful, stored
<1>1. \A b : Survives(b)' <=> Survives(b)
  BY DEF Survives
<1>2. Genuine'
  BY <1>1 DEF Genuine, Real
<1>3. ShowsNewest'
  BY <1>1 DEF ShowsNewest, Shown
<1>4. KeptOnDisk' /\ KeptAsPrefix'
  BY <1>1 DEF KeptOnDisk, KeptAsPrefix, PrefixOf, Carried, InFiles
<1>5. WriteIsWhole'
  BY <1>1 DEF WriteIsWhole, PrefixOf, Carried
<1> QED
  BY <1>2, <1>3, <1>4, <1>5

(* So does a move of one thread that gives up or keeps what it drained.    *)
LEMMA QuietFaithful ==
    ASSUME Inv, Faithful, Counted', UNCHANGED stored,
           NEW p \in Procs, NEW where \in PC \ {"write", "publish"}, Goto(p, where),
           drained' = drained \/ pc[p] \in Working
    PROVE  Faithful'
<1> USE DEF Inv
<1>1. pc'[p] = where /\ \A q \in Procs : q # p => pc'[q] = pc[q]
  BY GotoIs
<1>2. ASSUME NEW q \in Procs, pc'[q] \in {"write", "publish"}
      PROVE  pc'[q] = pc[q] /\ drained' = drained
  <2>1. q # p /\ pc'[q] = pc[q] /\ pc[q] \in Working
    BY <1>1, <1>2 DEF Working
  <2> QED
    BY <2>1, Alone
<1> QED
  BY <1>2, StillFaithful

----------------------------------------------------------------------------
(* Ingest.                                                                 *)

(* A batch that is admitted is shown whole, over what was there; what was  *)
(* written before it is older (Store::admit).                              *)
LEMMA AdmitIsFaithful ==
    ASSUME Inv, Faithful, NEW t \in Ingesters, NEW ks \in (SUBSET Keys) \ {{}}, Admit(t, ks)
    PROVE  Faithful'
<1> USE DEF Inv, Faithful
<1>0. PICK new \in Nat : new = Len(batches) + 1
  BY DEF Typed
<1> DEFINE row == [k \in Keys |-> IF k \in ks THEN new ELSE 0]
           frame == Frame(row)
<1>1. /\ batches' = Append(batches, ks) /\ batch' = [batch EXCEPT ![t] = new]
      /\ buffer' = Over(buffer, row) /\ ks # {}
      /\ Goto(t, "permit") \/ Goto(t, "commit")
      /\ IF mode = "buffered" THEN log' = log ELSE log' = log \cup {frame}
      /\ UNCHANGED <<files, segments, mode, lost, drained>>
  BY <1>0 DEF Admit, list, sealing
<1>2. /\ batches \in Seq(SUBSET Keys) /\ Len(batches) \in Nat
      /\ buffer \in Row
      /\ pc \in [Procs -> PC] /\ batch \in [Procs -> Nat] /\ Ingesters \subseteq Procs
  BY DEF Typed, Procs
<1>3. /\ Len(batches') = new /\ new > Len(batches)
      /\ \A b \in 1 .. Len(batches) : batches'[b] = batches[b] /\ b \in 1 .. new /\ b < new
      /\ batches'[new] = ks /\ new \in 1 .. new
      /\ \A b \in 1 .. new : b = new \/ b \in 1 .. Len(batches)
  BY <1>0, <1>1, <1>2
<1>4. /\ frame.row = row
      /\ \A k \in Keys : /\ row[k] = IF k \in ks THEN new ELSE 0
                         /\ buffer'[k] = IF k \in ks THEN new ELSE buffer[k]
  BY <1>1, <1>2, <1>3 DEF Frame, Over
<1>5. \A p \in Procs : pc'[p] \in {"write", "publish"} => pc'[p] = pc[p]
  BY <1>1, <1>2 DEF Goto
<1> HIDE DEF frame
<1> HIDE DEF row
<1>6. Survives(new)' /\ \A b \in 1 .. Len(batches) : Survives(b)' <=> Survives(b)
  BY <1>1, <1>3 DEF Survives, Counted
<1>7. ASSUME NEW v, NEW k, Real(v, k)
      PROVE  Real(v, k)' /\ (v # 0 => v < new)
  BY <1>3, <1>6, <1>7 DEF Real, Survives
<1>8. Counted'
  <2>1. lost' \subseteq 1 .. Len(batches') /\ (mode' # "buffered" => lost' = {})
    BY <1>1, <1>3 DEF Counted
  <2>2. \A b \in 1 .. Len(batches') : batches'[b] # {}
    BY <1>1, <1>3 DEF Counted
  <2>3. \A S \in SUBSET (1 .. Len(batches')) : S # {} => \E m \in S : \A s \in S : s <= m
    <3>1. 1 .. new = (1 .. Len(batches)) \cup {new}
      BY <1>0, <1>2
    <3>2. \A S \in SUBSET ((1 .. Len(batches)) \cup {new}) : S # {} =>
              \E m \in S : \A s \in S : s <= m
      <4> DEFINE some == 1 .. Len(batches)
      <4>1. some \subseteq Nat /\ \A S \in SUBSET some : S # {} => \E m \in S : \A s \in S : s <= m
        BY <1>2 DEF Counted
      <4> HIDE DEF some
      <4>2. \A S \in SUBSET (some \cup {new}) : S # {} => \E m \in S : \A s \in S : s <= m
        BY <4>1, NewestAcked
      <4> QED
        BY <4>2 DEF some
    <3> QED
      BY <1>3, <3>1, <3>2
  <2>4. ASSUME NEW s \in Ingesters, pc'[s] # "idle"
        PROVE  Survives(batch[s])'
    <3>1. CASE s = t
      <4>1. batch'[s] = new
        BY <1>1, <1>2, <3>1
      <4> QED
        BY <1>6, <4>1 DEF Survives
    <3>2. CASE s # t
      <4>1. batch'[s] = batch[s] /\ pc[s] # "idle"
        BY <1>1, <1>2, <2>4, <3>2 DEF Goto
      <4>2. Survives(batch[s])
        BY <4>1 DEF Counted
      <4> QED
        BY <1>1, <1>3, <4>1, <4>2 DEF Survives
    <3> QED
      BY <3>1, <3>2
  <2> QED
    BY <2>1, <2>2, <2>3, <2>4 DEF Counted
<1>9. Genuine'
  <2>1. ASSUME NEW k \in Keys, k \in ks PROVE Real(new, k)'
    BY <1>3, <1>6, <2>1 DEF Real
  <2>2. ASSUME NEW k \in Keys PROVE Real(buffer[k], k)'
    <3>1. CASE k \in ks
      <4>1. buffer'[k] = new
        BY <1>4, <3>1
      <4> QED
        BY <2>1, <3>1, <4>1 DEF Real, Survives
    <3>2. CASE k \notin ks
      <4>1. buffer'[k] = buffer[k] /\ Real(buffer[k], k)
        BY <1>4, <3>2 DEF Genuine
      <4>2. PICK v : v = buffer[k]
        OBVIOUS
      <4>3. Real(v, k)'
        BY <1>7, <4>1, <4>2
      <4> QED
        BY <4>1, <4>2, <4>3 DEF Real, Survives
    <3> QED
      BY <3>1, <3>2
  <2>3. ASSUME NEW k \in Keys PROVE Real(Resolve(files)[k], k)' /\ Real(Resolve(segments)[k], k)'
    BY <1>1, <1>7 DEF Genuine, Real, Survives
  <2>4. ASSUME NEW k \in Keys, NEW f \in log', mode' # "buffered" PROVE Real(f.row[k], k)'
    <3>1. CASE f \in log
      BY <1>1, <1>7, <2>4, <3>1 DEF Genuine
    <3>2. CASE f = frame
      <4>1. f.row[k] = IF k \in ks THEN new ELSE 0
        BY <1>4, <3>2
      <4> QED
        BY <2>1, <4>1 DEF Real
    <3> QED
      BY <1>1, <2>4, <3>1, <3>2
  <2>5. ASSUME NEW k \in Keys, NEW p \in Procs, pc'[p] \in {"write", "publish"}
        PROVE  Real(drained.row[k], k)'
    BY <1>1, <1>5, <1>7, <2>5 DEF Genuine, Real, Survives
  <2> QED
    BY <2>2, <2>3, <2>4, <2>5 DEF Genuine
<1>10. ShowsNewest'
  <2>1. ASSUME NEW b \in 1 .. Len(batches), NEW k \in batches[b], Survives(b)
        PROVE  Shown(files, b, k)' /\ Shown(segments, b, k)'
    <3>1. Shown(files, b, k) /\ Shown(segments, b, k) /\ k \in Keys
      BY <1>2, <2>1 DEF ShowsNewest
    <3>2. CASE k \in ks
      <4>1. buffer'[k] = new /\ new # 0 /\ b <= new
        BY <1>2, <1>3, <1>4, <3>1, <3>2
      <4> QED
        BY <4>1 DEF Shown
    <3>3. CASE k \notin ks
      <4>1. buffer'[k] = buffer[k]
        BY <1>4, <3>1, <3>3
      <4> QED
        BY <1>1, <3>1, <4>1 DEF Shown
    <3> QED
      BY <3>2, <3>3
  <2>2. \A k \in ks : Shown(files, new, k)' /\ Shown(segments, new, k)'
    BY <1>2, <1>3, <1>4 DEF Shown
  <2> QED
    BY <1>3, <1>6, <2>1, <2>2 DEF ShowsNewest
<1>11. ASSUME mode # "buffered", NEW b \in 1 .. Len(batches), NEW k \in batches[b]
       PROVE  /\ Carried(log, b, k) => Carried(log, b, k)'
              /\ InFiles(b, k) => InFiles(b, k)'
  <2>1. frame.row[k] = 0 \/ frame.row[k] >= b
    BY <1>2, <1>3, <1>4
  <2> QED
    BY <1>1, <1>11, <2>1 DEF Carried, InFiles
<1>12. mode # "buffered" => \A k \in ks : Carried(log, new, k)'
  BY <1>1, <1>3, <1>4 DEF Carried
<1>13. KeptOnDisk'
  <2>1. ASSUME mode # "buffered", NEW b \in 1 .. Len(batches), NEW k \in batches[b]
        PROVE  Carried(log, b, k)' \/ InFiles(b, k)'
    BY <1>11, <2>1 DEF KeptOnDisk
  <2> QED
    BY <1>1, <1>3, <1>12, <2>1 DEF KeptOnDisk
<1>14. ASSUME NEW r, PrefixOf(r), \A k \in Keys : Real(r[k], k)
       PROVE  PrefixOf(r)'
  <2>1. \A j \in Keys : ~(new <= r[j])
    BY <1>3, <1>7, <1>14 DEF Real, Survives
  <2>2. ASSUME NEW b \in 1 .. Len(batches'), NEW k \in batches'[b], Survives(b)',
               NEW j \in Keys, b <= r[j]
        PROVE  b <= r[k]
    <3>1. b # new
      BY <2>1, <2>2
    <3>2. b \in 1 .. Len(batches) /\ k \in batches[b] /\ Survives(b)
      BY <1>3, <1>6, <2>2, <3>1
    <3> QED
      BY <1>14, <2>2, <3>2 DEF PrefixOf
  <2> QED
    BY <2>2 DEF PrefixOf
<1>15. KeptAsPrefix'
  <2>1. PICK r : r = Resolve(files)
    OBVIOUS
  <2>2. mode = "buffered" => PrefixOf(r)'
    BY <1>14, <2>1 DEF KeptAsPrefix, Genuine
  <2> QED
    BY <1>1, <2>1, <2>2 DEF KeptAsPrefix, PrefixOf
<1>16. WriteIsWhole'
  <2> SUFFICES ASSUME NEW p \in Procs, pc'[p] = "write"
               PROVE  /\ mode' = "buffered" => PrefixOf(Over(Resolve(files), drained.row))'
                      /\ mode' # "buffered" =>
                             \A b \in 1 .. Len(batches') : \A k \in batches'[b] :
                                 drained'.row[k] = 0 \/ drained'.row[k] >= b \/ Carried(log, b, k)'
    BY DEF WriteIsWhole
  <2>1. pc[p] = "write"
    BY <1>5
  <2>2. ASSUME mode = "buffered"
        PROVE  PrefixOf(Over(Resolve(files), drained.row))'
    <3>1. PICK r : r = Over(Resolve(files), drained.row)
      OBVIOUS
    <3>2. \A k \in Keys : Real(r[k], k)
      BY <2>1, <3>1 DEF Genuine, Over
    <3>3. PrefixOf(r)'
      BY <1>14, <2>1, <2>2, <3>1, <3>2 DEF WriteIsWhole
    <3> QED
      BY <1>1, <3>1, <3>3 DEF PrefixOf
  <2>3. ASSUME mode # "buffered", NEW b \in 1 .. Len(batches), NEW k \in batches[b]
        PROVE  drained.row[k] = 0 \/ drained.row[k] >= b \/ Carried(log, b, k)'
    BY <1>11, <2>1, <2>3 DEF WriteIsWhole
  <2> QED
    BY <1>1, <1>3, <1>12, <2>2, <2>3
<1> QED
  BY <1>8, <1>9, <1>10, <1>13, <1>15, <1>16

----------------------------------------------------------------------------
(* Seals and checkpoints.                                                  *)

(* A drain is what reads show without the segments (seal_with_permit).     *)
LEMMA DrainIsFaithful ==
    ASSUME Inv, Faithful, Counted', NEW t \in Procs, Drain(t)
    PROVE  Faithful'
<1> USE DEF Inv, Faithful
<1>1. /\ UNCHANGED stored /\ drained'.row = buffer
      /\ pc[t] = "drain" /\ Goto(t, "write")
  BY DEF Drain, At, stored, disk, logFile, history
<1>2. \A p \in Procs : pc'[p] \in Flying => pc'[p] = "write"
  BY <1>1, OthersRest DEF PC, Working
<1>3. \A b : Survives(b)' <=> Survives(b)
  BY <1>1 DEF Survives, stored
<1>4. Genuine'
  BY <1>1, <1>2, <1>3 DEF Genuine, Real, stored, Flying
<1>5. ShowsNewest' /\ KeptOnDisk' /\ KeptAsPrefix'
  BY <1>1, <1>3 DEF ShowsNewest, KeptOnDisk, KeptAsPrefix, PrefixOf, Shown, Carried, InFiles,
     stored
<1>6. WriteIsWhole'
  <2>1. ASSUME NEW b \in 1 .. Len(batches), NEW k \in batches[b], Survives(b)
        PROVE  b <= Over(Resolve(files), buffer)[k] /\ (buffer[k] = 0 \/ buffer[k] >= b)
    <3>1. k \in Keys /\ b \in Nat /\ buffer[k] \in Nat
      BY Versioned
    <3>2. b <= IF buffer[k] # 0 THEN buffer[k] ELSE Resolve(files)[k]
      BY <2>1 DEF ShowsNewest, Shown
    <3> QED
      BY <3>1, <3>2 DEF Over
  <2>2. PrefixOf(Over(Resolve(files), buffer))
    BY <2>1 DEF PrefixOf
  <2>3. ASSUME mode # "buffered", NEW b \in 1 .. Len(batches), NEW k \in batches[b]
        PROVE  buffer[k] = 0 \/ buffer[k] >= b
    BY <2>1, <2>3 DEF Counted, Survives
  <2> QED
    BY <1>1, <1>3, <2>2, <2>3 DEF WriteIsWhole, stored, PrefixOf
<1> QED
  BY <1>4, <1>5, <1>6

(* A segment that is written keeps the segments the rows of a prefix, or   *)
(* the log in possession of what they do not show (Segment::write).        *)
LEMMA WriteIsFaithful ==
    ASSUME Inv, Faithful, Counted', NEW t \in Procs, WriteSegment(t)
    PROVE  Faithful'
<1> USE DEF Inv, Faithful
<1>1. /\ UNCHANGED <<log, segments, buffer, batches, lost, mode, drained>>
      /\ pc[t] = "write" /\ Goto(t, "publish")
  BY DEF WriteSegment, At, logFile, memory, list, sealing, history
<1>2. \A p \in Procs : pc'[p] \in Flying => pc'[p] = "publish"
  BY <1>1, OthersRest DEF PC, Working
<1>3. \A b : Survives(b)' <=> Survives(b)
  BY <1>1 DEF Survives
<1>4. ASSUME NEW k \in Keys
      PROVE  /\ drained.row[k] # 0 => Resolve(files')[k] = drained.row[k] /\ buffer[k] # 0
             /\ drained.row[k] = 0 => Resolve(files')[k] = Resolve(files)[k]
             /\ Resolve(files')[k] = Over(Resolve(files), drained.row)[k]
  BY WriteShows DEF Over
<1>5. Genuine'
  <2>1. ASSUME NEW k \in Keys
        PROVE  /\ Real(Resolve(files')[k], k) /\ Real(drained.row[k], k)
    BY <1>1, <1>4 DEF Genuine
  <2> QED
    BY <1>1, <1>3, <2>1 DEF Genuine, Real
<1>6. ShowsNewest'
  <2>1. ASSUME NEW b \in 1 .. Len(batches), NEW k \in batches[b], Shown(files, b, k)
        PROVE  Shown(files, b, k)'
    <3>1. k \in Keys
      BY Versioned
    <3> QED
      BY <1>1, <1>4, <2>1, <3>1 DEF Shown
  <2> QED
    BY <1>1, <1>3, <2>1 DEF ShowsNewest, Shown
<1>7. KeptOnDisk'
  <2>1. ASSUME mode # "buffered", NEW b \in 1 .. Len(batches), NEW k \in batches[b]
        PROVE  Carried(log, b, k) \/ InFiles(b, k)'
    <3>1. k \in Keys
      BY Versioned
    <3>2. drained.row[k] = 0 \/ drained.row[k] >= b \/ Carried(log, b, k)
      BY <1>1, <2>1 DEF WriteIsWhole
    <3>3. Carried(log, b, k) \/ InFiles(b, k)
      BY <2>1 DEF KeptOnDisk
    <3> QED
      BY <1>1, <1>4, <3>1, <3>2, <3>3 DEF InFiles
  <2> QED
    BY <1>1, <2>1 DEF KeptOnDisk, Carried
<1>8. KeptAsPrefix'
  <2>1. ASSUME mode = "buffered", NEW b \in 1 .. Len(batches), NEW k \in batches[b], Survives(b),
               NEW j \in Keys, b <= Resolve(files')[j]
        PROVE  b <= Resolve(files')[k]
    <3>1. k \in Keys
      BY Versioned
    <3>2. PrefixOf(Over(Resolve(files), drained.row))
      BY <1>1, <2>1 DEF WriteIsWhole
    <3> QED
      BY <1>4, <2>1, <3>1, <3>2 DEF PrefixOf
  <2> QED
    BY <1>1, <1>3, <2>1 DEF KeptAsPrefix, PrefixOf
<1>9. WriteIsWhole'
  BY <1>2 DEF WriteIsWhole, Flying
<1> QED
  BY <1>5, <1>6, <1>7, <1>8, <1>9

(* A segment that is published shows what the buffer still has             *)
(* (Store::publish_segment).                                               *)
LEMMA PublishIsFaithful ==
    ASSUME Inv, PublishIsLast, Faithful, Counted', NEW t \in Procs, Publish(t)
    PROVE  Faithful'
<1> USE DEF Inv, Faithful
<1>1. /\ UNCHANGED <<log, files, buffer, batches, lost, mode, drained>>
      /\ pc[t] = "publish" /\ Goto(t, "reconcile")
  BY DEF Publish, At, disk, logFile, sealing, history
<1>2. \A p \in Procs : pc'[p] \in Flying => pc'[p] = "reconcile"
  BY <1>1, OthersRest DEF PC, Working
<1>3. \A b : Survives(b)' <=> Survives(b)
  BY <1>1 DEF Survives
<1>4. Genuine'
  <2>1. ASSUME NEW k \in Keys PROVE Real(Resolve(segments')[k], k)
    BY <1>1, PublishShows DEF Genuine
  <2> QED
    BY <1>1, <1>2, <1>3, <2>1 DEF Genuine, Real, Flying
<1>5. ShowsNewest'
  <2>1. ASSUME NEW b \in 1 .. Len(batches), NEW k \in batches[b], Shown(segments, b, k)
        PROVE  Shown(segments, b, k)'
    <3>1. k \in Keys
      BY Versioned
    <3> QED
      BY <1>1, <2>1, <3>1, PublishShows DEF Shown
  <2> QED
    BY <1>1, <1>3, <2>1 DEF ShowsNewest, Shown
<1>6. KeptOnDisk' /\ KeptAsPrefix'
  BY <1>1, <1>3 DEF KeptOnDisk, KeptAsPrefix, PrefixOf, Carried, InFiles
<1>7. WriteIsWhole'
  BY <1>2 DEF WriteIsWhole, Flying
<1> QED
  BY <1>4, <1>5, <1>6, <1>7

(* A reclaimed log still has what the segments do not show (Wal::reset,    *)
(* rewrite).                                                               *)
LEMMA ReclaimIsFaithful ==
    ASSUME Inv, Faithful, mode # "buffered", buffer' \in Row, NEW e \in Nat,
           \/ ResetLog /\ buffer' = Empty
           \/ RewriteLog(buffer', e),
           UNCHANGED <<batches, files, mode>>,
           \A b \in 1 .. Len(batches) : \A k \in batches[b] : Shown(files, b, k)'
    PROVE  KeptOnDisk' /\ \A f \in log' : f.row = buffer'
<1>1. ASSUME NEW b \in 1 .. Len(batches), NEW k \in batches[b]
      PROVE  Carried(log, b, k)' \/ InFiles(b, k)'
  <2>1. k \in Keys /\ b \in Nat
    BY Versioned
  <2> QED
    BY <2>1, ReclaimCarries
<1>2. \A f \in log' : f.row = buffer'
  BY DEF ResetLog, RewriteLog
<1> QED
  BY <1>1, <1>2 DEF KeptOnDisk

(* A seal lets go of what its segment shows (reconcile_after_publish).     *)
LEMMA ReconcileIsFaithful ==
    ASSUME Inv, PublishIsLast, Faithful, Counted', NEW t \in Procs, Reconcile(t)
    PROVE  Faithful'
<1> USE DEF Inv, Faithful
<1>1. /\ UNCHANGED <<files, segments, batches, lost, mode>>
      /\ buffer' = Survivors /\ pc[t] = "reconcile"
      /\ Goto(t, "manifest") \/ Goto(t, "idle")
      /\ \/ LeaveLog
         \/ mode # "buffered" /\ ((ResetLog /\ buffer' = Empty) \/ RewriteLog(buffer', 0))
  BY DEF Reconcile, ReclaimSealed, NothingLeft, Acknowledge, At, list
<1>2. \A p \in Procs : pc'[p] \in Flying => pc'[p] = "manifest"
  BY <1>1, OthersRest DEF PC, Working, Flying
<1>3. \A b : Survives(b)' <=> Survives(b)
  BY <1>1 DEF Survives
<1>4. ASSUME NEW b \in 1 .. Len(batches), NEW k \in batches[b], Survives(b)
      PROVE  Shown(files, b, k)' /\ Shown(segments, b, k)'
  <2>1. k \in Keys
    BY Versioned
  <2> QED
    BY <1>4, <2>1, ReconcileShows DEF ShowsNewest
<1>5. ShowsNewest'
  BY <1>1, <1>3, <1>4 DEF ShowsNewest
<1>6. \A k \in Keys : Real(buffer'[k], k)
  BY <1>1 DEF Survivors, Genuine, Real
<1>7. KeptOnDisk' /\ \A f \in log' : mode # "buffered" => \A k \in Keys : Real(f.row[k], k)
  <2>1. CASE LeaveLog
    <3>1. log' = log
      BY <2>1 DEF LeaveLog, logFile
    <3> QED
      BY <1>1, <3>1 DEF KeptOnDisk, Genuine, Carried, InFiles
  <2>2. CASE mode # "buffered" /\ ((ResetLog /\ buffer' = Empty) \/ RewriteLog(buffer', 0))
    <3>1. buffer' \in Row
      BY <1>1, SurvivorsRow
    <3>2. \A b \in 1 .. Len(batches) : \A k \in batches[b] : Shown(files, b, k)'
      BY <1>4, <2>2 DEF Counted, Survives
    <3>3. KeptOnDisk' /\ \A f \in log' : f.row = buffer'
      BY <1>1, <2>2, <3>1, <3>2, ReclaimIsFaithful
    <3> QED
      BY <1>6, <3>3
  <2> QED
    BY <1>1, <2>1, <2>2
<1>8. Genuine'
  BY <1>1, <1>2, <1>3, <1>6, <1>7 DEF Genuine, Real, Flying
<1>9. KeptAsPrefix' /\ WriteIsWhole'
  BY <1>1, <1>2, <1>3 DEF KeptAsPrefix, PrefixOf, WriteIsWhole, Flying
<1> QED
  BY <1>5, <1>7, <1>8, <1>9

(* A checkpoint's reclaim leaves reads alone, and restarts with what they  *)
(* need (Store::checkpoint_locked).                                        *)
LEMMA ReclaimFoldedIsFaithful ==
    ASSUME Inv, Faithful, Counted', ReclaimFolded
    PROVE  Faithful'
<1> USE DEF Inv, Faithful
<1>1. /\ UNCHANGED <<files, segments, buffer, batches, lost, mode>>
      /\ pc[Maintainer] = "reclaim" /\ Goto(Maintainer, "sweep") /\ Maintainer \in Procs
      /\ \/ ResetLog /\ buffer' = Empty
         \/ RewriteLog(buffer', liveGeneration)
  BY DEF ReclaimFolded, At, list, history, Procs
<1>2. \A p \in Procs : pc'[p] \in Flying => pc'[p] = "sweep"
  BY <1>1, OthersRest DEF PC, Working
<1>3. \A b : Survives(b)' <=> Survives(b)
  BY <1>1 DEF Survives
<1>4. mode # "buffered" /\ liveGeneration \in Nat /\ buffer' \in Row
  BY <1>1 DEF FoldIsSealed, Typed
<1>5. ASSUME NEW b \in 1 .. Len(batches), NEW k \in batches[b]
      PROVE  Shown(files, b, k)' /\ Shown(segments, b, k)'
  <2>1. Shown(files, b, k) /\ Shown(segments, b, k)
    BY <1>4 DEF ShowsNewest, Counted, Survives
  <2> QED
    BY <1>1, <2>1 DEF Shown
<1>6. KeptOnDisk' /\ \A f \in log' : f.row = buffer'
  BY <1>1, <1>4, <1>5, ReclaimIsFaithful
<1>7. ShowsNewest'
  BY <1>1, <1>5 DEF ShowsNewest
<1>8. Genuine'
  BY <1>1, <1>2, <1>3, <1>6 DEF Genuine, Real, Flying
<1>9. KeptAsPrefix' /\ WriteIsWhole'
  BY <1>1, <1>2, <1>4 DEF KeptAsPrefix, WriteIsWhole, Flying
<1> QED
  BY <1>6, <1>7, <1>8, <1>9

----------------------------------------------------------------------------
(* Restarts.                                                               *)

(* The last batch a restart recovers is the newest of the versions it      *)
(* shows (Greatest).                                                       *)
LEMMA LastRecovered ==
    ASSUME Inv, Counted, NEW row, \A k \in Keys : Real(row[k], k),
           NEW last, last = Greatest({row[k] : k \in Keys})
    PROVE  /\ last \in 0 .. Len(batches) /\ \A k \in Keys : row[k] <= last
           /\ last # 0 => \E k \in Keys : row[k] = last
<1> DEFINE versions == {row[k] : k \in Keys}
           some == versions \ {0}
<1>1. Len(batches) \in Nat /\ \A k \in Keys : row[k] = 0 \/ row[k] \in 1 .. Len(batches)
  BY Admissions DEF Real
<1>0. 0 \in 0 .. Len(batches)
  BY <1>1
<1>2. \A v \in versions : v \in Nat /\ (v = 0 \/ v \in 1 .. Len(batches))
  BY <1>1
<1>3. (\A k \in Keys : row[k] \in versions) /\ \A v \in versions : \E k \in Keys : row[k] = v
  OBVIOUS
<1>4. last = Greatest(versions)
  OBVIOUS
<1>5. some \in SUBSET (1 .. Len(batches)) /\ \A v \in versions : v = 0 \/ v \in some
  BY <1>2
<1>6. some \subseteq versions /\ 0 \notin some
  OBVIOUS
<1> HIDE DEF versions, some
<1>7. ASSUME NEW m \in versions, \A v \in versions : v <= m
      PROVE  last = m
  <2>1. last = CHOOSE n \in versions : \A v \in versions : v <= n
    BY <1>4, <1>7 DEF Greatest
  <2>2. last \in versions /\ \A v \in versions : v <= last
    BY <1>7, <2>1
  <2>3. last <= m /\ m <= last /\ last \in Nat /\ m \in Nat
    BY <1>2, <1>7, <2>2
  <2> QED
    BY <2>3
<1>8. CASE versions = {}
  <2>1. last = 0
    BY <1>4, <1>8 DEF Greatest
  <2>2. \A k \in Keys : row[k] <= last
    BY <1>3, <1>8
  <2> QED
    BY <1>0, <2>1, <2>2
<1>9. CASE versions # {} /\ some = {}
  <2>1. \A v \in versions : v = 0
    BY <1>5, <1>9
  <2>2. 0 \in versions /\ \A v \in versions : v <= 0
    BY <1>9, <2>1
  <2>3. last = 0
    BY <1>7, <2>2
  <2>4. \A k \in Keys : row[k] <= last
    BY <1>3, <2>2, <2>3
  <2> QED
    BY <1>0, <2>3, <2>4
<1>10. CASE some # {}
  <2>1. PICK m \in some : \A v \in some : v <= m
    BY <1>5, <1>10 DEF Counted
  <2>2. m \in versions /\ m \in 1 .. Len(batches)
    BY <1>5, <1>6
  <2>3. \A v \in versions : v <= m
    BY <1>1, <1>5, <2>1, <2>2
  <2>4. last = m
    BY <1>7, <2>2, <2>3
  <2>5. \A k \in Keys : row[k] <= last
    BY <1>3, <2>3, <2>4
  <2>6. \E k \in Keys : row[k] = last
    BY <1>3, <2>2, <2>4
  <2>7. last \in 0 .. Len(batches)
    BY <1>1, <2>2, <2>4
  <2> QED
    BY <2>5, <2>6, <2>7
<1> QED
  BY <1>8, <1>9, <1>10

(* A restart loses nothing that a log carries, and without a log a suffix  *)
(* of the admissions (Store::open).                                        *)
LEMMA OpenIsFaithful ==
    ASSUME PowerStays, Inv, Inv', Faithful, NEW m \in Modes, Open(m)
    PROVE  /\ Faithful' /\ UNCHANGED <<batches, acked, mode>>
           /\ \E n \in 0 .. Len(batches) : lost' = lost \cup (n + 1) .. Len(batches)
<1> USE DEF Faithful
<1> DEFINE unfolded == {f \in log : After(StampOf(f), manifests[current])}
           recovered == Over(Resolve(files), buffer')
<1>1. /\ UNCHANGED <<log, files, batches, acked, pc, drained>> /\ segments' = files
      /\ m = mode /\ mode' = mode /\ status = "down"
      /\ mode = "buffered" => buffer' = Empty
      /\ mode # "buffered" => buffer' = Resolve(unfolded)
  BY DEF Open, Replay, thread, sealing, PowerStays
<1>2. PICK last : /\ last = Greatest({recovered[k] : k \in Keys})
                  /\ lost' = lost \cup (last + 1) .. Len(batches)
  BY <1>1 DEF Open
<1>3. \A p \in Procs : pc'[p] = "idle"
  BY <1>1 DEF Inv, OnePermit
<1>4. HasLatest(unfolded) /\ unfolded \subseteq log
  BY LatestOfFewer DEF Inv, LogOrdered
<1> HIDE DEF unfolded
<1>5. ASSUME NEW k \in Keys
      PROVE  /\ Real(buffer'[k], k) /\ Real(Resolve(files)[k], k) /\ Real(recovered[k], k)
             /\ recovered[k] = IF buffer'[k] # 0 THEN buffer'[k] ELSE Resolve(files)[k]
  <2>1. Real(buffer'[k], k)
    <3>1. CASE mode = "buffered"
      BY <1>1, <3>1 DEF Empty, Real
    <3>2. CASE mode # "buffered"
      <4>1. \/ buffer'[k] = 0
            \/ \E f \in log : buffer'[k] = f.row[k]
        BY <1>1, <1>4, <3>2, ResolveHolds
      <4> QED
        BY <3>2, <4>1 DEF Genuine, Real
    <3> QED
      BY <3>1, <3>2
  <2>2. Real(Resolve(files)[k], k)
    BY DEF Genuine
  <2> QED
    BY <2>1, <2>2 DEF Over
<1> HIDE DEF recovered
<1>6. /\ last \in 0 .. Len(batches) /\ \A k \in Keys : recovered[k] <= last
      /\ last # 0 => \E k \in Keys : recovered[k] = last
  BY <1>2, <1>5, LastRecovered
<1>7. ASSUME mode # "buffered"
      PROVE  /\ \A b \in 1 .. Len(batches) : \A k \in batches[b] :
                    Shown(files, b, k)' /\ Shown(segments, b, k)'
             /\ lost' = {}
  <2>1. ASSUME NEW b \in 1 .. Len(batches), NEW k \in batches[b]
        PROVE  Shown(files, b, k)' /\ Shown(segments, b, k)'
    <3>1. k \in Keys /\ b \in Nat /\ b # 0
      BY Admissions
    <3>2. Carried(log, b, k) \/ InFiles(b, k)
      BY <1>7 DEF KeptOnDisk
    <3> QED
      BY <1>1, <1>7, <3>1, <3>2, OpenShows
  <2>2. Len(batches) <= last
    <3>1. CASE Len(batches) = 0
      BY <1>6, <3>1
    <3>2. CASE Len(batches) # 0
      <4>1. Len(batches) \in 1 .. Len(batches)
        BY <3>2, Admissions
      <4>2. PICK k \in batches[Len(batches)] : k \in Keys
        BY <4>1, Admissions DEF Counted
      <4>3. Len(batches) <= recovered[k]
        BY <1>1, <1>5, <2>1, <4>1, <4>2 DEF Shown
      <4>4. recovered[k] = 0 \/ recovered[k] \in 1 .. Len(batches)
        BY <1>5, <4>2, Admissions DEF Real
      <4> QED
        BY <1>6, <4>2, <4>3, <4>4, Admissions
    <3> QED
      BY <3>1, <3>2
  <2>3. (last + 1) .. Len(batches) = {}
    BY <1>6, <2>2, Admissions
  <2> QED
    BY <1>2, <1>7, <2>1, <2>3 DEF Counted
<1>8. \A b : Survives(b)' <=> Survives(b) /\ b <= last
  BY <1>1, <1>2, <1>6, Admissions DEF Survives
<1>9. ASSUME NEW v, NEW k, Real(v, k), v <= last
      PROVE  Real(v, k)'
  BY <1>1, <1>8, <1>9 DEF Real
<1>10. Counted'
  <2>1. Ingesters \subseteq Procs /\ \A t \in Ingesters : pc'[t] = "idle"
    BY <1>3 DEF Procs
  <2>2. \A b \in (last + 1) .. Len(batches) : b \in 1 .. Len(batches)
    BY <1>6, Admissions
  <2>3. lost' \subseteq 1 .. Len(batches)
    BY <1>2, <2>2 DEF Counted
  <2> QED
    BY <1>1, <1>7, <2>1, <2>3 DEF Counted
<1>11. Genuine'
  <2>1. ASSUME NEW k \in Keys
        PROVE  Real(buffer[k], k)' /\ Real(Resolve(files)[k], k)'
    <3>1. recovered[k] <= last /\ Real(recovered[k], k)
      BY <1>5, <1>6
    <3>2. CASE buffer'[k] # 0
      <4>1. mode # "buffered"
        BY <1>1, <3>2 DEF Empty
      <4>2. lost' = lost /\ Real(buffer'[k], k) /\ Real(Resolve(files)[k], k)
        BY <1>5, <1>7, <4>1 DEF Counted
      <4> QED
        BY <1>1, <4>2 DEF Real, Survives
    <3>3. CASE buffer'[k] = 0
      <4>1. Resolve(files)[k] = recovered[k]
        BY <1>5, <3>3
      <4> QED
        BY <1>1, <1>9, <3>1, <3>3, <4>1 DEF Real, Survives
    <3> QED
      BY <3>2, <3>3
  <2>2. ASSUME NEW k \in Keys, NEW f \in log, mode # "buffered"
        PROVE  Real(f.row[k], k)'
    BY <1>1, <1>7, <2>2 DEF Genuine, Counted, Real, Survives
  <2> QED
    BY <1>1, <1>3, <2>1, <2>2 DEF Genuine, Real, Survives
<1>12. ShowsNewest'
  <2>1. ASSUME mode = "buffered", NEW b \in 1 .. Len(batches), NEW k \in batches[b], Survives(b)'
        PROVE  Shown(files, b, k)' /\ Shown(segments, b, k)'
    <3>1. Survives(b) /\ b <= last /\ k \in Keys /\ b \in Nat /\ b # 0
      BY <1>8, <2>1, Admissions
    <3>2. last # 0
      BY <1>6, <3>1, Admissions
    <3>3. \A j \in Keys : recovered[j] = Resolve(files)[j] /\ buffer'[j] = 0
      BY <1>1, <1>5, <2>1 DEF Empty
    <3>4. b <= Resolve(files)[k]
      BY <1>6, <2>1, <3>1, <3>2, <3>3 DEF KeptAsPrefix, PrefixOf
    <3> QED
      BY <1>1, <3>1, <3>3, <3>4 DEF Shown
  <2> QED
    BY <1>1, <1>7, <2>1 DEF ShowsNewest
<1>13. KeptOnDisk' /\ KeptAsPrefix'
  BY <1>1, <1>8 DEF KeptOnDisk, KeptAsPrefix, PrefixOf, Carried, InFiles
<1>14. WriteIsWhole'
  BY <1>3 DEF WriteIsWhole
<1> QED
  BY <1>1, <1>2, <1>6, <1>10, <1>11, <1>12, <1>13, <1>14

----------------------------------------------------------------------------
(* Every step.                                                             *)

(* Ingest calls that return or go on to seal (Store::admit).               *)
LEMMA CallsAreFaithful ==
    ASSUME Inv, Faithful, Counted', NEW t \in Ingesters,
           CommitAck(t) \/ CommitSeal(t) \/ CommitFails(t)
    PROVE  Faithful'
<1>1. t \in Procs /\ {"idle", "permit"} \subseteq PC \ {"write", "publish"}
  BY DEF Procs, PC
<1>2. UNCHANGED stored /\ drained' = drained
  BY DEF CommitAck, CommitSeal, CommitFails, stored, disk, logFile, memory, list, sealing, history
<1>3. Goto(t, "idle") \/ Goto(t, "permit")
  BY DEF CommitAck, CommitSeal, CommitFails, Acknowledge
<1> QED
  BY <1>1, <1>2, <1>3, QuietFaithful

(* Taking the permit, or leaving the seal to the thread that has it;       *)
(* finding nothing to seal; failing (Store::seal).                         *)
LEMMA SealsAreFaithful ==
    ASSUME Inv, Faithful, Counted', NEW p \in Procs,
           TakePermit(p) \/ SkipSeal(p) \/ DrainNothing(p) \/ SealFails(p)
    PROVE  Faithful'
<1>1. {"idle", "drain", "position"} \subseteq PC \ {"write", "publish"}
  BY DEF PC
<1>2. UNCHANGED stored
  BY DEF TakePermit, SkipSeal, DrainNothing, SealFails, stored, disk, logFile, memory, list,
         history
<1>3. drained' = drained \/ pc[p] \in Working
  BY DEF TakePermit, SkipSeal, DrainNothing, SealFails, At, Working, sealing
<1>4. Goto(p, "idle") \/ Goto(p, "drain") \/ Goto(p, "position")
  BY DEF TakePermit, SkipSeal, DrainNothing, SealFails, Acknowledge, Fail
<1> QED
  BY <1>1, <1>2, <1>3, <1>4, QuietFaithful

(* What a checkpoint does before and after the reclaim of the log          *)
(* (Store::checkpoint_locked).                                             *)
LEMMA CheckpointsAreFaithful ==
    ASSUME Inv, Faithful, Counted',
           \/ AgeSeal \/ BeginCheckpoint \/ FoldPosition \/ WriteManifest \/ PublishCurrent
           \/ AdvanceEpoch \/ SweepGenerations \/ CurrentUnsynced
    PROVE  Faithful'
<1>1. /\ Maintainer \in Procs
      /\ {"idle", "permit", "drain", "manifest", "current", "epoch", "reclaim", "sweep"}
            \subseteq PC \ {"write", "publish"}
  BY DEF PC, Procs
<1>2. UNCHANGED stored
  BY DEF AgeSeal, BeginCheckpoint, FoldPosition, WriteManifest, PublishCurrent, AdvanceEpoch,
         SweepGenerations, CurrentUnsynced, stored, disk, logFile, memory, list, history
<1>3. drained' = drained \/ pc[Maintainer] \in Working
  BY DEF AgeSeal, BeginCheckpoint, FoldPosition, WriteManifest, PublishCurrent, AdvanceEpoch,
         SweepGenerations, CurrentUnsynced, At, Working, sealing
<1>4. PICK where \in {"idle", "permit", "drain", "manifest", "current", "epoch", "reclaim",
                      "sweep"} : Goto(Maintainer, where)
  BY DEF AgeSeal, BeginCheckpoint, FoldPosition, WriteManifest, PublishCurrent, AdvanceEpoch,
         SweepGenerations, CurrentUnsynced, Fail
<1> QED
  BY <1>1, <1>2, <1>3, <1>4, QuietFaithful

\* A step that neither admits nor restarts: a call may return.
Acknowledges ==
    /\ UNCHANGED <<batches, lost, mode>>
    /\ \/ acked' = acked
       \/ \E t \in Ingesters : pc[t] # "idle" /\ acked' = acked \cup {batch[t]}

(* Every step is an admission, a restart, or one of those (Store::admit,   *)
(* open).                                                                  *)
LEMMA StepIs ==
    ASSUME PowerStays, [Next]_vars
    PROVE  \/ \E t \in Ingesters, ks \in (SUBSET Keys) \ {{}} : Admit(t, ks)
           \/ \E m \in Modes : Open(m)
           \/ Acknowledges
<1>1. CASE UNCHANGED vars \/ Sync
  BY <1>1 DEF vars, memory, thread, history, Sync, Acknowledges
<1>2. ASSUME NEW p \in Procs, CommitAck(p) \/ SkipSeal(p) \/ DrainNothing(p) \/ Reconcile(p)
      PROVE  Acknowledges
  <2>1. pc[p] # "idle" /\ UNCHANGED <<batches, lost, mode>>
    BY <1>2 DEF CommitAck, SkipSeal, DrainNothing, Reconcile, Committed, At, memory
  <2>2. acked' = acked \/ (p \in Ingesters /\ acked' = acked \cup {batch[p]})
    BY <1>2 DEF CommitAck, SkipSeal, DrainNothing, Reconcile, Acknowledge
  <2> QED
    BY <2>1, <2>2 DEF Acknowledges
<1>3. ASSUME NEW p \in Procs, CommitSeal(p) \/ CommitFails(p) \/ TakePermit(p) \/ Drain(p)
                              \/ WriteSegment(p) \/ Publish(p) \/ SealFails(p)
      PROVE  Acknowledges
  BY <1>3 DEF CommitSeal, CommitFails, TakePermit, Drain, WriteSegment, Publish, SealFails,
     memory, history, Acknowledges
<1>4. CASE AgeSeal \/ BeginCheckpoint \/ CheckpointStep \/ CurrentUnsynced \/ Kill
  BY <1>4 DEF AgeSeal, BeginCheckpoint, CheckpointStep, FoldPosition, WriteManifest,
     PublishCurrent, AdvanceEpoch, ReclaimFolded, SweepGenerations, CurrentUnsynced, Kill, Die,
     memory, history, Acknowledges
<1>5. ~Power
  BY DEF Power, Fault, PowerStays
<1>6. Ingesters \subseteq Procs
  BY DEF Procs
<1> QED
  BY <1>1, <1>2, <1>3, <1>4, <1>5, <1>6 DEF Next, IngestStep, SealStep

(* Every step keeps the store faithful.                                    *)
LEMMA FaithfulStep ==
    ASSUME PowerStays, Inv, Inv', PublishIsLast, Faithful, [Next]_vars
    PROVE  Faithful'
<1>1. ASSUME NEW t \in Ingesters, NEW ks \in (SUBSET Keys) \ {{}}, Admit(t, ks)
      PROVE  Faithful'
  BY <1>1, AdmitIsFaithful
<1>2. ASSUME NEW m \in Modes, Open(m) PROVE Faithful'
  BY <1>2, OpenIsFaithful
<1>3. ASSUME Acknowledges PROVE Faithful'
  <2>1. Counted'
    BY <1>3, CountedStays DEF Acknowledges, Faithful
  <2>2. CASE UNCHANGED vars \/ Sync
    <3>1. UNCHANGED <<stored, pc, drained>>
      BY <2>2 DEF vars, Sync, stored, disk, logFile, memory, list, thread, sealing, history
    <3> QED
      BY <2>1, <3>1, StillFaithful
  <2>3. ASSUME NEW t \in Ingesters, IngestStep(t) \/ CommitFails(t) PROVE Faithful'
    BY <2>1, <2>3, CallsAreFaithful DEF IngestStep
  <2>4. ASSUME NEW p \in Procs, SealStep(p) \/ SkipSeal(p) \/ SealFails(p) PROVE Faithful'
    BY <2>1, <2>4, SealsAreFaithful, DrainIsFaithful, WriteIsFaithful, PublishIsFaithful,
       ReconcileIsFaithful DEF SealStep
  <2>5. CASE AgeSeal \/ BeginCheckpoint \/ CheckpointStep \/ CurrentUnsynced
    BY <2>1, <2>5, CheckpointsAreFaithful, ReclaimFoldedIsFaithful DEF CheckpointStep
  <2>6. CASE Kill
    <3>1. UNCHANGED stored /\ pc' = [p \in Procs |-> "idle"]
      BY <2>6 DEF Kill, Die, stored, logFile, memory, list, history
    <3> QED
      BY <2>1, <3>1, StillFaithful
  <2>7. ~Power
    BY DEF Power, Fault, PowerStays
  <2> QED
    BY <1>1, <1>2, <2>2, <2>3, <2>4, <2>5, <2>6, <2>7 DEF Next
<1> QED
  BY <1>1, <1>2, <1>3, StepIs

----------------------------------------------------------------------------
(* The theorem.                                                            *)

(* What the store answers reads with, a restart under way or not.          *)
Answers == IF status = "up" THEN Visible ELSE Expected

(* Every step of the store is one of the promise, or changes nothing that  *)
(* the promise is about.                                                   *)
LEMMA StepIsPromised ==
    ASSUME PowerStays, Inv, Inv', Faithful, Faithful', ReadsWell, ReadsWell', [Next]_vars
    PROVE  [Promise!Next]_Promise!vars
<1>1. Answers = Newest(batches, lost) /\ Answers' = Newest(batches', lost')
  BY DEF Answers, Expected, ReadsWell
<1>2. \A a, g : Promise!Newest(a, g) = Newest(a, g)
  BY DEF Promise!Newest, Newest, Promise!Greatest, Greatest
<1>3. ASSUME NEW t \in Ingesters, NEW ks \in (SUBSET Keys) \ {{}}, Admit(t, ks)
      PROVE  Promise!Admit
  <2>1. batches' = Append(batches, ks) /\ UNCHANGED <<lost, acked, mode>>
    BY <1>3 DEF Admit
  <2> QED
    BY <1>1, <1>2, <2>1 DEF Promise!Admit, Answers
<1>4. ASSUME NEW m \in Modes, Open(m)
      PROVE  Promise!Crash
  <2>1. /\ UNCHANGED <<batches, acked, mode>>
        /\ \E n \in 0 .. Len(batches) : lost' = lost \cup (n + 1) .. Len(batches)
    BY <1>4, OpenIsFaithful
  <2>2. mode # "buffered" => lost' = {}
    BY <2>1 DEF Faithful, Counted
  <2> QED
    BY <1>1, <1>2, <2>1, <2>2 DEF Promise!Crash, Answers
<1>5. ASSUME Acknowledges
      PROVE  Promise!Acknowledge \/ UNCHANGED Promise!vars
  <2>1. UNCHANGED <<batches, lost, mode>> /\ Answers' = Answers
    BY <1>1, <1>5 DEF Acknowledges
  <2>2. CASE acked' = acked
    BY <2>1, <2>2 DEF Promise!vars, Answers
  <2>3. ASSUME NEW t \in Ingesters, pc[t] # "idle", acked' = acked \cup {batch[t]}
        PROVE  Promise!Acknowledge
    <3>1. batch[t] \in DOMAIN batches \ lost
      BY <2>3, Admissions DEF Faithful, Counted, Survives
    <3> QED
      BY <2>1, <2>3, <3>1 DEF Promise!Acknowledge, Answers
  <2> QED
    BY <1>5, <2>2, <2>3 DEF Acknowledges
<1> QED
  BY <1>3, <1>4, <1>5, StepIs DEF Promise!Next

(* A new store promises nothing yet.                                       *)
LEMMA PromiseInit == Init => Promise!Init
BY DEF Init, Promise!Init, Promise!Empty, Visible, Over, Resolve, Empty

(* In any mode, with processes killed and calls failing at any point of    *)
(* any seal or checkpoint, each key reads at every instant as its newest   *)
(* surviving version, what was acknowledged with a log survives, and a     *)
(* restart recovers exactly a prefix of the admissions (lib.rs admit,      *)
(* seal_with_permit, reconcile_after_publish, checkpoint_locked, open).    *)
THEOREM PromiseIsKept ==
    ASSUME PowerStays
    PROVE  Spec => KeepsPromise
<1>1. Init => PublishIsLast
  BY DEF Init, PublishIsLast
<1>2. Inv /\ PublishIsLast /\ Faithful /\ [Next]_vars => Inv' /\ PublishIsLast' /\ Faithful'
  BY InvStep, LastStep, FaithfulStep
<1>3. Inv /\ PublishIsLast /\ Faithful /\ ReadsWell /\ ReadsWell' /\ [Next]_vars
        => [Promise!Next]_Promise!vars
  BY <1>2, StepIsPromised
<1> QED
  BY <1>1, <1>2, <1>3, InvInit, FaithfulInit, FaithfulReads, PromiseInit, PTL
     DEF Spec, KeepsPromise, Promise!Spec
=============================================================================

---------------------------- MODULE ErasureProof ----------------------------
(***************************************************************************)
(* That an erasure of Erasure.tla takes its subject whole, nobody else's   *)
(* spans, and the payload files it owes: for any keys, bodies, ingesters   *)
(* and faults.                                                             *)
(***************************************************************************)
EXTENDS Erasure, TLAPS

\* What of the type invariant the proofs rest on.
Typed ==
    /\ files \subseteq SUBSET Version /\ log \subseteq Version
    /\ buffer \subseteq Version /\ drained \subseteq Version
    /\ admitting \in [Ingesters -> Version] /\ publishing \in [Ingesters -> Version]
    /\ acked \subseteq Version
    /\ tombstone \in Tombstone /\ record \in Tombstone
    /\ permit \in Erasers \cup {"sealer", Free}
    /\ pc \in [Erasers -> PC] /\ pass \in [Erasers -> {1, 2}]
    /\ refs \in [Erasers -> SUBSET Bodies] /\ doomed \in [Erasers -> SUBSET Bodies]
    /\ todo \in [Erasers -> SUBSET SUBSET Version]
    /\ admitted \in Nat /\ cut \in Nat /\ settledCut \in Nat

\* Every physical record there is, and what clients know of.
Everything == Stored \cup log \cup drained
Published == (acked \cup {publishing[t] : t \in Ingesters}) \ {Nobody}

\* Versions are numbered as they are admitted, and every set of numbers given out
\* has a largest.
Numbered ==
    /\ cut <= admitted /\ settledCut <= admitted
    /\ \A v \in Everything \cup Published : v.n <= admitted
    /\ \A v, w \in Everything : v.n = w.n => v = w
    /\ \A S \in SUBSET (0 .. admitted) : S # {} => \E m \in S : \A s \in S : s <= m

\* The permit is held by the seal that has drained, or by the eraser whose step
\* needs it; a list lasts as long as the step that works through it.
Permits ==
    /\ drained # {} => permit = "sealer"
    /\ \A p \in Erasers : /\ permit = p <=> pc[p] \in {"segments", "reclaim"}
                          /\ todo[p] \subseteq files /\ (todo[p] # {} => pc[p] = "segments")
                          /\ doomed[p] # {} => pc[p] = "unlink"

\* What memory and disk say of the erasure, and whether somebody works at it.
Recorded ==
    /\ record.state = "none" => /\ tombstone.state # "settled" /\ owed = {}
                                /\ \A p \in Erasers : pc[p] = "idle"
    /\ record.state # "none" => tombstone.state # "none" /\ tombstone.refs = record.refs
    /\ record.state = "settled" => tombstone.state = "settled"
    /\ tombstone.state = "none" => tombstone = NoRecord
    /\ settledCut # 0 => record.state = "settled"
    /\ host = "embedded" => \A p \in Erasers : pc[p] # "idle" =>
           Pending /\ \A q \in Erasers : q # p => pc[q] = "idle"

\* While it is pending nothing covered is admitted.
Barrier ==
    Pending => /\ \A t \in Ingesters : admitting[t] # Nobody => admitting[t].key \notin Covered
               /\ \A v \in Everything : v.key \in Covered => v.n <= cut

Clean(S) == \A v \in S : ~Erased(v)

\* The steps behind an eraser's first purge, and behind its sweep.
Purged(p) == \/ pc[p] \in {"sweep", "unlink", "veil", "confirm", "checkpoint", "reclaim", "settle"}
             \/ pass[p] = 2 /\ pc[p] \in {"purge", "segments"}
Swept(p) == Purged(p) /\ pc[p] \notin {"sweep", "unlink"}

\* What a purge has been through is clean, and stays so.
Cleansed ==
    /\ \A p \in Erasers :
          /\ pc[p] = "segments" => Clean(buffer) /\ \A f \in files : f \in todo[p] \/ Clean(f)
          /\ Purged(p) => Clean(Stored \cup drained)
          /\ pc[p] = "settle" => Clean(log)
    /\ tombstone.state = "settled" => Clean(Everything)

EraseInv == Typed /\ Numbered /\ Permits /\ Recorded /\ Barrier /\ Cleansed

\* What an erasure may not take: spans outside the subject, and new data.
Safe(v) == \/ v.key \notin Covered
           \/ host = "embedded" /\ settledCut > 0 /\ v.n > settledCut

Newer(S, v) == \E w \in S : w.key = v.key /\ w.n >= v.n

\* What a restart would read.
OnDisk == (UNION files) \cup log

\* It is stored, at its version or a newer one, and would be after a restart.
Kept == /\ \A v \in Published \cup log \cup drained : Safe(v) => Newer(Stored, v)
        /\ \A v \in Stored : Safe(v) => Newer(OnDisk, v)
        /\ Nobody \notin acked

\* A visible span outside the subject has its content, and no list to be unlinked
\* names it, but for admissions that race the unlinks.
Rightful(v) == \/ v.key \in Covered \/ v.n \in racing
               \/ /\ v.body \in payloads \cup {NoBody}
                  /\ \A p \in Erasers : v.body \notin doomed[p]

Shared == \A v \in NewestIn(Stored) : Rightful(v)

BufferIsLogged == buffer \subseteq NewestIn(log)

\* What an erasure owes it knows, or will note.
Noted == \/ owed \subseteq record.refs
         \/ /\ Pending /\ tombstone.state # "settled" /\ kind = "tenant"
            /\ \A p \in Erasers : pc[p] \in {"idle", "note"}
            /\ owed \subseteq record.refs \cup BodiesIn(CoveredIn(Stored))

\* And once a sweep has looked, it is on its list or spared.
Owed == /\ \A p \in Erasers :
              /\ pc[p] = "unlink" => owed \cap payloads \subseteq spared \cup doomed[p]
              /\ Swept(p) => owed \cap payloads \subseteq spared
        /\ OwedPayloadsAreGone

PayloadInv == Shared /\ BufferIsLogged /\ Noted /\ Owed
----------------------------------------------------------------------------
(* Facts about sets of versions.                                           *)

(* A version is a record whose number is a natural.                        *)
LEMMA VersionIs ==
    ASSUME NEW v \in Version
    PROVE  /\ v.key \in Keys \cup {Free} /\ v.body \in Bodies \cup {NoBody} /\ v.n \in Nat
BY DEF Version

(* Everything stored is a version, and what clients know of too.           *)
LEMMA AllVersions ==
    ASSUME Typed
    PROVE  Everything \subseteq Version /\ Stored \subseteq Version /\ Published \subseteq Version
<1>1. UNION files \subseteq Version
  BY DEF Typed
<1>2. \A t \in Ingesters : publishing[t] \in Version
  BY DEF Typed
<1>3. Published \subseteq Version
  BY <1>2 DEF Published, Typed
<1>4. Stored \subseteq Version
  BY <1>1 DEF Typed, Stored
<1> QED
  BY <1>3, <1>4 DEF Typed, Everything

(* Nobody, and an empty tombstone, are as typed.                           *)
LEMMA NobodyIs == Nobody \in Version /\ NoRecord \in Tombstone
BY DEF Nobody, NoRecord, Version, Tombstone

(* What is erased of a version does not change while the cuts do not.      *)
LEMMA ErasedStays ==
    ASSUME UNCHANGED cuts
    PROVE  \A v : Erased(v)' <=> Erased(v)
BY DEF Erased, cuts

(* The invariant holds of an empty store.                                  *)
LEMMA EraseInit == Init => EraseInv
<1> SUFFICES ASSUME Init PROVE EraseInv
  OBVIOUS
<1> USE DEF Init
<1>1. Typed
  BY NobodyIs, CoveredAssumption DEF Typed, PC, Erasers
<1>2. Everything = {} /\ Published = {}
  BY DEF Everything, Stored, Published
<1>3. Numbered
  <2>1. 0 .. admitted = {0}
    OBVIOUS
  <2>2. \A S \in SUBSET {0} : S # {} => \E m \in S : \A s \in S : s <= m
    <3> SUFFICES ASSUME NEW S \in SUBSET {0}, S # {}
                 PROVE  \E m \in S : \A s \in S : s <= m
      OBVIOUS
    <3>1. 0 \in S /\ \A s \in S : s = 0
      OBVIOUS
    <3> QED
      BY <3>1
  <2> QED
    BY <1>2, <2>1, <2>2 DEF Numbered
<1>4. Permits
  BY DEF Permits, Erasers, Free, Caller, Tick
<1>5. Recorded
  BY DEF Recorded, NoRecord, Pending
<1>6. Barrier
  BY DEF Barrier, Pending, NoRecord
<1>7. Cleansed
  BY <1>2 DEF Cleansed, Purged, NoRecord
<1> QED
  BY <1>1, <1>3, <1>4, <1>5, <1>6, <1>7 DEF EraseInv
----------------------------------------------------------------------------
(* Types.                                                                  *)

(* Selections of versions, and the bodies they carry.                      *)
LEMMA Selections ==
    ASSUME NEW S \in SUBSET Version
    PROVE  /\ CoveredIn(S) \subseteq S /\ NewestIn(S) \subseteq S
           /\ BodiesIn(S) \subseteq Bodies /\ BodiesIn(CoveredIn(S)) \subseteq Bodies
           /\ BodiesIn(CoveredIn(NewestIn(S))) \subseteq Bodies
BY DEF CoveredIn, NewestIn, BodiesIn, Version

(* The references a tombstone and a purge record are bodies.               *)
LEMMA ResolvedBodies ==
    ASSUME Typed
    PROVE  /\ Resolved \subseteq Bodies /\ BodiesIn(CoveredIn(Stored)) \subseteq Bodies
           /\ BodiesIn(CoveredIn(buffer)) \subseteq Bodies
           /\ \A f \in files : BodiesIn(CoveredIn(f)) \subseteq Bodies
<1>1. /\ Stored \in SUBSET Version /\ buffer \in SUBSET Version
      /\ \A f \in files : f \in SUBSET Version
  BY AllVersions DEF Typed
<1> QED
  BY <1>1, Selections DEF Resolved

(* What a step of one eraser does to its place.                            *)
LEMMA GotoIs ==
    ASSUME Typed, NEW p \in Erasers, NEW step \in PC, Goto(p, step)
    PROVE  /\ pc' \in [Erasers -> PC]
           /\ pc'[p] = step /\ \A q \in Erasers : q # p => pc'[q] = pc[q]
BY DEF Typed, Goto

(* Every step keeps the types.                                             *)
LEMMA TypedStep == Typed /\ [Next]_vars => Typed'
<1> SUFFICES ASSUME Typed, [Next]_vars PROVE Typed'
  OBVIOUS
<1> USE DEF Typed
<1>1. CASE UNCHANGED vars
  BY <1>1 DEF vars, disk, ingest, locks, job, counts, cuts
<1>2. ASSUME NEW t \in Ingesters, NEW k \in Keys, NEW c \in Bodies \cup {NoBody}, Offload(t, k, c)
      PROVE  Typed'
  <2>1. [key |-> k, body |-> c, n |-> 0] \in Version
    BY DEF Version
  <2> QED
    BY <1>2, <2>1 DEF Offload, locks, job, counts, cuts
<1>3. ASSUME NEW t \in Ingesters, Upsert(t) PROVE Typed'
  <2>1. [admitting[t] EXCEPT !.n = admitted + 1] \in Version
    BY DEF Version
  <2> QED
    BY <1>3, <2>1, NobodyIs DEF Upsert, locks, job, cuts
<1>4. ASSUME NEW t \in Ingesters, PublishTail(t) PROVE Typed'
  BY <1>4, NobodyIs DEF PublishTail, disk, locks, job, cuts
<1>5. CASE SealDrain
  BY <1>5 DEF SealDrain, disk, ingest, job, counts, cuts
<1>6. CASE SealPublish
  BY <1>6 DEF SealPublish, ingest, job, counts, cuts
<1>7. CASE Begin
  <2>1. [state |-> "pending", refs |-> Resolved] \in Tombstone
    BY ResolvedBodies DEF Tombstone
  <2>2. Caller \in Erasers /\ "note" \in PC
    BY DEF Erasers, PC
  <2>3. pc' \in [Erasers -> PC]
    BY <1>7, <2>2, GotoIs DEF Begin
  <2> QED
    BY <1>7, <2>1, <2>3 DEF Begin, ingest, locks, job, counts
<1>8. CASE BeginFails
  <2>1. [state |-> "pending", refs |-> Resolved] \in Tombstone
    BY ResolvedBodies DEF Tombstone
  <2> QED
    BY <1>8, <2>1 DEF BeginFails, ingest, locks, job, counts, cuts
<1>9. CASE Resume
  <2>1. pc' \in [Erasers -> PC]
    BY <1>9, GotoIs DEF Resume, Erasers, PC
  <2> QED
    BY <1>9, <2>1 DEF Resume, disk, ingest, locks, job, counts, cuts
<1>10. ASSUME NEW p \in Erasers, EraseStep(p) \/ EraseFails(p) PROVE Typed'
  <2>0. \A step \in PC : Goto(p, step) => pc' \in [Erasers -> PC]
    BY GotoIs
  <2>1. CASE NoteRefs(p)
    <3>1. \A r \in Tombstone, S \in SUBSET Bodies : [r EXCEPT !.refs = @ \cup S] \in Tombstone
      BY DEF Tombstone
    <3>2. record' \in Tombstone /\ tombstone' \in Tombstone
      BY <2>1, <3>1, ResolvedBodies DEF NoteRefs
    <3>3. pc' \in [Erasers -> PC]
      BY <2>0, <2>1 DEF NoteRefs, PC
    <3> QED
      BY <2>1, <3>2, <3>3 DEF NoteRefs, ingest, counts, cuts
  <2>2. CASE PurgeBuffer(p)
    <3>1. pc' \in [Erasers -> PC]
      BY <2>0, <2>2 DEF PurgeBuffer, PC
    <3>2. refs' \in [Erasers -> SUBSET Bodies] /\ todo' \in [Erasers -> SUBSET SUBSET Version]
      BY <2>2, ResolvedBodies DEF PurgeBuffer
    <3> QED
      BY <2>2, <3>1, <3>2 DEF PurgeBuffer, ingest, counts, cuts
  <2>3. CASE PurgeSegment(p)
    <3>1. PICK f \in todo[p] :
             /\ files' = (files \ {f}) \cup ({f \ CoveredIn(f)} \ {{}})
             /\ todo' = [todo EXCEPT ![p] = @ \ {f}]
             /\ refs' = [refs EXCEPT ![p] = @ \cup BodiesIn(CoveredIn(f))]
      BY <2>3 DEF PurgeSegment
    <3>2. f \in SUBSET Version
      OBVIOUS
    <3>3. BodiesIn(CoveredIn(f)) \subseteq Bodies
      BY <3>2, Selections
    <3>4. files' \subseteq SUBSET Version
      BY <3>1, <3>2
    <3> QED
      BY <2>3, <3>1, <3>3, <3>4 DEF PurgeSegment, ingest, locks, counts, cuts
  <2>4. CASE EndPurge(p)
    <3>1. pc' \in [Erasers -> PC]
      BY <2>0, <2>4 DEF EndPurge, PC
    <3> QED
      BY <2>4, <3>1 DEF EndPurge, disk, ingest, job, counts, cuts
  <2>5. CASE Sweep(p)
    <3>1. pc' \in [Erasers -> PC]
      BY <2>0, <2>5 DEF Sweep, PC
    <3>2. record.refs \subseteq Bodies
      BY DEF Tombstone
    <3> QED
      BY <2>5, <3>1, <3>2 DEF Sweep, Doomed, disk, ingest, locks, counts, cuts
  <2>6. CASE UnlinkPayload(p)
    BY <2>6 DEF UnlinkPayload, ingest, locks, counts, cuts
  <2>7. CASE EndSweep(p) \/ Veil(p) \/ Confirm(p)
    <3>1. pc' \in [Erasers -> PC]
      BY <2>0, <2>7 DEF EndSweep, Veil, Confirm, PC
    <3> QED
      BY <2>7, <3>1 DEF EndSweep, Veil, Confirm, disk, ingest, locks, job, counts, cuts
  <2>8. CASE Checkpoint(p) \/ Reclaim(p)
    <3>1. pc' \in [Erasers -> PC]
      BY <2>0, <2>8 DEF Checkpoint, Reclaim, PC
    <3> QED
      BY <2>8, <3>1 DEF Checkpoint, Reclaim, Reclaimed, ingest, job, counts, cuts
  <2>9. CASE Settle(p)
    <3>1. pc' \in [Erasers -> PC]
      BY <2>0, <2>9 DEF Settle, PC
    <3>2. record' \in Tombstone /\ tombstone' \in Tombstone
      BY <2>9 DEF Settle, Tombstone
    <3> QED
      BY <2>9, <3>1, <3>2 DEF Settle, ingest, locks, job, counts
  <2>10. CASE EraseFails(p)
    <3>1. pc' \in [Erasers -> PC]
      BY <2>0, <2>10 DEF EraseFails, PC
    <3>2. tombstone' \in Tombstone
      BY <2>10 DEF EraseFails, Tombstone
    <3> QED
      BY <2>10, <3>1, <3>2 DEF EraseFails, Released, ingest, counts, cuts
  <2> QED
    BY <1>10, <2>1, <2>2, <2>3, <2>4, <2>5, <2>6, <2>7, <2>8, <2>9, <2>10 DEF EraseStep
<1>11. CASE Restart
  <2>1. NewestIn(log) \subseteq Version
    BY Selections
  <2> QED
    BY <1>11, <2>1, NobodyIs DEF Restart, Clear, Reloaded, disk, counts, PC, Erasers
<1> QED
  BY <1>1, <1>2, <1>3, <1>4, <1>5, <1>6, <1>7, <1>8, <1>9, <1>10, <1>11 DEF Next
----------------------------------------------------------------------------
(* What there is.                                                          *)

(* A version is stored in a file or in the buffer.                         *)
LEMMA StoredIs ==
    /\ \A v : v \in Stored <=> v \in buffer \/ \E f \in files : v \in f
    /\ \A v : v \in Everything <=> v \in Stored \/ v \in log \/ v \in drained
    /\ \A v : v \in OnDisk <=> v \in log \/ \E f \in files : v \in f
BY DEF Stored, Everything, OnDisk

(* An admission adds its version, numbered last, and nothing else.         *)
LEMMA UpsertIs ==
    ASSUME Typed, NEW t \in Ingesters, Upsert(t)
    PROVE  LET v == [admitting[t] EXCEPT !.n = admitted + 1]
           IN  /\ v \in Version /\ v.n = admitted + 1
               /\ v.key = admitting[t].key /\ v.body = admitting[t].body
               /\ admitting[t] # Nobody /\ admitted' = admitted + 1
               /\ \A w \in Everything' : w \in Everything \/ w = v
               /\ \A w \in Published' : w \in Published \/ w = v
               /\ v \in buffer' /\ buffer' = {w \in buffer : w.key # v.key} \cup {v}
               /\ log' = log \cup {v} /\ files' = files /\ drained' = drained
<1> DEFINE v == [admitting[t] EXCEPT !.n = admitted + 1]
<1>1. v \in Version /\ v.n = admitted + 1 /\ v.key = admitting[t].key /\ v.body = admitting[t].body
  BY DEF Typed, Version
<1>2. /\ admitting[t] # Nobody /\ admitted' = admitted + 1
      /\ log' = log \cup {v} /\ files' = files /\ drained' = drained
      /\ buffer' = {w \in buffer : w.key # v.key} \cup {v}
      /\ publishing' = [publishing EXCEPT ![t] = v] /\ acked' = acked
  BY DEF Upsert
<1> HIDE DEF v
<1>3. \A w \in Everything' : w \in Everything \/ w = v
  BY <1>2 DEF Everything, Stored
<1>4. \A w \in Published' : w \in Published \/ w = v
  BY <1>2 DEF Published, Typed
<1> QED
  BY <1>1, <1>2, <1>3, <1>4 DEF v

\* What a step does that admits nothing and reloads nothing.
Shrinks ==
    /\ admitted' = admitted /\ Published' \subseteq Published
    /\ buffer' \subseteq buffer /\ log' \subseteq log \cup buffer
    /\ Stored' \cup drained' \subseteq Stored \cup drained

(* Every other step but a restart moves or removes versions (seal_step,    *)
(* purge_subject_locked, checkpoint).                                      *)
LEMMA NothingNew ==
    ASSUME Typed, Permits, [Next]_vars
    PROVE  (\E t \in Ingesters : Upsert(t)) \/ Restart \/ Shrinks
<1>1. ASSUME UNCHANGED <<files, buffer, drained>>
      PROVE  Stored' = Stored
  BY <1>1 DEF Stored
<1>2. ASSUME UNCHANGED <<acked, publishing>>
      PROVE  Published' = Published
  BY <1>2 DEF Published
<1>3. CASE UNCHANGED vars
  BY <1>1, <1>2, <1>3 DEF Shrinks, vars, disk, ingest, counts
<1>4. ASSUME NEW t \in Ingesters, NEW k \in Keys, NEW c \in Bodies \cup {NoBody}, Offload(t, k, c)
      PROVE  Shrinks
  BY <1>1, <1>2, <1>4 DEF Shrinks, Offload, counts
<1>5. ASSUME NEW t \in Ingesters, PublishTail(t) PROVE Shrinks
  <2>1. Published' \subseteq Published
    BY <1>5 DEF PublishTail, Published, Typed
  <2> QED
    BY <1>1, <1>5, <2>1 DEF Shrinks, PublishTail, disk
<1>6. CASE SealDrain \/ SealPublish
  <2>1. acked' = acked /\ publishing' = publishing /\ admitted' = admitted
    BY <1>6 DEF SealDrain, SealPublish, counts, ingest
  <2>2. CASE SealDrain
    BY <1>2, <2>1, <2>2 DEF Shrinks, SealDrain, Stored, disk
  <2>3. CASE SealPublish
    <3>1. /\ files' = files \cup {drained} /\ buffer' = buffer \ drained /\ drained' = {}
          /\ log' = buffer' \/ log' = log
      BY <2>3 DEF SealPublish
    <3>2. UNION files' = (UNION files) \cup drained
      BY <3>1
    <3> QED
      BY <1>2, <2>1, <3>1, <3>2 DEF Shrinks, Stored
  <2> QED
    BY <1>6, <2>2, <2>3
<1>7. CASE Begin \/ BeginFails \/ Resume
  BY <1>1, <1>2, <1>7 DEF Shrinks, Begin, BeginFails, Resume, disk, ingest, counts
<1>8. ASSUME NEW p \in Erasers, EraseStep(p) \/ EraseFails(p) PROVE Shrinks
  <2>1. acked' = acked /\ publishing' = publishing /\ admitted' = admitted /\ drained' = drained
    BY <1>8 DEF EraseStep, EraseFails, NoteRefs, PurgeBuffer, PurgeSegment, EndPurge, Sweep,
       UnlinkPayload, EndSweep, Veil, Confirm, Checkpoint, Reclaim, Settle, ingest, counts
  <2>2. CASE PurgeBuffer(p)
    BY <1>2, <2>1, <2>2 DEF Shrinks, PurgeBuffer, Stored
  <2>3. CASE PurgeSegment(p)
    <3>1. PICK f \in todo[p] : files' = (files \ {f}) \cup ({f \ CoveredIn(f)} \ {{}})
      BY <2>3 DEF PurgeSegment
    <3>2. log' = log /\ buffer' = buffer
      BY <2>3 DEF PurgeSegment
    <3>3. f \in files
      BY <3>1 DEF Permits
    <3>4. \A g \in files' : g \in files \/ g \subseteq f
      BY <3>1
    <3>5. \A v \in UNION files' : v \in UNION files
      BY <3>3, <3>4
    <3> QED
      BY <1>2, <2>1, <3>2, <3>5 DEF Shrinks, Stored
  <2>4. CASE Checkpoint(p)
    <3>1. files' = files \cup ({buffer} \ {{}}) /\ buffer' = {} /\ log' = log
      BY <2>4 DEF Checkpoint
    <3>2. UNION files' = (UNION files) \cup buffer
      BY <3>1
    <3> QED
      BY <1>2, <2>1, <3>1, <3>2 DEF Shrinks, Stored
  <2>5. CASE Reclaim(p)
    BY <1>2, <2>1, <2>5 DEF Shrinks, Reclaim, Reclaimed, Stored
  <2>6. CASE \/ NoteRefs(p) \/ EndPurge(p) \/ Sweep(p) \/ UnlinkPayload(p) \/ EndSweep(p)
             \/ Veil(p) \/ Confirm(p) \/ Settle(p) \/ EraseFails(p)
    BY <1>1, <1>2, <2>1, <2>6 DEF Shrinks, EraseFails, NoteRefs, EndPurge, Sweep, UnlinkPayload,
       EndSweep, Veil, Confirm, Settle, disk
  <2> QED
    BY <1>8, <2>2, <2>3, <2>4, <2>5, <2>6 DEF EraseStep
<1> QED
  BY <1>3, <1>4, <1>5, <1>6, <1>7, <1>8 DEF Next

(* A restart reads the log over the segments (Store::open).                *)
LEMMA RestartIs ==
    ASSUME Restart
    PROVE  /\ files' = files /\ log' = log /\ drained' = {}
           /\ buffer' = NewestIn(log) /\ buffer' \subseteq log
           /\ Published' \subseteq Published /\ admitted' = admitted
           /\ Everything' \subseteq Everything
<1>1. /\ files' = files /\ log' = log /\ drained' = {}
      /\ buffer' = NewestIn(log) /\ buffer' \subseteq log
      /\ acked' = acked /\ admitted' = admitted
      /\ publishing' = [t \in Ingesters |-> Nobody]
  BY DEF Restart, disk, counts, NewestIn
<1>2. Published' \subseteq Published
  BY <1>1 DEF Published
<1>3. Everything' \subseteq Everything
  BY <1>1 DEF Everything, Stored
<1> QED
  BY <1>1, <1>2, <1>3

(* So whatever there is was there, or was just admitted.                   *)
LEMMA NothingElse ==
    ASSUME Typed, Permits, [Next]_vars
    PROVE  \/ \E t \in Ingesters : Upsert(t)
           \/ /\ admitted' = admitted
              /\ Everything' \subseteq Everything /\ Published' \subseteq Published
<1>1. ASSUME Shrinks PROVE Everything' \subseteq Everything
  BY <1>1 DEF Shrinks, Everything, Stored
<1> QED
  BY <1>1, NothingNew, RestartIs DEF Shrinks

(* The cuts are drawn at what has been admitted.                           *)
LEMMA CutsAre ==
    ASSUME [Next]_vars
    PROVE  /\ cut' = cut \/ cut' = admitted
           /\ settledCut' = settledCut \/ settledCut' = admitted
<1>1. ASSUME NEW p \in Erasers, EraseStep(p) \/ EraseFails(p)
      PROVE  cut' = cut /\ (settledCut' = settledCut \/ settledCut' = admitted)
  BY <1>1 DEF cuts, EraseStep, EraseFails, NoteRefs, PurgeBuffer, PurgeSegment, EndPurge, Sweep,
     UnlinkPayload, EndSweep, Veil, Confirm, Checkpoint, Reclaim, Settle
<1> QED
  BY <1>1 DEF Next, vars, cuts, Offload, Upsert, PublishTail, SealDrain, SealPublish, Begin,
     BeginFails, Resume, Restart

(* So every step numbers what there is.                                    *)
LEMMA NumberedStep == Typed /\ Permits /\ Numbered /\ [Next]_vars => Numbered'
<1> SUFFICES ASSUME Typed, Permits, Numbered, [Next]_vars PROVE Numbered'
  OBVIOUS
<1>1. /\ admitted \in Nat /\ cut \in Nat /\ settledCut \in Nat
      /\ \A v \in Everything \cup Published : v \in Version /\ v.n \in Nat
  BY AllVersions DEF Typed, Version
<1>2. CASE \E t \in Ingesters : Upsert(t)
  <2>1. PICK t \in Ingesters : Upsert(t)
    BY <1>2
  <2>2. PICK v : /\ v.n = admitted + 1
                 /\ \A w \in Everything' : w \in Everything \/ w = v
                 /\ \A w \in Published' : w \in Published \/ w = v
    BY <2>1, UpsertIs
  <2>3. admitted' = admitted + 1 /\ UNCHANGED cuts
    BY <2>1 DEF Upsert
  <2>4. cut' <= admitted' /\ settledCut' <= admitted'
    BY <1>1, <2>3 DEF Numbered, cuts
  <2>5. \A w \in Everything' \cup Published' : w.n <= admitted'
    BY <1>1, <2>2, <2>3 DEF Numbered
  <2>6. \A u, w \in Everything' : u.n = w.n => u = w
    BY <1>1, <2>2 DEF Numbered
  <2>7. ASSUME NEW S \in SUBSET (0 .. admitted'), S # {}
        PROVE  \E m \in S : \A s \in S : s <= m
    <3>1. \A s \in S : s \in Nat /\ s <= admitted + 1 /\ (s \in 0 .. admitted \/ s = admitted + 1)
      BY <1>1, <2>3
    <3>2. CASE admitted + 1 \in S
      BY <3>1, <3>2
    <3>3. CASE admitted + 1 \notin S
      <4>1. S \in SUBSET (0 .. admitted)
        BY <3>1, <3>3
      <4> QED
        BY <2>7, <4>1 DEF Numbered
    <3> QED
      BY <3>2, <3>3
  <2> QED
    BY <2>4, <2>5, <2>6, <2>7 DEF Numbered
<1>3. CASE /\ admitted' = admitted
           /\ Everything' \subseteq Everything /\ Published' \subseteq Published
  <2>1. cut' <= admitted' /\ settledCut' <= admitted'
    BY <1>1, <1>3, CutsAre DEF Numbered
  <2> QED
    BY <1>3, <2>1 DEF Numbered
<1> QED
  BY <1>2, <1>3, NothingElse
----------------------------------------------------------------------------
(* Who works, and with which permit.                                       *)

(* A step of one eraser that neither takes nor drops the permit.           *)
LEMMA QuietPermits ==
    ASSUME Typed, Permits, NEW p \in Erasers, NEW step \in PC \ {"segments", "reclaim"},
           Goto(p, step), pc[p] \notin {"segments", "reclaim"},
           UNCHANGED <<permit, drained, todo>>, \A f \in files : f \in files',
           \A q \in Erasers : doomed'[q] # {} => pc'[q] = "unlink"
    PROVE  Permits'
<1>1. pc'[p] = step /\ \A q \in Erasers : q # p => pc'[q] = pc[q]
  BY GotoIs
<1> QED
  BY <1>1 DEF Permits

(* A step that leaves the erasers where they are.                          *)
LEMMA StillPermits ==
    ASSUME Permits, UNCHANGED <<pc, todo, doomed>>, \A f \in files : f \in files',
           \/ UNCHANGED <<permit, drained>>
           \/ permit = Free /\ permit' = "sealer"
           \/ permit = "sealer" /\ permit' = Free /\ drained' = {}
    PROVE  Permits'
BY DEF Permits, Erasers, Caller, Tick, Free

(* Every step hands the permit on as it should (Store::seal_permit).       *)
LEMMA PermitsStep == Typed /\ Permits /\ [Next]_vars => Permits'
<1> SUFFICES ASSUME Typed, Permits, [Next]_vars PROVE Permits'
  OBVIOUS
<1>0. /\ Caller \in Erasers /\ Tick \in Erasers
      /\ \A p \in Erasers : p # Free /\ p # "sealer"
      /\ {"note", "purge", "sweep", "unlink", "veil", "confirm", "checkpoint", "settle", "idle"}
             \subseteq PC \ {"segments", "reclaim"}
      /\ {"segments", "reclaim"} \subseteq PC
  BY DEF Erasers, Caller, Tick, Free, PC
<1>1. CASE UNCHANGED vars
  BY <1>1, StillPermits DEF vars, disk, job, locks
<1>2. ASSUME NEW t \in Ingesters,
             \/ \E k \in Keys, c \in Bodies \cup {NoBody} : Offload(t, k, c)
             \/ Upsert(t) \/ PublishTail(t)
      PROVE  Permits'
  BY <1>2, StillPermits DEF Offload, Upsert, PublishTail, disk, job, locks
<1>3. CASE SealDrain \/ SealPublish
  BY <1>3, StillPermits DEF SealDrain, SealPublish, disk, job
<1>4. CASE Begin \/ Resume
  <2>1. PICK p \in Erasers : pc[p] = "idle" /\ Goto(p, "note")
    BY <1>0, <1>4 DEF Begin, Resume
  <2>2. UNCHANGED <<permit, drained, todo, doomed, files>>
    BY <1>4 DEF Begin, Resume, disk, locks, job
  <2>3. \A q \in Erasers : doomed'[q] # {} => pc'[q] = "unlink"
    BY <1>0, <2>1, <2>2, GotoIs DEF Permits
  <2> QED
    BY <1>0, <2>1, <2>2, <2>3, QuietPermits
<1>5. CASE BeginFails
  BY <1>5, StillPermits DEF BeginFails, locks, job
<1>6. ASSUME NEW p \in Erasers, \/ NoteRefs(p) \/ EndSweep(p) \/ Veil(p) \/ Confirm(p)
                                \/ Settle(p) \/ Sweep(p)
      PROVE  Permits'
  <2>1. PICK step \in PC \ {"segments", "reclaim"} : Goto(p, step) /\ (step = "unlink" <=> Sweep(p))
    BY <1>0, <1>6 DEF NoteRefs, EndSweep, Veil, Confirm, Settle, Sweep
  <2>2. /\ pc[p] \notin {"segments", "reclaim"}
        /\ UNCHANGED <<permit, drained, todo, files>>
        /\ \A q \in Erasers : q # p => doomed'[q] = doomed[q]
        /\ Sweep(p) \/ (doomed' = doomed /\ doomed[p] = {})
    BY <1>6 DEF NoteRefs, EndSweep, Veil, Confirm, Settle, Sweep, disk, locks, job, Typed, Permits
  <2>3. pc'[p] = step /\ \A q \in Erasers : q # p => pc'[q] = pc[q]
    BY <2>1, GotoIs
  <2>4. \A q \in Erasers : doomed'[q] # {} => pc'[q] = "unlink"
    BY <2>1, <2>2, <2>3 DEF Permits
  <2> QED
    BY <2>1, <2>2, <2>4, QuietPermits
<1>7. ASSUME NEW p \in Erasers, PurgeBuffer(p) PROVE Permits'
  <2>1. /\ permit = Free /\ permit' = p /\ pc[p] = "purge" /\ Goto(p, "segments")
        /\ UNCHANGED <<files, drained, doomed>>
        /\ todo' = [todo EXCEPT ![p] = {f \in files : CoveredIn(f) # {}}]
    BY <1>7 DEF PurgeBuffer
  <2>2. pc'[p] = "segments" /\ \A q \in Erasers : q # p => pc'[q] = pc[q]
    BY <1>0, <2>1, GotoIs
  <2>3. todo'[p] \subseteq files /\ \A q \in Erasers : q # p => todo'[q] = todo[q]
    BY <2>1 DEF Typed
  <2>4. drained' = {} /\ \A q \in Erasers : pc[q] \notin {"segments", "reclaim"}
    BY <1>0, <2>1 DEF Permits, Free
  <2>5. \A q \in Erasers : permit' = q <=> pc'[q] \in {"segments", "reclaim"}
    BY <2>1, <2>2, <2>4
  <2>6. \A q \in Erasers : todo'[q] \subseteq files' /\ (todo'[q] # {} => pc'[q] = "segments")
    BY <2>1, <2>2, <2>3 DEF Permits
  <2>7. \A q \in Erasers : doomed'[q] # {} => pc'[q] = "unlink"
    BY <2>1, <2>2 DEF Permits
  <2> QED
    BY <2>4, <2>5, <2>6, <2>7 DEF Permits
<1>8. ASSUME NEW p \in Erasers, PurgeSegment(p) PROVE Permits'
  <2>1. PICK f \in todo[p] : /\ files' = (files \ {f}) \cup ({f \ CoveredIn(f)} \ {{}})
                             /\ todo' = [todo EXCEPT ![p] = @ \ {f}]
    BY <1>8 DEF PurgeSegment
  <2>2. pc[p] = "segments" /\ UNCHANGED <<pc, permit, drained, doomed>>
    BY <1>8 DEF PurgeSegment, locks
  <2>3. \A q \in Erasers : q # p => todo[q] = {} /\ todo'[q] = {}
    BY <2>1, <2>2 DEF Permits, Typed
  <2>4. todo'[p] = todo[p] \ {f}
    BY <2>1 DEF Typed
  <2>5. todo'[p] \subseteq files'
    BY <2>1, <2>4 DEF Permits
  <2> QED
    BY <2>2, <2>3, <2>4, <2>5 DEF Permits
<1>9. ASSUME NEW p \in Erasers, EndPurge(p) PROVE Permits'
  <2>1. /\ permit' = Free /\ pc[p] = "segments" /\ todo[p] = {}
        /\ UNCHANGED <<files, drained, todo, doomed>>
        /\ Goto(p, "sweep") \/ Goto(p, "veil")
    BY <1>9 DEF EndPurge, disk, job
  <2>2. /\ pc'[p] \in {"sweep", "veil"}
        /\ \A q \in Erasers : q # p => pc'[q] = pc[q]
    BY <1>0, <2>1, GotoIs
  <2>3. permit = p /\ drained = {}
    BY <1>0, <2>1 DEF Permits
  <2>4. \A q \in Erasers : q # p => pc[q] \notin {"segments", "reclaim"}
    BY <2>3 DEF Permits
  <2>5. drained' = {} /\ \A q \in Erasers : permit' # q
    BY <1>0, <2>1, <2>3
  <2>6. \A q \in Erasers : pc'[q] \notin {"segments", "reclaim"} /\ todo'[q] = {}
    BY <2>1, <2>2, <2>4 DEF Permits
  <2>7. \A q \in Erasers : doomed'[q] # {} => pc'[q] = "unlink"
    BY <2>1, <2>2 DEF Permits
  <2> QED
    BY <2>5, <2>6, <2>7 DEF Permits
<1>10. ASSUME NEW p \in Erasers, UnlinkPayload(p) PROVE Permits'
  <2>1. UNCHANGED <<pc, todo, files, permit, drained>> /\ pc[p] = "unlink"
    BY <1>10 DEF UnlinkPayload, locks
  <2>2. \A q \in Erasers : q # p => doomed'[q] = doomed[q]
    BY <1>10 DEF UnlinkPayload, Typed
  <2> QED
    BY <2>1, <2>2 DEF Permits
<1>11. ASSUME NEW p \in Erasers, Checkpoint(p) PROVE Permits'
  <2>1. /\ permit = Free /\ permit' = p /\ pc[p] = "checkpoint" /\ Goto(p, "reclaim")
        /\ UNCHANGED <<drained, doomed, todo>> /\ \A f \in files : f \in files'
    BY <1>11 DEF Checkpoint, job
  <2>2. pc'[p] = "reclaim" /\ \A q \in Erasers : q # p => pc'[q] = pc[q]
    BY <1>0, <2>1, GotoIs
  <2>3. drained' = {} /\ \A q \in Erasers : pc[q] \notin {"segments", "reclaim"}
    BY <1>0, <2>1 DEF Permits, Free
  <2>4. \A q \in Erasers : permit' = q <=> pc'[q] \in {"segments", "reclaim"}
    BY <2>1, <2>2, <2>3
  <2>5. \A q \in Erasers : todo'[q] \subseteq files' /\ (todo'[q] # {} => pc'[q] = "segments")
    BY <2>1, <2>2 DEF Permits
  <2>6. \A q \in Erasers : doomed'[q] # {} => pc'[q] = "unlink"
    BY <2>1, <2>2 DEF Permits
  <2> QED
    BY <2>3, <2>4, <2>5, <2>6 DEF Permits
<1>12. ASSUME NEW p \in Erasers, Reclaim(p) PROVE Permits'
  <2>1. /\ permit' = Free /\ pc[p] = "reclaim" /\ Goto(p, "settle")
        /\ UNCHANGED <<files, drained, doomed, todo>>
    BY <1>12 DEF Reclaim, job
  <2>2. pc'[p] = "settle" /\ \A q \in Erasers : q # p => pc'[q] = pc[q]
    BY <1>0, <2>1, GotoIs
  <2>3. permit = p /\ drained = {}
    BY <1>0, <2>1 DEF Permits
  <2>4. \A q \in Erasers : q # p => pc[q] \notin {"segments", "reclaim"}
    BY <2>3 DEF Permits
  <2>5. drained' = {} /\ \A q \in Erasers : permit' # q
    BY <1>0, <2>1, <2>3
  <2>6. \A q \in Erasers : pc'[q] \notin {"segments", "reclaim"} /\ todo'[q] = {}
    BY <2>1, <2>2, <2>4 DEF Permits
  <2>7. \A q \in Erasers : doomed'[q] # {} => pc'[q] = "unlink"
    BY <2>1, <2>2 DEF Permits
  <2> QED
    BY <2>5, <2>6, <2>7 DEF Permits
<1>13. ASSUME NEW p \in Erasers, EraseFails(p) PROVE Permits'
  <2>1. /\ Goto(p, "idle") /\ UNCHANGED <<files, drained>>
        /\ permit' = IF permit = p THEN Free ELSE permit
        /\ todo' = [todo EXCEPT ![p] = {}] /\ doomed' = [doomed EXCEPT ![p] = {}]
    BY <1>13 DEF EraseFails, Released
  <2>2. pc'[p] = "idle" /\ \A q \in Erasers : q # p => pc'[q] = pc[q]
    BY <1>0, <2>1, GotoIs
  <2>3. /\ todo'[p] = {} /\ doomed'[p] = {}
        /\ \A q \in Erasers : q # p => todo'[q] = todo[q] /\ doomed'[q] = doomed[q]
    BY <2>1 DEF Typed
  <2> QED
    BY <1>0, <2>1, <2>2, <2>3 DEF Permits
<1>14. CASE Restart
  BY <1>0, <1>14 DEF Restart, Clear, Permits, disk
<1>15. ASSUME NEW p \in Erasers, EraseStep(p) PROVE Permits'
  BY <1>15, <1>6, <1>7, <1>8, <1>9, <1>10, <1>11, <1>12 DEF EraseStep
<1> QED
  BY <1>1, <1>2, <1>3, <1>4, <1>5, <1>13, <1>14, <1>15 DEF Next

(* Every step records what the erasure has come to (ErasureLog::begin,     *)
(* note_payload_refs, settle, open).                                       *)
LEMMA RecordedStep == Typed /\ Recorded /\ [Next]_vars => Recorded'
<1> SUFFICES ASSUME Typed, Recorded, [Next]_vars PROVE Recorded'
  OBVIOUS
<1>0. /\ Caller \in Erasers /\ Tick \in Erasers /\ Caller # Tick
      /\ \A p \in Erasers : p = Caller \/ p = Tick
      /\ \A p \in Erasers, step \in PC : Goto(p, step) =>
             pc'[p] = step /\ \A q \in Erasers : q # p => pc'[q] = pc[q]
      /\ {"note", "purge", "segments", "sweep", "unlink", "veil", "confirm", "checkpoint",
          "reclaim", "settle", "idle"} \subseteq PC
  BY GotoIs DEF Erasers, Caller, Tick, PC
<1>1. ASSUME UNCHANGED <<record, tombstone, settledCut, host, owed, pc>>
      PROVE  Recorded'
  BY <1>1 DEF Recorded, Pending
<1>2. ASSUME NEW p \in Erasers, pc[p] # "idle", NEW step \in PC, Goto(p, step),
             UNCHANGED <<record, tombstone, settledCut, host, owed>>
      PROVE  Recorded'
  BY <1>0, <1>2 DEF Recorded, Pending
<1>3. CASE UNCHANGED vars
  BY <1>1, <1>3 DEF vars, choices, disk, cuts, bodies
<1>4. ASSUME NEW t \in Ingesters,
             \/ \E k \in Keys, c \in Bodies \cup {NoBody} : Offload(t, k, c)
             \/ Upsert(t) \/ PublishTail(t)
      PROVE  Recorded'
  BY <1>1, <1>4 DEF Offload, Upsert, PublishTail, choices, disk, cuts, bodies
<1>5. CASE SealDrain \/ SealPublish
  BY <1>1, <1>5 DEF SealDrain, SealPublish, choices, disk, cuts, bodies
<1>6. CASE Begin
  <2>1. /\ record.state = "none" /\ record' = [state |-> "pending", refs |-> Resolved]
        /\ tombstone' = record' /\ UNCHANGED <<settledCut, host>> /\ Goto(Caller, "note")
    BY <1>6 DEF Begin, choices
  <2> QED
    BY <1>0, <2>1 DEF Recorded, Pending
<1>7. CASE BeginFails
  <2>1. record.state = "none" /\ UNCHANGED <<record, settledCut, host, owed, pc>>
    BY <1>7 DEF BeginFails, choices, cuts, bodies
  <2>2. tombstone' = tombstone \/ tombstone' = [state |-> "pending", refs |-> Resolved]
    BY <1>7 DEF BeginFails
  <2> QED
    BY <2>1, <2>2 DEF Recorded, Pending
<1>8. CASE Resume
  <2>1. /\ record.state = "pending" /\ pc[Tick] = "idle" /\ Goto(Tick, "note")
        /\ host = "server" \/ pc[Caller] = "idle"
        /\ UNCHANGED <<record, tombstone, settledCut, host, owed>>
    BY <1>8 DEF Resume, Pending, choices, disk, cuts, bodies
  <2> QED
    BY <1>0, <2>1 DEF Recorded, Pending
<1>9. ASSUME NEW p \in Erasers, NoteRefs(p) PROVE Recorded'
  <2>1. /\ pc[p] = "note" /\ Goto(p, "purge") /\ UNCHANGED <<settledCut, host, owed>>
        /\ \E noted : /\ record' = [record EXCEPT !.refs = @ \cup noted]
                      /\ tombstone' = [tombstone EXCEPT !.refs = @ \cup noted]
    BY <1>9 DEF NoteRefs, choices, cuts, bodies
  <2>2. /\ record'.state = record.state /\ tombstone'.state = tombstone.state
        /\ tombstone.refs = record.refs => tombstone'.refs = record'.refs
    BY <2>1 DEF Typed, Tombstone
  <2> QED
    BY <1>0, <2>1, <2>2 DEF Recorded, Pending
<1>10. ASSUME NEW p \in Erasers, PurgeBuffer(p) \/ EndPurge(p) \/ Sweep(p) \/ EndSweep(p) \/ Veil(p)
                                 \/ Confirm(p) \/ Checkpoint(p) \/ Reclaim(p)
       PROVE  Recorded'
  <2>1. pc[p] # "idle" /\ UNCHANGED <<record, tombstone, settledCut, host, owed>>
    BY <1>10 DEF PurgeBuffer, EndPurge, Sweep, EndSweep, Veil, Confirm, Checkpoint, Reclaim,
       choices, disk, cuts, bodies
  <2>2. \E step \in PC : Goto(p, step)
    BY <1>0, <1>10 DEF PurgeBuffer, EndPurge, Sweep, EndSweep, Veil, Confirm, Checkpoint, Reclaim
  <2> QED
    BY <1>2, <2>1, <2>2
<1>11. ASSUME NEW p \in Erasers, PurgeSegment(p) \/ UnlinkPayload(p) PROVE Recorded'
  BY <1>1, <1>11 DEF PurgeSegment, UnlinkPayload, choices, cuts, bodies
<1>12. ASSUME NEW p \in Erasers, Settle(p) PROVE Recorded'
  <2>1. /\ pc[p] = "settle" /\ Goto(p, "idle") /\ UNCHANGED <<host, owed>>
        /\ record'.state = "settled" /\ tombstone'.state = "settled"
        /\ record'.refs = record.refs /\ tombstone'.refs = tombstone.refs
    BY <1>12 DEF Settle, choices, bodies, Typed, Tombstone
  <2>2. host = "embedded" => \A q \in Erasers : pc'[q] = "idle"
    BY <1>0, <2>1 DEF Recorded
  <2> QED
    BY <2>1, <2>2, <1>0 DEF Recorded, Pending
<1>13. ASSUME NEW p \in Erasers, EraseFails(p) PROVE Recorded'
  <2>1. /\ pc[p] # "idle" /\ Goto(p, "idle") /\ UNCHANGED <<record, settledCut, host, owed>>
        /\ tombstone' = tombstone \/ tombstone' = [tombstone EXCEPT !.state = "settled"]
    BY <1>13 DEF EraseFails, choices, cuts, bodies
  <2>2. record.state # "none"
    BY <2>1 DEF Recorded
  <2>3. /\ tombstone'.refs = tombstone.refs
        /\ tombstone'.state = tombstone.state \/ tombstone'.state = "settled"
    BY <2>1 DEF Typed, Tombstone
  <2> QED
    BY <1>0, <2>1, <2>2, <2>3 DEF Recorded, Pending
<1>14. CASE Restart
  <2>1. /\ record' = tombstone /\ tombstone' = tombstone /\ UNCHANGED <<host, owed>>
        /\ pc' = [p \in Erasers |-> "idle"]
        /\ settledCut' = IF Pending /\ tombstone.state = "settled" THEN admitted ELSE settledCut
    BY <1>14 DEF Restart, Reloaded, choices, disk, bodies
  <2>2. settledCut' # 0 => tombstone.state = "settled"
    BY <2>1 DEF Recorded
  <2> QED
    BY <2>1, <2>2 DEF Recorded, Pending, NoRecord
<1>15. ASSUME NEW p \in Erasers, EraseStep(p) PROVE Recorded'
  BY <1>15, <1>9, <1>10, <1>11, <1>12 DEF EraseStep
<1> QED
  BY <1>3, <1>4, <1>5, <1>6, <1>7, <1>8, <1>13, <1>14, <1>15 DEF Next
----------------------------------------------------------------------------
(* The barrier, and what lies behind a purge.                              *)

(* An erasure becomes pending at its begin or at a restart, behind         *)
(* whatever was admitted (Store::erase, the write half of the gate).       *)
LEMMA PendingIs ==
    ASSUME Typed, Recorded, [Next]_vars, Pending'
    PROVE  Pending \/ (cut' = admitted /\ \A t \in Ingesters : admitting'[t] = Nobody)
<1>1. CASE record' = record
  BY <1>1 DEF Pending
<1>2. CASE Begin
  BY <1>2 DEF Begin, GateFree, ingest
<1>3. ASSUME NEW p \in Erasers, NoteRefs(p) PROVE Pending
  <2>1. \E noted : record' = [record EXCEPT !.refs = @ \cup noted]
    BY <1>3 DEF NoteRefs
  <2>2. record'.state = record.state
    BY <2>1 DEF Typed, Tombstone
  <2> QED
    BY <2>2 DEF Pending
<1>4. ASSUME NEW p \in Erasers, Settle(p) PROVE FALSE
  BY <1>4 DEF Settle, Pending, Typed, Tombstone
<1>5. CASE Restart
  <2>1. /\ record' = tombstone /\ \A t \in Ingesters : admitting'[t] = Nobody
        /\ cut' = IF record.state = "none" /\ tombstone # NoRecord THEN admitted ELSE cut
    BY <1>5 DEF Restart, Reloaded
  <2>2. tombstone.state = "pending" /\ tombstone # NoRecord
    BY <2>1 DEF Pending, NoRecord
  <2>3. record.state = "none" \/ Pending
    BY <2>2 DEF Recorded, Pending, Typed, Tombstone
  <2> QED
    BY <2>1, <2>2, <2>3
<1>6. \/ record' = record \/ Begin \/ Restart
      \/ \E p \in Erasers : NoteRefs(p) \/ Settle(p)
  BY DEF Next, vars, Offload, Upsert, PublishTail, SealDrain, SealPublish, BeginFails, Resume,
     EraseStep, EraseFails, PurgeBuffer, PurgeSegment, EndPurge, Sweep, UnlinkPayload, EndSweep,
     Veil, Confirm, Checkpoint, Reclaim
<1> QED
  BY <1>1, <1>2, <1>3, <1>4, <1>5, <1>6

(* Whoever holds the gate has asked the mask (Store::admit).               *)
LEMMA AdmittingIs ==
    ASSUME Typed, [Next]_vars, NEW t \in Ingesters, admitting'[t] # Nobody, Pending,
           admitting[t] # Nobody => admitting[t].key \notin Covered
    PROVE  admitting'[t].key \notin Covered
<1>1. CASE admitting' = admitting
  BY <1>1
<1>2. ASSUME NEW u \in Ingesters, NEW k \in Keys, NEW c \in Bodies \cup {NoBody}, Offload(u, k, c)
      PROVE  admitting'[t].key \notin Covered
  <2>1. k \notin Covered /\ admitting' = [admitting EXCEPT ![u] = [key |-> k, body |-> c, n |-> 0]]
    BY <1>2 DEF Offload
  <2> QED
    BY <2>1 DEF Typed
<1>3. ASSUME NEW u \in Ingesters, Upsert(u)
      PROVE  admitting'[t].key \notin Covered
  <2>1. admitting' = [admitting EXCEPT ![u] = Nobody]
    BY <1>3 DEF Upsert
  <2> QED
    BY <2>1 DEF Typed
<1>4. ~Restart
  BY DEF Restart
<1>5. \/ admitting' = admitting \/ Restart
      \/ \E u \in Ingesters : \/ Upsert(u)
                              \/ \E k \in Keys, c \in Bodies \cup {NoBody} : Offload(u, k, c)
  BY DEF Next, vars, PublishTail, SealDrain, SealPublish, Begin, BeginFails, Resume,
     EraseStep, EraseFails, NoteRefs, PurgeBuffer, PurgeSegment, EndPurge, Sweep, UnlinkPayload,
     EndSweep, Veil, Confirm, Checkpoint, Reclaim, Settle, ingest
<1> QED
  BY <1>1, <1>2, <1>3, <1>4, <1>5

(* So every step keeps the barrier.                                        *)
LEMMA BarrierStep ==
    Typed /\ Permits /\ Numbered /\ Recorded /\ Barrier /\ [Next]_vars => Barrier'
<1> SUFFICES ASSUME Typed, Permits, Numbered, Recorded, Barrier, [Next]_vars, Pending'
             PROVE  /\ \A t \in Ingesters :
                          admitting'[t] # Nobody => admitting'[t].key \notin Covered
                    /\ \A v \in Everything' : v.key \in Covered => v.n <= cut'
  BY DEF Barrier
<1>1. /\ admitted \in Nat /\ cut \in Nat /\ cut <= admitted
      /\ \A v \in Everything : v.n \in Nat /\ v.n <= admitted
  BY AllVersions DEF Typed, Version, Numbered
<1>2. CASE Pending
  <2>1. \A t \in Ingesters : admitting'[t] # Nobody => admitting'[t].key \notin Covered
    BY <1>2, AdmittingIs DEF Barrier
  <2>2. ASSUME NEW t \in Ingesters, Upsert(t)
        PROVE  \A v \in Everything' : v.key \in Covered => v.n <= cut'
    <3>1. PICK v : /\ v.key = admitting[t].key /\ admitting[t] # Nobody
                   /\ \A w \in Everything' : w \in Everything \/ w = v
      BY <2>2, UpsertIs
    <3>2. v.key \notin Covered /\ cut' = cut
      BY <1>2, <2>2, <3>1 DEF Barrier, Upsert, cuts
    <3> QED
      BY <1>2, <3>1, <3>2 DEF Barrier
  <2>3. ASSUME Everything' \subseteq Everything
        PROVE  \A v \in Everything' : v.key \in Covered => v.n <= cut'
    <3>1. \A v \in Everything' : v.key \in Covered => v.n <= cut /\ v.n <= admitted
      BY <1>1, <1>2, <2>3 DEF Barrier
    <3> QED
      BY <3>1, CutsAre
  <2> QED
    BY <2>1, <2>2, <2>3, NothingElse
<1>3. CASE ~Pending
  <2>1. cut' = admitted /\ \A t \in Ingesters : admitting'[t] = Nobody
    BY <1>3, PendingIs
  <2>2. ASSUME NEW t \in Ingesters, Upsert(t) PROVE FALSE
    BY <1>3, <2>2 DEF Upsert, Pending
  <2>3. Everything' \subseteq Everything
    BY <2>2, NothingElse
  <2> QED
    BY <1>1, <2>1, <2>3
<1> QED
  BY <1>2, <1>3
(* While an erasure is pending a clean set holds nothing of its subject.   *)
LEMMA NoneCovered ==
    ASSUME Typed, Barrier, Pending, NEW S \in SUBSET Everything, Clean(S)
    PROVE  \A v \in S : v.key \notin Covered
BY DEF Barrier, Clean, Erased

(* What the subject does not cover is clean, whatever the cuts.            *)
LEMMA UncoveredIsClean ==
    ASSUME NEW S, \A v \in S : v.key \notin Covered
    PROVE  Clean(S) /\ \A v \in S : ~Erased(v) /\ ~Erased(v)'
BY DEF Clean, Erased

(* Behind its purge an eraser stays behind it.                             *)
LEMMA PurgedIs ==
    ASSUME Typed, Permits, [Next]_vars, ~Restart, NEW p \in Erasers, Purged(p)'
    PROVE  Purged(p) \/ (EndPurge(p) /\ pc[p] = "segments")
<1>0. /\ \A q \in Erasers, step \in PC : Goto(q, step) =>
             pc'[q] = step /\ \A r \in Erasers : r # q => pc'[r] = pc[r]
      /\ {"note", "purge", "segments", "sweep", "unlink", "veil", "confirm", "checkpoint",
          "reclaim", "settle", "idle"} \subseteq PC
  BY GotoIs DEF PC
<1>1. ASSUME UNCHANGED <<pc, pass>> PROVE Purged(p)
  BY <1>1 DEF Purged
<1>2. CASE UNCHANGED vars
  BY <1>1, <1>2 DEF vars, job
<1>3. ASSUME NEW t \in Ingesters,
             \/ \E k \in Keys, c \in Bodies \cup {NoBody} : Offload(t, k, c)
             \/ Upsert(t) \/ PublishTail(t)
      PROVE  Purged(p)
  BY <1>1, <1>3 DEF Offload, Upsert, PublishTail, job
<1>4. CASE SealDrain \/ SealPublish \/ BeginFails
  BY <1>1, <1>4 DEF SealDrain, SealPublish, BeginFails, job
<1>5. CASE Begin \/ Resume
  <2>1. pass' = pass /\ (Goto(Caller, "note") \/ Goto(Tick, "note"))
    BY <1>5 DEF Begin, Resume, job
  <2>2. Caller \in Erasers /\ Tick \in Erasers
    BY DEF Erasers
  <2>3. pc'[p] = pc[p]
    BY <1>0, <2>1, <2>2 DEF Purged
  <2> QED
    BY <2>1, <2>3 DEF Purged
<1>6. ASSUME NEW q \in Erasers, NoteRefs(q) PROVE Purged(p)
  <2>1. Goto(q, "purge") /\ pass' = [pass EXCEPT ![q] = 1]
    BY <1>6 DEF NoteRefs
  <2> QED
    BY <1>0, <2>1 DEF Purged, Typed
<1>7. ASSUME NEW q \in Erasers, PurgeBuffer(q) PROVE Purged(p)
  <2>1. pc[q] = "purge" /\ Goto(q, "segments") /\ pass' = pass
    BY <1>7 DEF PurgeBuffer
  <2> QED
    BY <1>0, <2>1 DEF Purged
<1>8. ASSUME NEW q \in Erasers, PurgeSegment(q) \/ UnlinkPayload(q) PROVE Purged(p)
  BY <1>1, <1>8 DEF PurgeSegment, UnlinkPayload
<1>9. ASSUME NEW q \in Erasers, EndPurge(q) PROVE Purged(p) \/ (EndPurge(p) /\ pc[p] = "segments")
  <2>1. pc[q] = "segments" /\ pass' = pass /\ (Goto(q, "sweep") \/ Goto(q, "veil"))
    BY <1>9 DEF EndPurge, job
  <2>2. CASE q = p
    BY <1>9, <2>1, <2>2
  <2>3. CASE q # p
    BY <1>0, <2>1, <2>3 DEF Purged
  <2> QED
    BY <2>2, <2>3
<1>10. ASSUME NEW q \in Erasers, \/ Sweep(q) \/ EndSweep(q) \/ Veil(q) \/ Checkpoint(q)
                                 \/ Reclaim(q) \/ Settle(q) \/ EraseFails(q)
       PROVE  Purged(p)
  <2>1. /\ pass' = pass /\ \E step \in PC : /\ Goto(q, step)
                                            /\ step # "idle" => Purged(q)
                                            /\ step \notin {"purge", "segments"}
    BY <1>0, <1>10 DEF Sweep, EndSweep, Veil, Checkpoint, Reclaim, Settle, EraseFails, job, Purged
  <2> QED
    BY <1>0, <2>1 DEF Purged
<1>11. ASSUME NEW q \in Erasers, Confirm(q) PROVE Purged(p)
  <2>1. pc[q] = "confirm" /\ Goto(q, "purge") /\ pass' = [pass EXCEPT ![q] = 2]
    BY <1>11 DEF Confirm
  <2> QED
    BY <1>0, <2>1 DEF Purged, Typed
<1>12. ASSUME NEW q \in Erasers, EraseStep(q)
       PROVE  Purged(p) \/ (EndPurge(p) /\ pc[p] = "segments")
  BY <1>12, <1>6, <1>7, <1>8, <1>9, <1>10, <1>11 DEF EraseStep
<1> QED
  BY <1>2, <1>3, <1>4, <1>5, <1>10, <1>12 DEF Next

(* A tombstone says settled once an eraser came to its settle.             *)
LEMMA SettledIs ==
    ASSUME Typed, Recorded, [Next]_vars, tombstone'.state = "settled"
    PROVE  \/ tombstone.state = "settled"
           \/ \E p \in Erasers : pc[p] = "settle" /\ (Settle(p) \/ EraseFails(p))
<1>1. CASE tombstone' = tombstone
  BY <1>1
<1>2. CASE Begin \/ BeginFails
  BY <1>2 DEF Begin, BeginFails
<1>3. ASSUME NEW p \in Erasers, NoteRefs(p) PROVE tombstone.state = "settled"
  <2>1. \E noted : tombstone' = [tombstone EXCEPT !.refs = @ \cup noted]
    BY <1>3 DEF NoteRefs
  <2> QED
    BY <2>1 DEF Typed, Tombstone
<1>4. ASSUME NEW p \in Erasers, Settle(p) \/ EraseFails(p)
      PROVE  tombstone.state = "settled" \/ (pc[p] = "settle" /\ (Settle(p) \/ EraseFails(p)))
  BY <1>4 DEF Settle, EraseFails
<1>5. \/ tombstone' = tombstone \/ Begin \/ BeginFails
      \/ \E p \in Erasers : NoteRefs(p) \/ Settle(p) \/ EraseFails(p)
  BY DEF Next, vars, Offload, Upsert, PublishTail, SealDrain, SealPublish, Resume,
     EraseStep, PurgeBuffer, PurgeSegment, EndPurge, Sweep, UnlinkPayload, EndSweep,
     Veil, Confirm, Checkpoint, Reclaim, Restart, disk
<1> QED
  BY <1>1, <1>2, <1>3, <1>4, <1>5
(* The cuts are drawn by a begin, a restart or the settle of a pending     *)
(* erasure.                                                                *)
LEMMA CutsMove ==
    ASSUME [Next]_vars
    PROVE  UNCHANGED cuts \/ Begin \/ Restart \/ \E p \in Erasers : Settle(p) /\ Pending
<1>1. ASSUME NEW p \in Erasers, EraseStep(p) \/ EraseFails(p)
      PROVE  UNCHANGED cuts \/ (Settle(p) /\ Pending)
  BY <1>1 DEF cuts, EraseStep, EraseFails, NoteRefs, PurgeBuffer, PurgeSegment, EndPurge, Sweep,
     UnlinkPayload, EndSweep, Veil, Confirm, Checkpoint, Reclaim, Settle
<1> QED
  BY <1>1 DEF Next, vars, cuts, Offload, Upsert, PublishTail, SealDrain, SealPublish, BeginFails,
     Resume

(* An eraser is among the segments since it purged the buffer, and nobody  *)
(* else touches them while it is.                                          *)
LEMMA SegmentsAre ==
    ASSUME Typed, Permits, [Next]_vars, NEW p \in Erasers, pc'[p] = "segments"
    PROVE  \/ PurgeBuffer(p)
           \/ pc[p] = "segments" /\ \/ PurgeSegment(p)
                                    \/ files' = files /\ todo'[p] = todo[p]
<1>0. /\ \A q \in Erasers, step \in PC : Goto(q, step) =>
             pc'[q] = step /\ \A r \in Erasers : r # q => pc'[r] = pc[r]
      /\ {"note", "purge", "segments", "sweep", "unlink", "veil", "confirm", "checkpoint",
          "reclaim", "settle", "idle"} \subseteq PC
      /\ \A q \in Erasers : q # Free /\ q # "sealer"
  BY GotoIs DEF PC, Erasers, Free, Caller, Tick
<1> DEFINE Untouched == pc[p] = "segments" /\ files' = files /\ todo'[p] = todo[p]
<1>1. ASSUME UNCHANGED <<pc, files, todo>> PROVE Untouched
  BY <1>1
<1>2. CASE UNCHANGED vars
  BY <1>1, <1>2 DEF vars, job, disk
<1>3. ASSUME NEW t \in Ingesters,
             \/ \E k \in Keys, c \in Bodies \cup {NoBody} : Offload(t, k, c)
             \/ Upsert(t) \/ PublishTail(t)
      PROVE  Untouched
  BY <1>1, <1>3 DEF Offload, Upsert, PublishTail, job, disk
<1>4. CASE SealDrain \/ BeginFails
  BY <1>1, <1>4 DEF SealDrain, BeginFails, job, disk
<1>5. CASE SealPublish
  <2>1. permit = "sealer" /\ pc' = pc
    BY <1>5 DEF SealPublish
  <2> QED
    BY <1>0, <2>1 DEF Permits
<1>6. CASE Begin \/ Resume
  <2>1. UNCHANGED <<files, todo>> /\ (Goto(Caller, "note") \/ Goto(Tick, "note"))
    BY <1>6 DEF Begin, Resume, job, disk
  <2> QED
    BY <1>0, <2>1 DEF Erasers
<1>7. ASSUME NEW q \in Erasers, PurgeBuffer(q) PROVE PurgeBuffer(p) \/ Untouched
  <2>1. /\ permit = Free /\ Goto(q, "segments") /\ files' = files
        /\ todo' = [todo EXCEPT ![q] = {f \in files : CoveredIn(f) # {}}]
    BY <1>7 DEF PurgeBuffer
  <2>2. CASE q = p
    BY <1>7, <2>2
  <2>3. CASE q # p
    BY <1>0, <2>1, <2>3 DEF Typed
  <2> QED
    BY <2>2, <2>3
<1>8. ASSUME NEW q \in Erasers, PurgeSegment(q) PROVE pc[p] = "segments" /\ PurgeSegment(p)
  <2>1. pc[q] = "segments" /\ pc' = pc
    BY <1>8 DEF PurgeSegment
  <2>2. permit = q /\ permit = p
    BY <2>1 DEF Permits
  <2> QED
    BY <1>8, <2>1, <2>2
<1>9. ASSUME NEW q \in Erasers, \/ NoteRefs(q) \/ EndPurge(q) \/ Sweep(q) \/ UnlinkPayload(q)
                                \/ EndSweep(q) \/ Veil(q) \/ Confirm(q) \/ Settle(q)
      PROVE  Untouched
  <2>1. UNCHANGED <<files, todo>>
    BY <1>9 DEF NoteRefs, EndPurge, Sweep, UnlinkPayload, EndSweep, Veil, Confirm, Settle, disk, job
  <2>2. pc' = pc \/ \E step \in PC \ {"segments"} : Goto(q, step)
    BY <1>0, <1>9 DEF NoteRefs, EndPurge, Sweep, UnlinkPayload, EndSweep, Veil, Confirm, Settle
  <2> QED
    BY <1>0, <2>1, <2>2
<1>10. ASSUME NEW q \in Erasers, Checkpoint(q) \/ Reclaim(q) PROVE Untouched
  <2>1. permit = Free \/ permit = q
    BY <1>10 DEF Checkpoint, Reclaim, Permits
  <2>2. pc[q] # "segments" /\ (Goto(q, "reclaim") \/ Goto(q, "settle"))
    BY <1>10 DEF Checkpoint, Reclaim
  <2>3. pc[p] = "segments" /\ p # q
    BY <1>0, <2>2
  <2> QED
    BY <1>0, <2>1, <2>3 DEF Permits
<1>11. ASSUME NEW q \in Erasers, EraseFails(q) PROVE Untouched
  <2>1. Goto(q, "idle") /\ files' = files /\ todo' = [todo EXCEPT ![q] = {}]
    BY <1>11 DEF EraseFails
  <2> QED
    BY <1>0, <2>1 DEF Typed
<1>12. ~Restart
  BY DEF Restart
<1>13. ASSUME NEW q \in Erasers, EraseStep(q)
       PROVE  PurgeBuffer(p) \/ Untouched \/ (pc[p] = "segments" /\ PurgeSegment(p))
  BY <1>13, <1>7, <1>8, <1>9, <1>10 DEF EraseStep
<1> QED
  BY <1>2, <1>3, <1>4, <1>5, <1>6, <1>11, <1>12, <1>13 DEF Next

(* An eraser comes to its settle by rewriting the log.                     *)
LEMMA SettlingIs ==
    ASSUME Typed, [Next]_vars, NEW p \in Erasers, pc'[p] = "settle"
    PROVE  pc[p] = "settle" \/ Reclaim(p)
<1>0. /\ \A q \in Erasers, step \in PC : Goto(q, step) =>
             pc'[q] = step /\ \A r \in Erasers : r # q => pc'[r] = pc[r]
      /\ {"note", "purge", "segments", "sweep", "unlink", "veil", "confirm", "checkpoint",
          "reclaim", "settle", "idle"} \subseteq PC
      /\ Caller \in Erasers /\ Tick \in Erasers
  BY GotoIs DEF PC, Erasers
<1>1. CASE pc' = pc
  BY <1>1
<1>2. ASSUME NEW q \in Erasers, NEW step \in PC \ {"settle"}, Goto(q, step) PROVE pc[p] = "settle"
  BY <1>0, <1>2
<1>3. ASSUME NEW q \in Erasers, Reclaim(q) PROVE pc[p] = "settle" \/ Reclaim(p)
  BY <1>0, <1>3 DEF Reclaim
<1>4. ~Restart
  BY DEF Restart
<1>5. ASSUME NEW q \in Erasers, EraseStep(q) \/ EraseFails(q)
      PROVE  pc' = pc \/ Reclaim(q) \/ \E step \in PC \ {"settle"} : Goto(q, step)
  BY <1>0, <1>5 DEF EraseStep, EraseFails, NoteRefs, PurgeBuffer, PurgeSegment, EndPurge, Sweep,
     UnlinkPayload, EndSweep, Veil, Confirm, Checkpoint, Settle
<1>6. CASE Begin \/ Resume
  BY <1>0, <1>2, <1>6 DEF Begin, Resume
<1>7. \/ pc' = pc \/ Begin \/ Resume \/ Restart
      \/ \E q \in Erasers : EraseStep(q) \/ EraseFails(q)
  BY DEF Next, vars, Offload, Upsert, PublishTail, SealDrain, SealPublish, BeginFails
<1> QED
  BY <1>1, <1>2, <1>3, <1>4, <1>5, <1>6, <1>7

(* What a step adds is one version, not erased, or nothing.                *)
LEMMA FreshIs ==
    ASSUME Typed, Permits, Numbered, [Next]_vars, ~Restart
    PROVE  \E F : /\ \A v \in F : ~Erased(v)
                  /\ buffer' \subseteq buffer \cup F /\ log' \subseteq log \cup buffer \cup F
                  /\ Stored' \cup drained' \subseteq Stored \cup drained \cup F
<1>1. CASE Shrinks
  <2>1. /\ \A v \in {} : ~Erased(v)
        /\ buffer' \subseteq buffer \cup {} /\ log' \subseteq log \cup buffer \cup {}
        /\ Stored' \cup drained' \subseteq Stored \cup drained \cup {}
    BY <1>1 DEF Shrinks
  <2> QED
    BY <2>1
<1>2. CASE \E t \in Ingesters : Upsert(t)
  <2>1. PICK t \in Ingesters : Upsert(t)
    BY <1>2
  <2>2. PICK v : /\ v.n = admitted + 1
                 /\ buffer' = {w \in buffer : w.key # v.key} \cup {v}
                 /\ log' = log \cup {v} /\ files' = files /\ drained' = drained
    BY <2>1, UpsertIs
  <2>3. ~Erased(v)
    BY <2>2 DEF Erased, Numbered, Typed
  <2>4. Stored' \subseteq Stored \cup {v}
    BY <2>2 DEF Stored
  <2> QED
    BY <2>2, <2>3, <2>4
<1> QED
  BY <1>1, <1>2, NothingNew

(* Every step keeps clean what was purged (complete_erasure).              *)
LEMMA CleansedStep == EraseInv /\ [Next]_vars => Cleansed'
<1> SUFFICES ASSUME EraseInv, [Next]_vars PROVE Cleansed'
  OBVIOUS
<1>0. Typed /\ Permits /\ Numbered /\ Recorded /\ Barrier /\ Cleansed
  BY DEF EraseInv
<1>1. CASE Restart
  <2>1. \A p \in Erasers : pc'[p] = "idle"
    BY <1>1 DEF Restart
  <2>2. tombstone' = tombstone /\ Everything' \subseteq Everything
    BY <1>1, RestartIs DEF Restart, disk
  <2>3. ASSUME tombstone.state = "settled" PROVE Clean(Everything)'
    <3>1. Clean(Everything)
      BY <1>0, <2>3 DEF Cleansed
    <3>2. record.state # "none" /\ cut' = cut
      BY <1>0, <1>1, <2>3 DEF Recorded, Restart
    <3>3. CASE Pending
      <4>1. \A v \in Everything' : v.key \notin Covered
        BY <1>0, <2>2, <3>1, <3>3, NoneCovered
      <4> QED
        BY <4>1 DEF Clean, Erased
    <3>4. CASE ~Pending
      <4>1. settledCut' = settledCut
        BY <1>1, <3>4 DEF Restart
      <4> QED
        BY <2>2, <3>1, <3>2, <4>1 DEF Clean, Erased
    <3> QED
      BY <3>3, <3>4
  <2> QED
    BY <2>1, <2>2, <2>3 DEF Cleansed, Purged
<1>2. CASE Begin
  <2>1. /\ record.state = "none" /\ Goto(Caller, "note")
        /\ tombstone' = [state |-> "pending", refs |-> Resolved]
    BY <1>2 DEF Begin
  <2>2. \A p \in Erasers : pc'[p] \in {"idle", "note"}
    BY <1>0, <2>1, GotoIs DEF Recorded, Erasers, PC
  <2> QED
    BY <2>1, <2>2 DEF Cleansed, Purged
<1>3. ASSUME NEW p \in Erasers, Settle(p), Pending PROVE Cleansed'
  <2>1. pc[p] = "settle" /\ UNCHANGED <<files, log, buffer, drained>>
    BY <1>3 DEF Settle
  <2>2. Clean(Stored \cup drained) /\ Clean(log)
    BY <1>0, <2>1 DEF Cleansed, Purged
  <2>3. Clean(Everything)
    BY <2>2 DEF Clean, Everything
  <2>4. \A v \in Everything : v.key \notin Covered
    BY <1>0, <1>3, <2>3, NoneCovered
  <2>5. Everything' = Everything /\ Stored' = Stored
    BY <2>1 DEF Everything, Stored
  <2>6. \A v \in Everything : ~Erased(v)'
    BY <2>4 DEF Erased
  <2>7. /\ Clean(Everything)' /\ Clean(buffer)' /\ (\A f \in files : Clean(f))'
        /\ Clean(Stored \cup drained)' /\ Clean(log)'
    BY <2>1, <2>5, <2>6, StoredIs DEF Clean
  <2> QED
    BY <2>7 DEF Cleansed
<1>4. CASE UNCHANGED cuts /\ ~Restart
  <2>1. \A v : Erased(v)' <=> Erased(v)
    BY <1>4, ErasedStays
  <2>2. PICK F : /\ \A v \in F : ~Erased(v)
                 /\ buffer' \subseteq buffer \cup F /\ log' \subseteq log \cup buffer \cup F
                 /\ Stored' \cup drained' \subseteq Stored \cup drained \cup F
    BY <1>0, <1>4, FreshIs
  <2>3. ASSUME NEW p \in Erasers, Purged(p)' PROVE Clean(Stored \cup drained)'
    <3>1. CASE Purged(p)
      BY <1>0, <2>1, <2>2, <3>1 DEF Cleansed, Clean
    <3>2. CASE EndPurge(p) /\ pc[p] = "segments"
      <4>1. todo[p] = {} /\ permit = p /\ p # "sealer"
        BY <1>0, <3>2 DEF EndPurge, Permits, Erasers, Caller, Tick
      <4>2. drained = {} /\ Clean(buffer) /\ \A f \in files : Clean(f)
        BY <1>0, <3>2, <4>1 DEF Permits, Cleansed
      <4>3. Clean(Stored \cup drained)
        BY <4>2, StoredIs DEF Clean
      <4> QED
        BY <2>1, <2>2, <4>3 DEF Clean
    <3> QED
      BY <1>0, <1>4, <2>3, <3>1, <3>2, PurgedIs
  <2>4. ASSUME NEW p \in Erasers, pc'[p] = "settle" PROVE Clean(log)'
    <3>1. CASE pc[p] = "settle"
      <4>1. Clean(log) /\ Clean(Stored \cup drained)
        BY <1>0, <3>1 DEF Cleansed, Purged
      <4> QED
        BY <2>1, <2>2, <4>1, StoredIs DEF Clean
    <3>2. CASE Reclaim(p)
      <4>1. Clean(Stored \cup drained) /\ log' = buffer
        BY <1>0, <3>2 DEF Cleansed, Purged, Reclaim, Reclaimed
      <4> QED
        BY <2>1, <4>1, StoredIs DEF Clean
    <3> QED
      BY <1>0, <2>4, <3>1, <3>2, SettlingIs
  <2>5. ASSUME NEW p \in Erasers, pc'[p] = "segments"
        PROVE  Clean(buffer)' /\ \A f \in files' : f \in todo'[p] \/ Clean(f)'
    <3>1. CASE PurgeBuffer(p)
      <4>1. /\ buffer' = buffer \ CoveredIn(buffer) /\ files' = files
            /\ todo'[p] = {f \in files : CoveredIn(f) # {}}
        BY <1>0, <3>1 DEF PurgeBuffer, Typed
      <4> QED
        BY <4>1 DEF Clean, CoveredIn, Erased
    <3>2. ASSUME pc[p] = "segments"
          PROVE  Clean(buffer)'
      BY <1>0, <2>1, <2>2, <3>2 DEF Cleansed, Clean
    <3>3. ASSUME pc[p] = "segments", PurgeSegment(p)
          PROVE  \A f \in files' : f \in todo'[p] \/ Clean(f)'
      <4>1. PICK f \in todo[p] : /\ files' = (files \ {f}) \cup ({f \ CoveredIn(f)} \ {{}})
                                 /\ todo' = [todo EXCEPT ![p] = @ \ {f}]
        BY <3>3 DEF PurgeSegment
      <4>2. todo'[p] = todo[p] \ {f}
        BY <1>0, <4>1 DEF Typed
      <4>3. \A v \in f \ CoveredIn(f) : ~Erased(v)
        BY DEF CoveredIn, Erased
      <4> QED
        BY <1>0, <2>1, <3>3, <4>1, <4>2, <4>3 DEF Cleansed, Clean
    <3>4. ASSUME pc[p] = "segments", files' = files, todo'[p] = todo[p]
          PROVE  \A f \in files' : f \in todo'[p] \/ Clean(f)'
      BY <1>0, <2>1, <3>4 DEF Cleansed, Clean
    <3> QED
      BY <1>0, <2>5, <3>1, <3>2, <3>3, <3>4, SegmentsAre
  <2>6. ASSUME tombstone'.state = "settled" PROVE Clean(Everything)'
    <3>1. Clean(Everything)
      <4>1. ASSUME NEW p \in Erasers, pc[p] = "settle" PROVE Clean(Everything)
        BY <1>0, <4>1 DEF Cleansed, Purged, Clean, Everything
      <4> QED
        BY <1>0, <2>6, <4>1, SettledIs DEF Cleansed
    <3> QED
      BY <2>1, <2>2, <3>1, StoredIs DEF Clean, Everything
  <2> QED
    BY <2>3, <2>4, <2>5, <2>6 DEF Cleansed
<1> QED
  BY <1>1, <1>2, <1>3, <1>4, CutsMove

(* The inductive invariant holds of every behaviour.                       *)
LEMMA EraseInvariant == Spec => []EraseInv
<1>1. EraseInv /\ [Next]_vars => EraseInv'
  BY TypedStep, NumberedStep, PermitsStep, RecordedStep, BarrierStep, CleansedStep DEF EraseInv
<1> QED
  BY <1>1, EraseInit, PTL DEF Spec

(* Once an erasure has settled no record of what it covered is left, in a  *)
(* segment, the log, the buffer or a seal in flight, whatever raced it or  *)
(* failed under it (complete_erasure, purge_subject_locked).               *)
THEOREM SettledIsClean == Spec => []NothingErasedIsLeft
<1>1. EraseInv => NothingErasedIsLeft
  BY DEF EraseInv, Cleansed, Clean, Everything, NothingErasedIsLeft
<1> QED
  BY <1>1, EraseInvariant, PTL
----------------------------------------------------------------------------
(* What an erasure may not take.                                           *)

(* What was safe behind a step was safe before it.                         *)
LEMMA SafeStays ==
    ASSUME Typed, Numbered, [Next]_vars, NEW v \in Everything \cup Published, Safe(v)'
    PROVE  Safe(v)
<1>1. host' = host
  BY DEF Next, vars, choices, Offload, Upsert, PublishTail, SealDrain, SealPublish, Begin,
     BeginFails, Resume, EraseStep, EraseFails, NoteRefs, PurgeBuffer, PurgeSegment, EndPurge,
     Sweep, UnlinkPayload, EndSweep, Veil, Confirm, Checkpoint, Reclaim, Settle, Restart
<1>2. v \in Version /\ v.n \in Nat /\ v.n <= admitted /\ admitted \in Nat /\ settledCut \in Nat
  BY AllVersions DEF Version, Typed, Numbered
<1>3. settledCut' = settledCut \/ settledCut' = admitted
  BY CutsAre
<1> QED
  BY <1>1, <1>2, <1>3 DEF Safe

(* A newer version of what is safe is safe, and newer than what that was   *)
(* newer than.                                                             *)
LEMMA SafeNewer ==
    ASSUME Typed, NEW v \in Version, NEW w \in Version, w.key = v.key, w.n >= v.n
    PROVE  /\ Safe(v) => Safe(w)
           /\ \A S : S \subseteq Version /\ Newer(S, w) => Newer(S, v)
<1>1. v.n \in Nat /\ w.n \in Nat /\ settledCut \in Nat
  BY DEF Version, Typed
<1>2. Safe(v) => Safe(w)
  BY <1>1 DEF Safe
<1>3. ASSUME NEW S, S \subseteq Version, Newer(S, w) PROVE Newer(S, v)
  <2>1. PICK u \in S : u.key = w.key /\ u.n >= w.n
    BY <1>3 DEF Newer
  <2>2. u.n \in Nat
    BY <1>3 DEF Version
  <2> QED
    BY <1>1, <2>1, <2>2 DEF Newer
<1> QED
  BY <1>2, <1>3

(* While somebody erases, what is safe is not covered.                     *)
LEMMA SafeFromWork ==
    ASSUME Typed, Recorded, NEW p \in Erasers, pc[p] # "idle", NEW v, Safe(v)
    PROVE  v.key \notin Covered
BY DEF Recorded, Safe, Pending, Typed

(* The buffer a log replays to holds the newest of every key.              *)
LEMMA NewestIs ==
    ASSUME Typed, Numbered, NEW S \in SUBSET Everything, NEW v \in S
    PROVE  Newer(NewestIn(S), v)
<1> DEFINE Sisters == {w \in S : w.key = v.key}
<1> DEFINE Ns == {w.n : w \in Sisters}
<1>1. \A w \in S : w \in Version /\ w.n \in Nat /\ w.n <= admitted
  BY AllVersions DEF Numbered, Version
<1>2. Ns \subseteq 0 .. admitted
  BY <1>1 DEF Typed
<1>3. v.n \in Ns
  OBVIOUS
<1>4. PICK m \in Ns : \A s \in Ns : s <= m
  BY <1>2, <1>3 DEF Numbered
<1>5. PICK w \in Sisters : w.n = m
  BY <1>4
<1>6. \A u \in S : u.key = w.key => u.n <= w.n
  BY <1>4, <1>5
<1>7. w \in NewestIn(S) /\ w.key = v.key /\ w.n >= v.n
  BY <1>1, <1>3, <1>4, <1>5, <1>6 DEF NewestIn
<1> QED
  BY <1>7 DEF Newer

(* A step that stores at least what was stored, or a newer version of it.  *)
LEMMA NewerOf ==
    ASSUME NEW S, NEW T, \A v \in S : v \in T, NEW v, Newer(S, v)
    PROVE  Newer(T, v)
BY DEF Newer

(* What an erasure may not take is still stored after every step.          *)
LEMMA StillStored ==
    ASSUME EraseInv, Kept, [Next]_vars, NEW v \in Stored, Safe(v)
    PROVE  Newer(Stored', v)
<1>0. /\ Typed /\ Permits /\ Numbered /\ Recorded
      /\ v \in Version /\ v.n \in Nat /\ v.n <= admitted /\ admitted \in Nat
      /\ v.n >= v.n
  <2>1. Typed /\ Permits /\ Numbered /\ Recorded
    BY DEF EraseInv
  <2>2. v \in Version /\ v \in Everything
    BY <2>1, AllVersions, StoredIs
  <2> QED
    BY <2>1, <2>2 DEF Version, Numbered, Typed
<1>1. ASSUME v \in Stored' PROVE Newer(Stored', v)
  BY <1>0, <1>1 DEF Newer
<1>2. ASSUME UNCHANGED <<files, buffer>> PROVE v \in Stored'
  BY <1>2 DEF Stored
<1>3. CASE UNCHANGED vars
  BY <1>1, <1>2, <1>3 DEF vars, disk
<1>4. ASSUME NEW t \in Ingesters, Upsert(t) PROVE Newer(Stored', v)
  <2>1. PICK u : /\ u.n = admitted + 1 /\ u \in buffer' /\ files' = files
                 /\ buffer' = {w \in buffer : w.key # u.key} \cup {u}
    BY <1>0, <1>4, UpsertIs
  <2>2. CASE u.key = v.key
    BY <1>0, <2>1, <2>2 DEF Newer, Stored
  <2>3. CASE u.key # v.key
    BY <1>1, <2>1, <2>3 DEF Stored
  <2> QED
    BY <2>2, <2>3
<1>5. ASSUME NEW t \in Ingesters,
             \/ \E k \in Keys, c \in Bodies \cup {NoBody} : Offload(t, k, c)
             \/ PublishTail(t)
      PROVE  Newer(Stored', v)
  BY <1>1, <1>2, <1>5 DEF Offload, PublishTail, disk
<1>6. CASE SealDrain \/ Begin \/ BeginFails \/ Resume
  BY <1>1, <1>2, <1>6 DEF SealDrain, Begin, BeginFails, Resume, disk
<1>7. CASE SealPublish
  <2>1. files' = files \cup {drained} /\ buffer' = buffer \ drained
    BY <1>7 DEF SealPublish
  <2> QED
    BY <1>1, <2>1, StoredIs DEF Stored
<1>8. ASSUME NEW p \in Erasers, EraseStep(p) \/ EraseFails(p) PROVE Newer(Stored', v)
  <2>1. CASE PurgeBuffer(p)
    <3>1. v.key \notin Covered
      BY <1>0, <2>1, SafeFromWork DEF PurgeBuffer
    <3> QED
      BY <1>1, <2>1, <3>1 DEF PurgeBuffer, Stored, CoveredIn
  <2>2. CASE PurgeSegment(p)
    <3>1. v.key \notin Covered
      BY <1>0, <2>2, SafeFromWork DEF PurgeSegment
    <3>2. PICK f \in todo[p] : files' = (files \ {f}) \cup ({f \ CoveredIn(f)} \ {{}})
      BY <2>2 DEF PurgeSegment
    <3>3. buffer' = buffer
      BY <2>2 DEF PurgeSegment
    <3>4. v \in f => v \in f \ CoveredIn(f)
      BY <3>1 DEF CoveredIn
    <3>5. v \in UNION files => v \in UNION files'
      BY <3>2, <3>4
    <3> QED
      BY <1>1, <3>3, <3>5 DEF Stored
  <2>3. CASE Checkpoint(p)
    BY <1>1, <2>3, StoredIs DEF Checkpoint, Stored
  <2>4. CASE \/ NoteRefs(p) \/ EndPurge(p) \/ Sweep(p) \/ UnlinkPayload(p) \/ EndSweep(p)
             \/ Veil(p) \/ Confirm(p) \/ Reclaim(p) \/ Settle(p) \/ EraseFails(p)
    BY <1>1, <1>2, <2>4 DEF EraseFails, NoteRefs, EndPurge, Sweep, UnlinkPayload, EndSweep, Veil,
       Confirm, Reclaim, Settle, disk
  <2> QED
    BY <1>8, <2>1, <2>2, <2>3, <2>4 DEF EraseStep
<1>9. CASE Restart
  <2>1. files' = files /\ buffer' = NewestIn(log)
    BY <1>9, RestartIs
  <2>2. PICK w \in OnDisk : w.key = v.key /\ w.n >= v.n
    BY DEF Kept, Newer
  <2>3. CASE w \in log
    <3>1. Newer(NewestIn(log), w) /\ w \in Version
      BY <1>0, <2>3, NewestIs, AllVersions DEF Everything
    <3>2. NewestIn(log) \subseteq Version
      BY <1>0, Selections DEF Typed
    <3>3. Newer(NewestIn(log), v)
      BY <1>0, <2>2, <3>1, <3>2, SafeNewer
    <3> QED
      BY <2>1, <3>3, NewerOf DEF Stored
  <2>4. CASE \E f \in files : w \in f
    BY <2>1, <2>2, <2>4 DEF Newer, Stored
  <2> QED
    BY <2>3, <2>4, StoredIs
<1> QED
  BY <1>3, <1>4, <1>5, <1>6, <1>7, <1>8, <1>9 DEF Next

(* And still read by a restart.                                            *)
LEMMA StillOnDisk ==
    ASSUME EraseInv, Kept, [Next]_vars, NEW v \in OnDisk, Safe(v)
    PROVE  Newer(OnDisk', v)
<1>0. /\ Typed /\ Permits /\ Numbered /\ Recorded
      /\ v \in Version /\ v.n \in Nat /\ v.n >= v.n
  <2>1. Typed /\ Permits /\ Numbered /\ Recorded
    BY DEF EraseInv
  <2>2. v \in Version
    BY <2>1, AllVersions, StoredIs
  <2> QED
    BY <2>1, <2>2 DEF Version
<1>1. ASSUME v \in OnDisk' PROVE Newer(OnDisk', v)
  BY <1>0, <1>1 DEF Newer
<1>2. ASSUME files' = files, log \subseteq log' PROVE v \in OnDisk'
  BY <1>2 DEF OnDisk
<1>3. v \in log => Newer(Stored, v)
  BY DEF Kept
<1>4. CASE UNCHANGED vars
  BY <1>1, <1>2, <1>4 DEF vars, disk
<1>5. ASSUME NEW t \in Ingesters,
             \/ \E k \in Keys, c \in Bodies \cup {NoBody} : Offload(t, k, c)
             \/ Upsert(t) \/ PublishTail(t)
      PROVE  Newer(OnDisk', v)
  <2>1. files' = files /\ log \subseteq log'
    BY <1>5 DEF Offload, Upsert, PublishTail, disk
  <2> QED
    BY <1>1, <1>2, <2>1
<1>6. CASE SealDrain \/ Begin \/ BeginFails \/ Resume \/ Restart
  BY <1>1, <1>2, <1>6 DEF SealDrain, Begin, BeginFails, Resume, Restart, disk
<1>7. CASE SealPublish
  <2>1. /\ files' = files \cup {drained} /\ buffer' = buffer \ drained
        /\ log' = buffer' \/ log' = log
    BY <1>7 DEF SealPublish
  <2>2. CASE v \in log
    <3>1. \A w \in Stored : w \in OnDisk' \/ log' = log
      BY <2>1, StoredIs DEF OnDisk
    <3> QED
      BY <1>1, <1>3, <2>2, <3>1, NewerOf DEF OnDisk
  <2>3. CASE v \notin log
    BY <1>1, <2>1, <2>3, StoredIs DEF OnDisk
  <2> QED
    BY <2>2, <2>3
<1>8. ASSUME NEW p \in Erasers, EraseStep(p) \/ EraseFails(p) PROVE Newer(OnDisk', v)
  <2>1. CASE PurgeBuffer(p)
    <3>1. v.key \notin Covered
      BY <1>0, <2>1, SafeFromWork DEF PurgeBuffer
    <3>2. files' = files /\ (log' = log \/ log' = buffer \ CoveredIn(buffer))
      BY <2>1 DEF PurgeBuffer
    <3>3. CASE log' = log
      BY <1>1, <1>2, <3>2, <3>3
    <3>4. CASE v \in log /\ log' = buffer \ CoveredIn(buffer)
      <4>1. PICK w \in Stored : w.key = v.key /\ w.n >= v.n
        BY <1>3, <3>4 DEF Newer
      <4>2. w \in OnDisk'
        BY <3>1, <3>2, <3>4, <4>1, StoredIs DEF OnDisk, CoveredIn
      <4> QED
        BY <4>1, <4>2 DEF Newer
    <3>5. CASE v \notin log
      BY <1>1, <3>2, <3>5, StoredIs DEF OnDisk
    <3> QED
      BY <3>2, <3>3, <3>4, <3>5
  <2>2. CASE PurgeSegment(p)
    <3>1. v.key \notin Covered
      BY <1>0, <2>2, SafeFromWork DEF PurgeSegment
    <3>2. PICK f \in todo[p] : files' = (files \ {f}) \cup ({f \ CoveredIn(f)} \ {{}})
      BY <2>2 DEF PurgeSegment
    <3>3. log' = log
      BY <2>2 DEF PurgeSegment
    <3>4. v \in f => v \in f \ CoveredIn(f)
      BY <3>1 DEF CoveredIn
    <3>5. v \in UNION files => v \in UNION files'
      BY <3>2, <3>4
    <3> QED
      BY <1>1, <3>3, <3>5 DEF OnDisk
  <2>3. CASE Checkpoint(p)
    BY <1>1, <2>3, StoredIs DEF Checkpoint, OnDisk
  <2>4. CASE Reclaim(p)
    <3>1. files' = files /\ log' = buffer
      BY <2>4 DEF Reclaim, Reclaimed
    <3>2. CASE v \in log
      <4>1. \A w \in Stored : w \in OnDisk'
        BY <3>1, StoredIs DEF OnDisk
      <4> QED
        BY <1>3, <3>2, <4>1, NewerOf
    <3>3. CASE v \notin log
      BY <1>1, <3>1, <3>3, StoredIs DEF OnDisk
    <3> QED
      BY <3>2, <3>3
  <2>5. CASE \/ NoteRefs(p) \/ EndPurge(p) \/ Sweep(p) \/ UnlinkPayload(p) \/ EndSweep(p)
             \/ Veil(p) \/ Confirm(p) \/ Settle(p) \/ EraseFails(p)
    BY <1>1, <1>2, <2>5 DEF EraseFails, NoteRefs, EndPurge, Sweep, UnlinkPayload, EndSweep, Veil,
       Confirm, Settle, disk
  <2> QED
    BY <1>8, <2>1, <2>2, <2>3, <2>4, <2>5 DEF EraseStep
<1> QED
  BY <1>4, <1>5, <1>6, <1>7, <1>8 DEF Next

(* So every step keeps what an erasure may not take.                       *)
LEMMA KeptStep == EraseInv /\ Kept /\ [Next]_vars => Kept'
<1> SUFFICES ASSUME EraseInv, Kept, [Next]_vars PROVE Kept'
  OBVIOUS
<1>0. /\ Typed /\ Permits /\ Numbered
      /\ Everything \cup Published \subseteq Version
      /\ Stored' \subseteq Version /\ OnDisk' \subseteq Version
  <2>1. Typed /\ Permits /\ Numbered /\ Typed'
    BY TypedStep DEF EraseInv
  <2>2. \A v \in OnDisk' : v \in Version
    BY <2>1 DEF OnDisk, Typed
  <2>3. \A v \in Stored' : v \in Version
    BY <2>1 DEF Stored, Typed
  <2> QED
    BY <2>1, <2>2, <2>3, AllVersions
<1>1. ASSUME NEW v \in Everything \cup Published, Safe(v) PROVE Newer(Stored, v)
  <2>1. v \in Stored => Newer(Stored, v)
    BY <1>0 DEF Newer, Version, Everything
  <2> QED
    BY <1>1, <2>1 DEF Kept, Everything
<1>2. ASSUME NEW v \in Everything \cup Published, Safe(v)'
      PROVE  Newer(Stored', v) /\ Newer(OnDisk', v)
  <2>1. Safe(v)
    BY <1>0, <1>2, SafeStays
  <2>2. PICK w \in Stored : w.key = v.key /\ w.n >= v.n
    BY <1>1, <2>1 DEF Newer
  <2>3. w \in Version /\ Safe(w)
    BY <1>0, <2>1, <2>2, SafeNewer DEF Everything
  <2>4. PICK u \in OnDisk : u.key = w.key /\ u.n >= w.n
    BY <2>3 DEF Kept, Newer
  <2>5. u \in Version
    BY <1>0, <2>4, StoredIs
  <2>6. Safe(u)
    BY <1>0, <2>3, <2>4, <2>5, SafeNewer
  <2>7. Newer(Stored', w) /\ Newer(OnDisk', u)
    BY <2>3, <2>6, StillStored, StillOnDisk
  <2>8. Newer(OnDisk', w)
    BY <1>0, <2>3, <2>4, <2>5, <2>7, SafeNewer
  <2> QED
    BY <1>0, <2>2, <2>3, <2>7, <2>8, SafeNewer
<1>3. ASSUME NEW t \in Ingesters, Upsert(t)
      PROVE  \A w \in Everything' \cup Published' :
                \/ w \in Everything \cup Published
                \/ Newer(Stored', w) /\ Newer(OnDisk', w)
  <2>1. PICK v : /\ v \in Version /\ v \in buffer' /\ log' = log \cup {v}
                 /\ \A w \in Everything' : w \in Everything \/ w = v
                 /\ \A w \in Published' : w \in Published \/ w = v
    BY <1>0, <1>3, UpsertIs
  <2>2. Newer(Stored', v) /\ Newer(OnDisk', v)
    BY <2>1 DEF Newer, Version, Stored, OnDisk
  <2> QED
    BY <2>1, <2>2
<1>4. \A v \in Everything' \cup Published' :
         \/ v \in Everything \cup Published
         \/ Newer(Stored', v) /\ Newer(OnDisk', v)
  BY <1>0, <1>3, NothingElse
<1>5. Nobody \notin acked'
  <2>1. \/ acked' = acked
        \/ \E t \in Ingesters : publishing[t] # Nobody /\ acked' = acked \cup {publishing[t]}
    <3>1. ASSUME NEW p \in Erasers, EraseStep(p) \/ EraseFails(p) PROVE acked' = acked
      BY <3>1 DEF counts, EraseStep, EraseFails, NoteRefs, PurgeBuffer, PurgeSegment, EndPurge,
         Sweep, UnlinkPayload, EndSweep, Veil, Confirm, Checkpoint, Reclaim, Settle
    <3> QED
      BY <3>1 DEF Next, vars, counts, Offload, Upsert, PublishTail, SealDrain, SealPublish, Begin,
         BeginFails, Resume, Restart
  <2> QED
    BY <2>1 DEF Kept
<1>6. \A v \in Everything' \cup Published' : Safe(v)' => Newer(Stored', v) /\ Newer(OnDisk', v)
  BY <1>2, <1>4
<1> QED
  BY <1>5, <1>6 DEF Kept, Everything

(* An erasure takes its subject and nobody's new data, through crashes and *)
(* errors: whatever else was acknowledged reads at its version or newer    *)
(* (Store::erase, purge_subject_locked, Store::open).                      *)
THEOREM ErasureIsNoBan == Spec => []OnlyTheSubjectGoes
<1>1. Init => Kept
  BY DEF Init, Kept, Published, Stored, Nobody
<1>2. EraseInv /\ Kept => OnlyTheSubjectGoes
  <2> SUFFICES ASSUME EraseInv, Kept PROVE OnlyTheSubjectGoes
    OBVIOUS
  <2>1. \A v \in acked : v \in Published
    BY DEF Kept, Published
  <2> QED
    BY <2>1 DEF Kept, Newer, Safe, OnlyTheSubjectGoes, OthersAreKept, NewDataIsKept
<1> QED
  BY <1>1, <1>2, KeptStep, EraseInvariant, PTL DEF Spec
----------------------------------------------------------------------------
(* What becomes of payload files.                                          *)

(* The newest of a set is the newest of another that has nothing newer.    *)
LEMMA NewestOfBoth ==
    ASSUME Typed, Numbered, NEW S \in SUBSET Everything, NEW T \in SUBSET Version,
           NEW w \in NewestIn(T), w \in Everything, Newer(S, w),
           \A u \in S : u.key = w.key => Newer(T, u)
    PROVE  w \in NewestIn(S)
<1>1. \A u \in S \cup T : u \in Version /\ u.n \in Nat
  BY AllVersions DEF Version
<1>2. w \in T /\ \A x \in T : x.key = w.key => x.n <= w.n
  BY DEF NewestIn
<1>3. \A u \in S : u.key = w.key => u.n <= w.n
  <2> SUFFICES ASSUME NEW u \in S, u.key = w.key PROVE u.n <= w.n
    OBVIOUS
  <2>1. PICK x \in T : x.key = u.key /\ x.n >= u.n
    BY DEF Newer
  <2> QED
    BY <1>1, <1>2, <2>1
<1>4. PICK u \in S : u.key = w.key /\ u.n >= w.n
  BY DEF Newer
<1>5. u.n = w.n
  BY <1>1, <1>2, <1>3, <1>4
<1>6. u = w
  BY <1>4, <1>5 DEF Numbered
<1> QED
  BY <1>3, <1>4, <1>6 DEF NewestIn

(* A span outside the subject that is visible behind a step was visible    *)
(* before it, if it was there.                                             *)
LEMMA VisibleStays ==
    ASSUME EraseInv, Kept, [Next]_vars, NEW w \in NewestIn(Stored'), w \in Everything,
           w.key \notin Covered
    PROVE  w \in NewestIn(Stored)
<1>1. /\ Typed /\ Numbered /\ Stored \in SUBSET Everything /\ Everything \subseteq Version
      /\ Stored' \in SUBSET Version
  <2>1. Typed /\ Numbered /\ Typed'
    BY TypedStep DEF EraseInv
  <2>2. \A v \in Stored' : v \in Version
    BY <2>1 DEF Stored, Typed
  <2> QED
    BY <2>1, <2>2, AllVersions DEF Everything
<1>2. \A u : u.key = w.key => Safe(u)
  BY DEF Safe
<1>3. Newer(Stored, w)
  <2>1. w \in Stored => Newer(Stored, w)
    BY <1>1 DEF Newer, Version
  <2> QED
    BY <1>2, <2>1 DEF Kept, Everything
<1>4. \A u \in Stored : u.key = w.key => Newer(Stored', u)
  BY <1>2, StillStored
<1> QED
  BY <1>1, <1>3, <1>4, NewestOfBoth

(* Contents come with an offload and go with an unlink; lists of them are  *)
(* drawn up by a sweep (Store::offload, complete_erasure).                 *)
LEMMA ContentsAre ==
    ASSUME Typed, Permits, [Next]_vars
    PROVE  /\ racing \subseteq racing'
           /\ \/ payloads \subseteq payloads' /\ \A p \in Erasers : doomed'[p] \subseteq doomed[p]
              \/ \E p \in Erasers : Sweep(p) \/ UnlinkPayload(p)
<1> DEFINE Fine == /\ racing \subseteq racing' /\ payloads \subseteq payloads'
                   /\ \A p \in Erasers : doomed'[p] \subseteq doomed[p]
<1>1. CASE UNCHANGED vars
  BY <1>1 DEF vars, bodies, disk, job
<1>2. ASSUME NEW t \in Ingesters,
             \/ \E k \in Keys, c \in Bodies \cup {NoBody} : Offload(t, k, c)
             \/ Upsert(t) \/ PublishTail(t)
      PROVE  Fine
  BY <1>2 DEF Offload, Upsert, PublishTail, bodies, disk, job
<1>3. CASE SealDrain \/ SealPublish \/ Begin \/ BeginFails \/ Resume
  BY <1>3 DEF SealDrain, SealPublish, Begin, BeginFails, Resume, bodies, disk, job
<1>4. ASSUME NEW p \in Erasers, \/ NoteRefs(p) \/ PurgeBuffer(p) \/ PurgeSegment(p) \/ EndPurge(p)
                                \/ EndSweep(p) \/ Veil(p) \/ Confirm(p) \/ Checkpoint(p)
                                \/ Reclaim(p) \/ Settle(p)
      PROVE  Fine
  BY <1>4 DEF NoteRefs, PurgeBuffer, PurgeSegment, EndPurge, EndSweep, Veil, Confirm, Checkpoint,
     Reclaim, Settle, bodies, disk, job
<1>5. ASSUME NEW p \in Erasers, EraseFails(p) PROVE Fine
  BY <1>5 DEF EraseFails, bodies, Typed
<1>6. ASSUME NEW p \in Erasers, Sweep(p) \/ UnlinkPayload(p) PROVE racing \subseteq racing'
  BY <1>6 DEF Sweep, UnlinkPayload
<1>7. CASE Restart
  BY <1>7 DEF Restart, Clear, bodies, disk
<1>8. ASSUME NEW p \in Erasers, EraseStep(p) PROVE Fine \/ Sweep(p) \/ UnlinkPayload(p)
  BY <1>8, <1>4 DEF EraseStep
<1> QED
  BY <1>1, <1>2, <1>3, <1>5, <1>6, <1>7, <1>8 DEF Next

(* Every step leaves what is rightful (live_payload_refs).                 *)
LEMMA SharedStep == EraseInv /\ Kept /\ Shared /\ [Next]_vars => Shared'
<1> SUFFICES ASSUME EraseInv, Kept, Shared, [Next]_vars,
                    NEW w \in NewestIn(Stored'), w.key \notin Covered, w.n \notin racing'
             PROVE  /\ w.body \in payloads' \cup {NoBody}
                    /\ \A p \in Erasers : w.body \notin doomed'[p]
  BY DEF Shared, Rightful
<1>0. Typed /\ Permits
  BY DEF EraseInv
<1>1. CASE w \in Everything
  <2>1. w \in NewestIn(Stored)
    BY <1>1, VisibleStays
  <2>2. /\ w.body \in payloads \cup {NoBody} /\ \A p \in Erasers : w.body \notin doomed[p]
        /\ w \in Stored
    BY <1>0, <2>1, ContentsAre DEF Shared, Rightful, NewestIn
  <2>3. ASSUME NEW p \in Erasers, UnlinkPayload(p)
        PROVE  /\ w.body \in payloads' \cup {NoBody}
               /\ \A q \in Erasers : w.body \notin doomed'[q]
    <3>1. PICK c \in doomed[p] : /\ payloads' = payloads \ {c}
                                 /\ doomed' = [doomed EXCEPT ![p] = @ \ {c}]
      BY <2>3 DEF UnlinkPayload
    <3> QED
      BY <1>0, <2>2, <3>1 DEF Typed
  <2>4. ASSUME NEW p \in Erasers, Sweep(p)
        PROVE  /\ w.body \in payloads' \cup {NoBody}
               /\ \A q \in Erasers : w.body \notin doomed'[q]
    <3>1. payloads' = payloads /\ doomed' = [doomed EXCEPT ![p] = Doomed(p) \ Live]
      BY <2>4 DEF Sweep, disk
    <3>2. w.body = NoBody \/ w.body \in Live
      BY <2>2 DEF Live, BodiesIn
    <3>3. NoBody \notin Doomed(p)
      BY <1>0, CoveredAssumption DEF Doomed, Typed, Tombstone
    <3> QED
      BY <1>0, <2>2, <3>1, <3>2, <3>3 DEF Typed
  <2> QED
    BY <1>0, <2>2, <2>3, <2>4, ContentsAre
<1>2. CASE w \notin Everything
  <2>1. w \in Everything'
    BY DEF NewestIn, Everything
  <2>2. PICK t \in Ingesters : Upsert(t)
    BY <1>0, <1>2, <2>1, NothingElse
  <2>3. w = [admitting[t] EXCEPT !.n = admitted + 1]
    BY <1>0, <1>2, <2>1, <2>2, UpsertIs
  <2>4. w.body \in payloads /\ ~Sweeping
    BY <2>2, <2>3 DEF Upsert
  <2>5. payloads' = payloads /\ doomed' = doomed
    BY <2>2 DEF Upsert, job
  <2>6. \A p \in Erasers : doomed[p] = {}
    BY <1>0, <2>4 DEF Sweeping, Permits
  <2> QED
    BY <2>4, <2>5, <2>6
<1> QED
  BY <1>1, <1>2

(* The log holds what the buffer does, and nothing newer (Store::seal,     *)
(* wal.rewrite).                                                           *)
LEMMA LoggedStep ==
    Typed /\ Permits /\ Numbered /\ BufferIsLogged /\ [Next]_vars => BufferIsLogged'
<1> SUFFICES ASSUME Typed, Permits, Numbered, BufferIsLogged, [Next]_vars PROVE BufferIsLogged'
  OBVIOUS
<1>1. CASE Restart
  BY <1>1, RestartIs DEF BufferIsLogged
<1>2. CASE \E t \in Ingesters : Upsert(t)
  <2>1. PICK t \in Ingesters : Upsert(t)
    BY <1>2
  <2>2. PICK v : /\ v.n = admitted + 1 /\ log' = log \cup {v}
                 /\ buffer' = {w \in buffer : w.key # v.key} \cup {v}
    BY <2>1, UpsertIs
  <2>3. \A w \in log : w.n \in Nat /\ w.n <= admitted /\ admitted \in Nat
    BY AllVersions DEF Numbered, Everything, Version, Typed
  <2>4. v \in NewestIn(log')
    BY <2>2, <2>3, SMTT(30) DEF NewestIn, Typed
  <2>5. ASSUME NEW w \in buffer, w.key # v.key PROVE w \in NewestIn(log')
    BY <2>2, <2>5 DEF NewestIn, BufferIsLogged
  <2> QED
    BY <2>2, <2>4, <2>5 DEF BufferIsLogged
<1>3. CASE Shrinks /\ ~Restart /\ ~\E t \in Ingesters : Upsert(t)
  <2>1. buffer \subseteq log /\ \A w \in buffer : \A u \in log : u.key = w.key => u.n <= w.n
    BY DEF BufferIsLogged, NewestIn
  <2>2. buffer' \subseteq buffer /\ log' \subseteq log
    BY <1>3, <2>1 DEF Shrinks
  <2>3. buffer' \subseteq log'
    <3>1. log' = log \/ log' = buffer' \/ log' = buffer
      <4>1. ASSUME NEW p \in Erasers, EraseStep(p) \/ EraseFails(p)
            PROVE  log' = log \/ log' = buffer' \/ log' = buffer
        BY <4>1 DEF EraseStep, EraseFails, NoteRefs, PurgeBuffer, PurgeSegment, EndPurge, Sweep,
           UnlinkPayload, EndSweep, Veil, Confirm, Checkpoint, Reclaim, Reclaimed, Settle, disk
      <4>2. CASE SealPublish
        BY <4>2 DEF SealPublish
      <4>3. \/ log' = log \/ SealPublish \/ Restart \/ (\E t \in Ingesters : Upsert(t))
            \/ \E p \in Erasers : EraseStep(p) \/ EraseFails(p)
        BY DEF Next, vars, Offload, PublishTail, SealDrain, Begin, BeginFails, Resume, disk
      <4> QED
        BY <1>3, <4>1, <4>2, <4>3
    <3> QED
      BY <2>1, <2>2, <3>1
  <2> QED
    BY <2>1, <2>2, <2>3 DEF BufferIsLogged, NewestIn
<1> QED
  BY <1>1, <1>2, <1>3, NothingNew
(* What an erasure covers stays stored while it is pending and nobody has  *)
(* begun to purge.                                                         *)
LEMMA CoveredStays ==
    ASSUME EraseInv, BufferIsLogged, [Next]_vars, Pending,
           \A p \in Erasers : pc[p] \in {"idle", "note"}
    PROVE  CoveredIn(Stored) \subseteq CoveredIn(Stored')
<1>0. Typed /\ Permits /\ Barrier
  BY DEF EraseInv
<1>1. ASSUME \A v \in Stored : v.key \in Covered => v \in Stored'
      PROVE  CoveredIn(Stored) \subseteq CoveredIn(Stored')
  BY <1>1 DEF CoveredIn
<1>2. ASSUME UNCHANGED <<files, buffer>> PROVE Stored' = Stored
  BY <1>2 DEF Stored
<1>3. CASE UNCHANGED vars
  BY <1>1, <1>2, <1>3 DEF vars, disk
<1>4. ASSUME NEW t \in Ingesters, Upsert(t) PROVE CoveredIn(Stored) \subseteq CoveredIn(Stored')
  <2>1. PICK v : /\ v.key = admitting[t].key /\ admitting[t] # Nobody /\ files' = files
                 /\ buffer' = {w \in buffer : w.key # v.key} \cup {v}
    BY <1>0, <1>4, UpsertIs
  <2>2. v.key \notin Covered
    BY <1>0, <2>1 DEF Barrier
  <2> QED
    BY <1>1, <2>1, <2>2 DEF Stored
<1>5. ASSUME NEW t \in Ingesters,
             \/ \E k \in Keys, c \in Bodies \cup {NoBody} : Offload(t, k, c)
             \/ PublishTail(t)
      PROVE  CoveredIn(Stored) \subseteq CoveredIn(Stored')
  BY <1>1, <1>2, <1>5 DEF Offload, PublishTail, disk
<1>6. CASE SealDrain \/ Begin \/ BeginFails \/ Resume
  BY <1>1, <1>2, <1>6 DEF SealDrain, Begin, BeginFails, Resume, disk
<1>7. CASE SealPublish
  BY <1>1, <1>7, StoredIs DEF SealPublish, Stored
<1>8. ASSUME NEW p \in Erasers, EraseStep(p) \/ EraseFails(p)
      PROVE  CoveredIn(Stored) \subseteq CoveredIn(Stored')
  <2>1. NoteRefs(p) \/ EraseFails(p)
    BY <1>8 DEF EraseStep, PurgeBuffer, PurgeSegment, EndPurge, Sweep, UnlinkPayload, EndSweep,
       Veil, Confirm, Checkpoint, Reclaim, Settle
  <2> QED
    BY <1>1, <1>2, <2>1 DEF NoteRefs, EraseFails
<1>9. CASE Restart
  BY <1>1, <1>9, RestartIs, StoredIs DEF BufferIsLogged, Stored
<1> QED
  BY <1>3, <1>4, <1>5, <1>6, <1>7, <1>8, <1>9 DEF Next

(* What an erasure owes, and the references it has recorded, change as it  *)
(* begins, notes and reloads.                                              *)
LEMMA RecordIs ==
    ASSUME [Next]_vars
    PROVE  /\ kind' = kind
           /\ \/ UNCHANGED <<record, owed>> /\ (UNCHANGED tombstone \/ BeginFails)
              \/ Begin \/ Restart
              \/ \E p \in Erasers : NoteRefs(p) \/ Settle(p) \/ EraseFails(p)
<1>1. ASSUME NEW p \in Erasers, EraseStep(p) \/ EraseFails(p)
      PROVE  /\ kind' = kind
             /\ UNCHANGED <<record, owed, tombstone>> \/ NoteRefs(p) \/ Settle(p) \/ EraseFails(p)
  BY <1>1 DEF choices, disk, bodies, EraseStep, EraseFails, NoteRefs, PurgeBuffer, PurgeSegment,
     EndPurge, Sweep, UnlinkPayload, EndSweep, Veil, Confirm, Checkpoint, Reclaim, Settle
<1>2. kind' = kind
  BY <1>1 DEF Next, vars, choices, Offload, Upsert, PublishTail, SealDrain, SealPublish, Begin,
     BeginFails, Resume, Restart
<1>3. ASSUME NEW t \in Ingesters,
             \/ \E k \in Keys, c \in Bodies \cup {NoBody} : Offload(t, k, c)
             \/ Upsert(t) \/ PublishTail(t)
      PROVE  UNCHANGED <<record, owed, tombstone>>
  BY <1>3 DEF Offload, Upsert, PublishTail, disk, bodies
<1>4. CASE UNCHANGED vars \/ SealDrain \/ SealPublish \/ Resume
  BY <1>2, <1>4 DEF vars, SealDrain, SealPublish, Resume, disk, bodies
<1>5. CASE BeginFails
  BY <1>2, <1>5 DEF BeginFails, bodies
<1> QED
  BY <1>1, <1>2, <1>3, <1>4, <1>5 DEF Next

(* Nobody begins to purge but behind its note.                             *)
LEMMA NotingIs ==
    ASSUME Typed, [Next]_vars, \A p \in Erasers : pc[p] \in {"idle", "note"}
    PROVE  \/ \E p \in Erasers : NoteRefs(p)
           \/ \A p \in Erasers : pc'[p] \in {"idle", "note"}
<1>0. /\ \A q \in Erasers, step \in PC : Goto(q, step) =>
             pc'[q] = step /\ \A r \in Erasers : r # q => pc'[r] = pc[r]
      /\ {"note", "idle"} \subseteq PC /\ Caller \in Erasers /\ Tick \in Erasers
  BY GotoIs DEF PC, Erasers
<1>1. CASE pc' = pc
  BY <1>1
<1>2. ASSUME NEW q \in Erasers, Goto(q, "idle") \/ Goto(q, "note")
      PROVE  \A p \in Erasers : pc'[p] \in {"idle", "note"}
  BY <1>0, <1>2
<1>3. ASSUME NEW q \in Erasers, EraseStep(q)
      PROVE  NoteRefs(q)
  BY <1>3 DEF EraseStep, PurgeBuffer, PurgeSegment, EndPurge, Sweep, UnlinkPayload, EndSweep,
     Veil, Confirm, Checkpoint, Reclaim, Settle
<1>4. ASSUME NEW q \in Erasers, EraseFails(q)
      PROVE  \A p \in Erasers : pc'[p] \in {"idle", "note"}
  BY <1>2, <1>4 DEF EraseFails
<1>5. CASE Begin \/ Resume
  BY <1>0, <1>2, <1>5 DEF Begin, Resume
<1>6. CASE Restart
  BY <1>6 DEF Restart
<1>7. \/ pc' = pc \/ Begin \/ Resume \/ Restart
      \/ \E q \in Erasers : EraseStep(q) \/ EraseFails(q)
  BY DEF Next, vars, Offload, Upsert, PublishTail, SealDrain, SealPublish, BeginFails
<1> QED
  BY <1>1, <1>3, <1>4, <1>5, <1>6, <1>7

(* Every step keeps account of what the erasure owes (note_payload_refs).  *)
LEMMA NotedStep ==
    EraseInv /\ BufferIsLogged /\ Noted /\ [Next]_vars => Noted'
<1> SUFFICES ASSUME EraseInv, BufferIsLogged, Noted, [Next]_vars PROVE Noted'
  OBVIOUS
<1>0. Typed /\ Recorded /\ kind' = kind
  BY RecordIs DEF EraseInv
<1> DEFINE Unnoted == /\ Pending /\ tombstone.state # "settled" /\ kind = "tenant"
                      /\ \A p \in Erasers : pc[p] \in {"idle", "note"}
                      /\ owed \subseteq record.refs \cup BodiesIn(CoveredIn(Stored))
<1>1. ASSUME Unnoted, Pending', tombstone'.state # "settled", owed' = owed,
             record.refs \subseteq record'.refs, ~\E p \in Erasers : NoteRefs(p)
      PROVE  Noted'
  <2>1. CoveredIn(Stored) \subseteq CoveredIn(Stored')
    BY <1>1, CoveredStays
  <2>2. owed' \subseteq record'.refs \cup BodiesIn(CoveredIn(Stored'))
    BY <1>1, <2>1 DEF BodiesIn
  <2>3. \A p \in Erasers : pc'[p] \in {"idle", "note"}
    BY <1>0, <1>1, NotingIs
  <2> QED
    BY <1>0, <1>1, <2>2, <2>3 DEF Noted
<1>2. ASSUME owed' \subseteq record'.refs PROVE Noted'
  BY <1>2 DEF Noted
<1>3. CASE Begin
  <2>1. /\ record.state = "none" /\ record' = [state |-> "pending", refs |-> Resolved]
        /\ tombstone' = record' /\ Goto(Caller, "note") /\ UNCHANGED <<files, buffer>>
        /\ owed' = IF kind = "tenant" THEN BodiesIn(CoveredIn(Stored)) ELSE Resolved
    BY <1>3 DEF Begin
  <2>2. CASE kind = "tenant"
    <3>1. \A p \in Erasers : pc'[p] \in {"idle", "note"}
      BY <1>0, <2>1, GotoIs DEF Recorded, Erasers, PC
    <3>2. Stored' = Stored
      BY <2>1 DEF Stored
    <3> QED
      BY <1>0, <2>1, <2>2, <3>1, <3>2 DEF Noted, Pending
  <2>3. CASE kind # "tenant"
    BY <1>2, <2>1, <2>3
  <2> QED
    BY <2>2, <2>3
<1>4. ASSUME NEW p \in Erasers, NoteRefs(p) PROVE Noted'
  <2> DEFINE noted == IF kind = "tenant" THEN BodiesIn(CoveredIn(Stored)) ELSE {}
  <2>1. record' = [record EXCEPT !.refs = @ \cup noted] /\ owed' = owed
    BY <1>4 DEF NoteRefs, bodies
  <2>2. record'.refs = record.refs \cup noted
    BY <1>0, <2>1 DEF Typed, Tombstone
  <2>3. owed \subseteq record.refs \cup noted
    BY DEF Noted
  <2> QED
    BY <1>2, <2>1, <2>2, <2>3
<1>5. CASE BeginFails
  BY <1>0, <1>2, <1>5 DEF BeginFails, bodies, Recorded
<1>6. CASE UNCHANGED <<record, owed, tombstone>> /\ ~\E p \in Erasers : NoteRefs(p)
  <2>1. Unnoted => Noted'
    BY <1>1, <1>6 DEF Pending
  <2> QED
    BY <1>2, <1>6, <2>1 DEF Noted
<1>7. ASSUME NEW p \in Erasers, Settle(p) \/ EraseFails(p), ~\E q \in Erasers : NoteRefs(q)
      PROVE  Noted'
  <2>1. /\ owed' = owed /\ record'.refs = record.refs
        /\ pc[p] = "settle" \/ (record' = record /\ tombstone' = tombstone)
    BY <1>0, <1>7 DEF Settle, EraseFails, bodies, Typed, Tombstone
  <2>2. Unnoted => record' = record /\ tombstone' = tombstone
    BY <2>1
  <2>3. Unnoted => Noted'
    BY <1>1, <1>7, <2>1, <2>2 DEF Pending
  <2> QED
    BY <1>2, <2>1, <2>3 DEF Noted
<1>8. CASE Restart
  <2>1. record' = tombstone /\ tombstone' = tombstone /\ owed' = owed
    BY <1>8 DEF Restart, Reloaded, disk, bodies
  <2>2. CASE record.state = "none"
    BY <1>0, <1>2, <2>1, <2>2 DEF Recorded
  <2>3. CASE record.state # "none"
    <3>1. tombstone.refs = record.refs /\ tombstone.state # "none"
      BY <1>0, <2>3 DEF Recorded
    <3>2. Unnoted => tombstone.state = "pending"
      BY <1>0, <3>1 DEF Typed, Tombstone
    <3>3. ASSUME NEW p \in Erasers, NoteRefs(p) PROVE FALSE
      BY <1>0, <1>8, <3>3, GotoIs DEF Restart, NoteRefs, PC
    <3>4. Unnoted => Noted'
      BY <1>1, <2>1, <3>1, <3>2, <3>3 DEF Pending
    <3> QED
      BY <1>2, <2>1, <3>1, <3>4 DEF Noted
  <2> QED
    BY <2>2, <2>3
<1> QED
  BY <1>3, <1>4, <1>5, <1>6, <1>7, <1>8, RecordIs
(* An eraser is behind its sweep by ending one.                            *)
LEMMA SweptIs ==
    ASSUME Typed, Permits, [Next]_vars, NEW p \in Erasers, Swept(p)'
    PROVE  Swept(p) \/ (EndSweep(p) /\ pc[p] = "unlink")
<1>0. /\ \A q \in Erasers, step \in PC : Goto(q, step) =>
             pc'[q] = step /\ \A r \in Erasers : r # q => pc'[r] = pc[r]
      /\ {"note", "purge", "segments", "sweep", "unlink", "veil", "confirm", "checkpoint",
          "reclaim", "settle", "idle"} \subseteq PC
      /\ Caller \in Erasers /\ Tick \in Erasers
  BY GotoIs DEF PC, Erasers
<1> DEFINE Behind(step, n) == \/ step \in {"veil", "confirm", "checkpoint", "reclaim", "settle"}
                              \/ n = 2 /\ step \in {"purge", "segments"}
<1>1. Swept(p) <=> Behind(pc[p], pass[p])
  BY DEF Swept, Purged
<1>2. Behind(pc'[p], pass'[p])
  BY DEF Swept, Purged
<1>3. ASSUME UNCHANGED <<pc, pass>> PROVE Swept(p)
  BY <1>1, <1>2, <1>3
<1>4. CASE UNCHANGED vars
  BY <1>3, <1>4 DEF vars, job
<1>5. ASSUME NEW t \in Ingesters,
             \/ \E k \in Keys, c \in Bodies \cup {NoBody} : Offload(t, k, c)
             \/ Upsert(t) \/ PublishTail(t)
      PROVE  Swept(p)
  BY <1>3, <1>5 DEF Offload, Upsert, PublishTail, job
<1>6. CASE SealDrain \/ SealPublish \/ BeginFails
  BY <1>3, <1>6 DEF SealDrain, SealPublish, BeginFails, job
<1>7. CASE Begin \/ Resume
  <2>1. pass' = pass /\ (Goto(Caller, "note") \/ Goto(Tick, "note"))
    BY <1>7 DEF Begin, Resume, job
  <2> QED
    BY <1>0, <1>1, <1>2, <2>1
<1>8. ASSUME NEW q \in Erasers, q # p, EraseStep(q) \/ EraseFails(q) PROVE Swept(p)
  <2>1. pc'[p] = pc[p]
    <3>1. pc' = pc \/ \E step \in PC : Goto(q, step)
      BY <1>0, <1>8 DEF EraseStep, EraseFails, NoteRefs, PurgeBuffer, PurgeSegment, EndPurge, Sweep,
         UnlinkPayload, EndSweep, Veil, Confirm, Checkpoint, Reclaim, Settle
    <3> QED
      BY <1>0, <1>8, <3>1
  <2>2. pass'[p] = pass[p]
    BY <1>8 DEF Typed, EraseStep, EraseFails, NoteRefs, PurgeBuffer, PurgeSegment, EndPurge, Sweep,
       UnlinkPayload, EndSweep, Veil, Confirm, Checkpoint, Reclaim, Settle, job
  <2> QED
    BY <1>1, <1>2, <2>1, <2>2
<1>9. ASSUME EraseStep(p) \/ EraseFails(p) PROVE Swept(p) \/ (EndSweep(p) /\ pc[p] = "unlink")
  <2>1. CASE NoteRefs(p)
    BY <1>0, <1>2, <2>1 DEF NoteRefs, Typed
  <2>2. CASE PurgeBuffer(p)
    BY <1>0, <1>1, <1>2, <2>2 DEF PurgeBuffer
  <2>3. CASE PurgeSegment(p) \/ UnlinkPayload(p)
    BY <1>3, <2>3 DEF PurgeSegment, UnlinkPayload
  <2>4. CASE EndPurge(p)
    <3>1. /\ pc[p] = "segments" /\ pass' = pass
          /\ \/ pass[p] = 1 /\ Goto(p, "sweep")
             \/ pass[p] # 1 /\ Goto(p, "veil")
      BY <2>4 DEF EndPurge, job
    <3> QED
      BY <1>0, <1>1, <1>2, <3>1 DEF Typed
  <2>5. CASE Sweep(p)
    BY <1>0, <1>2, <2>5 DEF Sweep
  <2>6. CASE EndSweep(p)
    BY <2>6 DEF EndSweep
  <2>7. CASE Veil(p) \/ Confirm(p) \/ Checkpoint(p) \/ Reclaim(p) \/ Settle(p)
    BY <1>1, <2>7 DEF Veil, Confirm, Checkpoint, Reclaim, Settle
  <2>8. CASE EraseFails(p)
    BY <1>0, <1>2, <2>8 DEF EraseFails
  <2> QED
    BY <1>9, <2>1, <2>2, <2>3, <2>4, <2>5, <2>6, <2>7, <2>8 DEF EraseStep
<1>10. ~Restart
  BY <1>2 DEF Restart
<1> QED
  BY <1>4, <1>5, <1>6, <1>7, <1>8, <1>9, <1>10 DEF Next

(* An eraser is at its unlinks since it swept.                             *)
LEMMA UnlinkingIs ==
    ASSUME Typed, [Next]_vars, NEW p \in Erasers, pc'[p] = "unlink"
    PROVE  Sweep(p) \/ (pc[p] = "unlink" /\ (UnlinkPayload(p) \/ doomed'[p] = doomed[p]))
<1>0. /\ \A q \in Erasers, step \in PC : Goto(q, step) =>
             pc'[q] = step /\ \A r \in Erasers : r # q => pc'[r] = pc[r]
      /\ {"note", "purge", "segments", "sweep", "unlink", "veil", "confirm", "checkpoint",
          "reclaim", "settle", "idle"} \subseteq PC
      /\ Caller \in Erasers /\ Tick \in Erasers
  BY GotoIs DEF PC, Erasers
<1>1. CASE UNCHANGED <<pc, doomed>>
  BY <1>1
<1>2. CASE Begin \/ Resume
  <2>1. doomed' = doomed /\ (Goto(Caller, "note") \/ Goto(Tick, "note"))
    BY <1>2 DEF Begin, Resume, job
  <2> QED
    BY <1>0, <2>1
<1>3. ASSUME NEW q \in Erasers, q # p, EraseStep(q) \/ EraseFails(q)
      PROVE  pc[p] = "unlink" /\ doomed'[p] = doomed[p]
  <2>1. pc'[p] = pc[p]
    <3>1. pc' = pc \/ \E step \in PC : Goto(q, step)
      BY <1>0, <1>3 DEF EraseStep, EraseFails, NoteRefs, PurgeBuffer, PurgeSegment, EndPurge, Sweep,
         UnlinkPayload, EndSweep, Veil, Confirm, Checkpoint, Reclaim, Settle
    <3> QED
      BY <1>0, <1>3, <3>1
  <2>2. doomed'[p] = doomed[p]
    BY <1>3 DEF Typed, EraseStep, EraseFails, NoteRefs, PurgeBuffer, PurgeSegment, EndPurge, Sweep,
       UnlinkPayload, EndSweep, Veil, Confirm, Checkpoint, Reclaim, Settle, job
  <2> QED
    BY <2>1, <2>2
<1>4. ASSUME EraseStep(p) \/ EraseFails(p)
      PROVE  Sweep(p) \/ (pc[p] = "unlink" /\ (UnlinkPayload(p) \/ doomed'[p] = doomed[p]))
  <2>1. CASE PurgeSegment(p)
    BY <2>1 DEF PurgeSegment
  <2>2. CASE UnlinkPayload(p)
    BY <2>2 DEF UnlinkPayload
  <2>3. CASE Sweep(p)
    BY <2>3
  <2>4. ASSUME \E step \in PC \ {"unlink"} : Goto(p, step) PROVE FALSE
    BY <1>0, <2>4
  <2> QED
    BY <1>0, <1>4, <2>1, <2>2, <2>3, <2>4 DEF EraseStep, EraseFails, NoteRefs, PurgeBuffer,
       EndPurge, EndSweep, Veil, Confirm, Checkpoint, Reclaim, Settle
<1>5. ~Restart
  BY DEF Restart
<1>6. \/ UNCHANGED <<pc, doomed>> \/ Begin \/ Resume \/ Restart
      \/ \E q \in Erasers : EraseStep(q) \/ EraseFails(q)
  BY DEF Next, vars, Offload, Upsert, PublishTail, SealDrain, SealPublish, BeginFails, job
<1> QED
  BY <1>1, <1>2, <1>3, <1>4, <1>5, <1>6

(* What is owed and still there was spared, unless a sweep is at it, a new *)
(* erasure begins, or an unlink has taken it (complete_erasure).           *)
LEMMA OwingIs ==
    ASSUME Typed, [Next]_vars, ~Begin
    PROVE  \A S : owed \cap payloads \subseteq spared \cup S =>
              /\ owed' \cap payloads' \subseteq spared' \cup S
              /\ \A p \in Erasers : UnlinkPayload(p) => \E c \in doomed[p] :
                    /\ doomed'[p] = doomed[p] \ {c}
                    /\ owed' \cap payloads' \subseteq spared' \cup (S \ {c})
<1> SUFFICES ASSUME NEW S, owed \cap payloads \subseteq spared \cup S
             PROVE  /\ owed' \cap payloads' \subseteq spared' \cup S
                    /\ \A p \in Erasers : UnlinkPayload(p) => \E c \in doomed[p] :
                          /\ doomed'[p] = doomed[p] \ {c}
                          /\ owed' \cap payloads' \subseteq spared' \cup (S \ {c})
  OBVIOUS
<1>1. ASSUME UNCHANGED <<owed, payloads>>, spared \subseteq spared'
      PROVE  owed' \cap payloads' \subseteq spared' \cup S
  BY <1>1
<1>2. ASSUME NEW t \in Ingesters, NEW k \in Keys, NEW c \in Bodies \cup {NoBody}, Offload(t, k, c)
      PROVE  owed' \cap payloads' \subseteq spared' \cup S
  BY <1>2 DEF Offload
<1>3. ASSUME NEW p \in Erasers, UnlinkPayload(p)
      PROVE  /\ owed' \cap payloads' \subseteq spared' \cup S
             /\ \E c \in doomed[p] : /\ doomed'[p] = doomed[p] \ {c}
                                     /\ owed' \cap payloads' \subseteq spared' \cup (S \ {c})
  <2>1. PICK c \in doomed[p] : /\ payloads' = payloads \ {c} /\ spared' = spared \ {c}
                               /\ doomed' = [doomed EXCEPT ![p] = @ \ {c}]
    BY <1>3 DEF UnlinkPayload
  <2>2. owed' = owed /\ doomed'[p] = doomed[p] \ {c}
    BY <1>3, <2>1 DEF UnlinkPayload, Typed
  <2>3. owed' \cap payloads' \subseteq spared' \cup (S \ {c})
    BY <2>1, <2>2
  <2> QED
    BY <2>2, <2>3
<1>4. ASSUME NEW p \in Erasers, EraseStep(p) \/ EraseFails(p)
      PROVE  UnlinkPayload(p) \/ (UNCHANGED <<owed, payloads>> /\ spared \subseteq spared')
  BY <1>4 DEF EraseStep, EraseFails, NoteRefs, PurgeBuffer, PurgeSegment, EndPurge, Sweep, EndSweep,
     Veil, Confirm, Checkpoint, Reclaim, Settle, disk, bodies
<1>5. \/ UNCHANGED <<owed, payloads>> /\ spared \subseteq spared'
      \/ \E t \in Ingesters, k \in Keys, c \in Bodies \cup {NoBody} : Offload(t, k, c)
      \/ \E p \in Erasers : UnlinkPayload(p)
  BY <1>4 DEF Next, vars, Upsert, PublishTail, SealDrain, SealPublish, BeginFails, Resume, Restart,
     disk, bodies
<1> QED
  BY <1>1, <1>2, <1>3, <1>5

(* Every step settles what it owes (complete_erasure).                     *)
LEMMA OwedStep == EraseInv /\ Noted /\ Owed /\ [Next]_vars => Owed'
<1> SUFFICES ASSUME EraseInv, Noted, Owed, [Next]_vars PROVE Owed'
  OBVIOUS
<1>0. Typed /\ Permits /\ Recorded
  BY DEF EraseInv
<1>1. CASE Begin
  <2>1. /\ record.state = "none" /\ tombstone'.state = "pending" /\ Goto(Caller, "note")
        /\ pass' = pass
    BY <1>1 DEF Begin, job
  <2>2. \A p \in Erasers : pc'[p] \in {"idle", "note"}
    BY <1>0, <2>1, GotoIs DEF Recorded, Erasers, PC
  <2> QED
    BY <2>1, <2>2 DEF Owed, OwedPayloadsAreGone, Swept, Purged
<1>2. CASE ~Begin
  <2>1. ASSUME owed \cap payloads \subseteq spared PROVE owed' \cap payloads' \subseteq spared'
    BY <1>0, <1>2, <2>1, OwingIs
  <2>2. ASSUME NEW p \in Erasers, Swept(p)' PROVE owed' \cap payloads' \subseteq spared'
    <3>1. CASE Swept(p)
      BY <2>1, <3>1 DEF Owed
    <3>2. CASE EndSweep(p) /\ pc[p] = "unlink"
      BY <2>1, <3>2 DEF Owed, EndSweep
    <3> QED
      BY <1>0, <2>2, <3>1, <3>2, SweptIs
  <2>3. ASSUME NEW p \in Erasers, pc'[p] = "unlink"
        PROVE  owed' \cap payloads' \subseteq spared' \cup doomed'[p]
    <3>1. CASE Sweep(p)
      <4>1. /\ doomed' = [doomed EXCEPT ![p] = Doomed(p) \ Live] /\ pc[p] = "sweep"
            /\ spared' = spared \cup (Doomed(p) \cap Live) /\ owed' = owed
        BY <3>1 DEF Sweep
      <4>2. doomed'[p] = Doomed(p) \ Live
        BY <1>0, <4>1 DEF Typed
      <4>3. owed \subseteq Doomed(p)
        BY <4>1 DEF Noted, Doomed
      <4> QED
        BY <4>1, <4>2, <4>3
    <3>2. CASE pc[p] = "unlink" /\ UnlinkPayload(p)
      BY <1>0, <1>2, <3>2, OwingIs DEF Owed
    <3>3. CASE pc[p] = "unlink" /\ doomed'[p] = doomed[p]
      BY <1>0, <1>2, <3>3, OwingIs DEF Owed
    <3> QED
      BY <1>0, <2>3, <3>1, <3>2, <3>3, UnlinkingIs
  <2>4. ASSUME tombstone'.state = "settled" PROVE owed' \cap payloads' \subseteq spared'
    <3>1. CASE tombstone.state = "settled"
      BY <2>1, <3>1 DEF Owed, OwedPayloadsAreGone
    <3>2. ASSUME NEW p \in Erasers, pc[p] = "settle" PROVE owed' \cap payloads' \subseteq spared'
      BY <2>1, <3>2 DEF Owed, Swept, Purged
    <3> QED
      BY <1>0, <2>4, <3>1, <3>2, SettledIs
  <2> QED
    BY <2>2, <2>3, <2>4 DEF Owed, OwedPayloadsAreGone
<1> QED
  BY <1>1, <1>2

(* Payload files follow the spans: what an erasure owes is gone or spared  *)
(* once it has settled, and what a visible span outside the subject has is *)
(* never taken, but for admissions that race the unlinks (complete_erasure,*)
(* live_payload_refs, note_payload_refs).                                  *)
THEOREM PayloadsFollow == Spec => []PayloadsFollowSpans
<1>1. Init => Kept /\ PayloadInv
  <2> SUFFICES ASSUME Init PROVE Kept /\ PayloadInv
    OBVIOUS
  <2>1. Stored = {} /\ Published = {} /\ drained = {} /\ log = {} /\ buffer = {} /\ acked = {}
    BY DEF Init, Stored, Published
  <2>2. owed = {} /\ tombstone.state = "none" /\ \A p \in Erasers : pc[p] = "idle"
    BY DEF Init, NoRecord
  <2> QED
    BY <2>1, <2>2 DEF Kept, PayloadInv, Shared, NewestIn, BufferIsLogged, Noted, Owed,
       OwedPayloadsAreGone, Swept, Purged
<1>2. EraseInv /\ Kept /\ PayloadInv /\ [Next]_vars => PayloadInv'
  BY SharedStep, LoggedStep, NotedStep, OwedStep DEF PayloadInv, EraseInv
<1>3. PayloadInv => PayloadsFollowSpans
  BY DEF PayloadInv, Owed, Shared, Rightful, PayloadsFollowSpans, SharedPayloadsAreKept
<1> QED
  BY <1>1, <1>2, <1>3, KeptStep, EraseInvariant, PTL DEF Spec
=============================================================================

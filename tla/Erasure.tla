------------------------------ MODULE Erasure -------------------------------
(***************************************************************************)
(* How Traza erases a subject: the intent record and its mask, the         *)
(* admission gate, the purge of buffer, log and segments, the reference-   *)
(* aware deletion of payload files, the veil over the live tail, the       *)
(* checkpoint and the settle that lifts the mask (src/src/lib.rs erase,    *)
(* complete_erasure; src/src/erasure.rs; src/src/tail.rs), beside ingest,  *)
(* seals, crashes and the maintenance tick that resumes what is pending.   *)
(*                                                                         *)
(* Abstractions.  One erasure, of a subject that drops the spans of the    *)
(* keys Covered: a "trace" stands for the trace, session and span          *)
(* subjects, which resolve to keys and payload references when they        *)
(* begin; a "tenant" is a predicate and notes its references later.  A     *)
(* batch is one span.  A segment is the set of versions it holds, and its  *)
(* file, its entry in the live list and the reconciled buffer appear in    *)
(* one step (Store.tla takes that apart).  The log keeps what was appended *)
(* through any crash (Wal.tla).  The ring is never full.                   *)
(***************************************************************************)
EXTENDS Integers, FiniteSets

CONSTANTS
    Keys, Covered,  \* primary keys; those the subject covers
    Bodies,         \* contents offloaded to payload files
    Ingesters,      \* threads calling ingest_batch
    Kinds,          \* the subjects that may be erased
    Hosts,          \* what embeds the store (see HostKinds)
    Faults,         \* the faults this instance may suffer (see FaultKinds)
    MaxSpans,       \* bound: spans admitted
    MaxFaults       \* bound: faults

Free == "free"
NoBody == "none"
Caller == "caller"  \* the thread in erase
Tick == "tick"      \* the thread in resume_erasures
Erasers == {Caller, Tick}
HostKinds == {"server",     \* resume_erasures runs on every maintenance tick
              "embedded"}   \* it runs only when no erasure is in progress
FaultKinds == {"kill",      \* the process dies, the page cache survives
               "io"}        \* a write, rename, unlink or fsync returns an error

ASSUME CoveredAssumption == Covered \subseteq Keys /\ NoBody \notin Bodies
ASSUME IngestersAssumption == Ingesters \cap {Free, Caller, Tick} = {}
ASSUME ChoicesAssumption == /\ Kinds \subseteq {"trace", "tenant"}
                            /\ Hosts \subseteq HostKinds
                            /\ Faults \subseteq FaultKinds
ASSUME BoundsAssumption == {MaxSpans, MaxFaults} \subseteq Nat

VARIABLES
    kind, host,         \* chosen once
    files, log,         \* segment files; versions in wal.log
    payloads,           \* contents with a payload file
    tombstone,          \* tombstones.jsonl: what the disk says of the erasure
    buffer, record,     \* in memory: the write buffer; the replayed tombstone
    ring, veiled,       \* versions in the live tail; those a veil withholds
    admitting,          \* ingester -> the span it offloaded, holding the gate
    publishing,         \* ingester -> the version it has yet to publish
    maintenance, permit,    \* holders of the maintenance and the sealing mutex
    drained,            \* what the seal in flight copied out of the buffer
    pc, pass,           \* per eraser: next step; first purge or confirm
    found, refs,        \* per eraser: keys and contents its purge removed
    todo, doomed,       \* per eraser: segments to purge, payloads to unlink
    admitted, acked,    \* spans admitted; versions whose ingest returned Ok
    cut, settledCut,    \* `admitted` when the erasure began, when it settled
    owed, spared,       \* contents it must delete; has grounds to leave
    racing,             \* versions admitted between a sweep's look and unlink
    faults

disk    == <<files, log, payloads, tombstone>>
tail    == <<ring, veiled>>
ingest  == <<admitting, publishing>>
locks   == <<maintenance, permit>>
job     == <<pass, found, refs, todo, doomed>>
cuts    == <<cut, settledCut>>
bodies  == <<owed, spared, racing>>
counts  == <<admitted, acked>>
choices == <<kind, host>>
vars    == <<choices, disk, buffer, record, tail, ingest, locks, drained, pc, job, counts,
             cuts, bodies, faults>>

Nobody == [key |-> Free, body |-> NoBody, n |-> 0]
NoRecord == [state |-> "none", refs |-> {}]

Init ==
    /\ kind \in Kinds /\ host \in Hosts
    /\ files = {} /\ log = {} /\ payloads = {} /\ tombstone = NoRecord
    /\ buffer = {} /\ record = NoRecord /\ ring = {} /\ veiled = {}
    /\ admitting = [t \in Ingesters |-> Nobody] /\ publishing = [t \in Ingesters |-> Nobody]
    /\ maintenance = Free /\ permit = Free /\ drained = {}
    /\ pc = [p \in Erasers |-> "idle"] /\ pass = [p \in Erasers |-> 1]
    /\ found = [p \in Erasers |-> {}] /\ refs = [p \in Erasers |-> {}]
    /\ todo = [p \in Erasers |-> {}] /\ doomed = [p \in Erasers |-> {}]
    /\ admitted = 0 /\ acked = {} /\ cut = 0 /\ settledCut = 0
    /\ owed = {} /\ spared = {} /\ racing = {} /\ faults = 0

Fault(kindOf) == kindOf \in Faults /\ faults < MaxFaults /\ faults' = faults + 1

CoveredIn(versions) == {v \in versions : v.key \in Covered}
BodiesIn(versions) == {v.body : v \in versions} \ {NoBody}
KeysIn(versions) == {v.key : v \in versions}

\* Every physical record of a span, superseded versions included.
Stored == (UNION files) \cup buffer
NewestIn(versions) == {v \in versions : \A w \in versions : w.key = v.key => w.n <= v.n}

Pending == record.state = "pending"

-----------------------------------------------------------------------------
(* Ingest.                                                                 *)

\* Under the read half of the gate: the mask is loaded, covered spans are
\* dropped (and nothing happens), the body of the others is offloaded.
Offload(t, key, body) ==
    /\ admitting[t] = Nobody /\ publishing[t] = Nobody
    /\ admitted + Cardinality({u \in Ingesters : admitting[u] # Nobody}) < MaxSpans
    /\ ~(Pending /\ key \in Covered)
    /\ admitting' = [admitting EXCEPT ![t] = [key |-> key, body |-> body, n |-> 0]]
    /\ payloads' = payloads \cup ({body} \ {NoBody})
    /\ spared' = spared \cup ({body} \ (payloads \cup {NoBody}))
    /\ UNCHANGED <<choices, files, log, tombstone, buffer, record, tail, publishing, locks,
                   drained, pc, job, counts, cuts, owed, racing, faults>>

Sweeping == \E p \in Erasers : pc[p] = "unlink"

\* The log append and the upsert, under the writer lock; then the gate drops.
Upsert(t) ==
    /\ admitting[t] # Nobody
    /\ LET v == [admitting[t] EXCEPT !.n = admitted + 1]
       IN  /\ log' = log \cup {v}
           /\ buffer' = {w \in buffer : w.key # v.key} \cup {v}
           /\ publishing' = [publishing EXCEPT ![t] = v]
           /\ racing' = IF v.body \notin payloads \/ Sweeping THEN racing \cup {v.n} ELSE racing
    /\ admitted' = admitted + 1
    /\ admitting' = [admitting EXCEPT ![t] = Nobody]
    /\ UNCHANGED <<choices, files, payloads, tombstone, record, tail, locks, drained, pc, job,
                   acked, cuts, owed, spared, faults>>

\* After the commit and any seal: the tail, and Ok to the client.
PublishTail(t) ==
    /\ publishing[t] # Nobody
    /\ ring' = ring \cup {publishing[t]}
    /\ acked' = acked \cup {publishing[t]}
    /\ publishing' = [publishing EXCEPT ![t] = Nobody]
    /\ UNCHANGED <<choices, disk, buffer, record, veiled, admitting, locks, drained, pc, job,
                   admitted, cuts, bodies, faults>>

SealDrain ==
    /\ permit = Free /\ buffer # {}
    /\ permit' = "sealer" /\ drained' = buffer
    /\ UNCHANGED <<choices, disk, buffer, record, tail, ingest, maintenance, pc, job, counts,
                   cuts, bodies, faults>>

\* Write, publish, reconcile.  With nothing left over the log is emptied;
\* otherwise it is left alone or, past flush_wal_bytes, rewritten.
SealPublish ==
    /\ permit = "sealer" /\ permit' = Free /\ drained' = {}
    /\ files' = files \cup {drained}
    /\ buffer' = buffer \ drained
    /\ log' \in {buffer'} \cup (IF buffer' = {} THEN {} ELSE {log})
    /\ UNCHANGED <<choices, payloads, tombstone, record, tail, ingest, maintenance, pc, job,
                   counts, cuts, bodies, faults>>

-----------------------------------------------------------------------------
(* The erasure.                                                            *)

Goto(p, step) == pc' = [pc EXCEPT ![p] = step]
Clear == [p \in Erasers |-> {}]

GateFree_Ignored == TRUE
\* The write half of the gate: no admission is between its mask and its upsert.
GateFree == \A t \in Ingesters : admitting[t] = Nobody

\* Trace, span and session subjects record the references their visible spans
\* hold; a tenant records none yet.
Resolved == IF kind = "tenant" THEN {} ELSE BodiesIn(CoveredIn(NewestIn(Stored)))

Begin ==
    /\ pc[Caller] = "idle" /\ record.state = "none" /\ GateFree
    /\ record' = [state |-> "pending", refs |-> Resolved]
    /\ tombstone' = record'
    /\ cut' = admitted
    /\ owed' = IF kind = "tenant" THEN BodiesIn(CoveredIn(Stored)) ELSE Resolved
    /\ spared' = {} /\ Goto(Caller, "note")
    /\ UNCHANGED <<choices, files, log, payloads, buffer, tail, ingest, locks, drained, job,
                   counts, settledCut, racing, faults>>

\* The intent's append failed: the line may have reached the file.
BeginFails ==
    /\ pc[Caller] = "idle" /\ record.state = "none" /\ GateFree /\ Fault("io")
    /\ tombstone' \in {tombstone, [state |-> "pending", refs |-> Resolved]}
    /\ UNCHANGED <<choices, files, log, payloads, buffer, record, tail, ingest, locks, drained,
                   pc, job, counts, cuts, bodies>>

Resume ==
    /\ Pending /\ pc[Tick] = "idle"
    /\ host = "server" \/ pc[Caller] = "idle"
    /\ Goto(Tick, "note")
    /\ UNCHANGED <<choices, disk, buffer, record, tail, ingest, locks, drained, job, counts,
                   cuts, bodies, faults>>

\* Under the maintenance lock.  A tenant's references are noted durably before
\* the purge removes the spans that carry them.
NoteRefs(p) ==
    /\ pc[p] = "note" /\ maintenance = Free /\ maintenance' = p
    /\ LET noted == IF kind = "tenant" THEN BodiesIn(CoveredIn(Stored)) ELSE {}
       IN  /\ record' = [record EXCEPT !.refs = @ \cup noted]
           /\ tombstone' = [tombstone EXCEPT !.refs = @ \cup noted]
    /\ Goto(p, "purge") /\ pass' = [pass EXCEPT ![p] = 1]
    /\ found' = [found EXCEPT ![p] = {}] /\ refs' = [refs EXCEPT ![p] = {}]
    /\ UNCHANGED <<choices, files, log, payloads, buffer, tail, ingest, permit, drained, todo,
                   doomed, counts, cuts, bodies, faults>>

\* wal.rewrite replaces the log by the buffer's survivors.
\* purge_subject_locked, its first half: the log is rewritten, if the buffer
\* held anything covered, and then the buffer.
PurgeBuffer(p) ==
    /\ pc[p] = "purge" /\ permit = Free /\ permit' = p
    /\ LET gone == CoveredIn(buffer)
       IN  /\ log' = IF gone = {} THEN log ELSE buffer \ gone
           /\ buffer' = buffer \ gone
           /\ found' = [found EXCEPT ![p] = KeysIn(gone)]
           /\ refs' = [refs EXCEPT ![p] = @ \cup BodiesIn(gone)]
    /\ todo' = [todo EXCEPT ![p] = {f \in files : CoveredIn(f) # {}}]
    /\ Goto(p, "segments")
    /\ UNCHANGED <<choices, files, payloads, tombstone, record, tail, ingest, maintenance,
                   drained, pass, doomed, counts, cuts, bodies, faults>>

\* Rewritten in place, or unlinked when nothing is kept.
PurgeSegment(p) ==
    /\ pc[p] = "segments"
    /\ \E f \in todo[p] :
          /\ files' = (files \ {f}) \cup ({f \ CoveredIn(f)} \ {{}})
          /\ todo' = [todo EXCEPT ![p] = @ \ {f}]
          /\ found' = [found EXCEPT ![p] = @ \cup KeysIn(CoveredIn(f))]
          /\ refs' = [refs EXCEPT ![p] = @ \cup BodiesIn(CoveredIn(f))]
    /\ UNCHANGED <<choices, log, payloads, tombstone, buffer, record, tail, ingest, locks,
                   drained, pc, pass, doomed, counts, cuts, bodies, faults>>

\* The confirming purge ends the second maintenance section.
EndPurge(p) ==
    /\ pc[p] = "segments" /\ todo[p] = {}
    /\ permit' = Free
    /\ IF pass[p] = 1 THEN Goto(p, "sweep") /\ UNCHANGED maintenance
                      ELSE Goto(p, "veil") /\ maintenance' = Free
    /\ UNCHANGED <<choices, disk, buffer, record, tail, ingest, drained, job, counts, cuts,
                   bodies, faults>>

Doomed_Purged(p) == refs[p]
\* What the record accounts for, and what this purge saw.
Doomed(p) == record.refs \cup refs[p]

\* live_payload_refs, computed after the purge.
Live == BodiesIn(Stored)

Sweep(p) ==
    /\ pc[p] = "sweep" /\ Goto(p, "unlink")
    /\ doomed' = [doomed EXCEPT ![p] = Doomed(p) \ Live]
    /\ spared' = spared \cup (Doomed(p) \cap Live)
    /\ UNCHANGED <<choices, disk, buffer, record, tail, ingest, locks, drained, pass, found,
                   refs, todo, counts, cuts, owed, racing, faults>>

UnlinkPayload(p) ==
    /\ pc[p] = "unlink"
    /\ \E c \in doomed[p] : /\ payloads' = payloads \ {c}
                            /\ doomed' = [doomed EXCEPT ![p] = @ \ {c}]
                            /\ spared' = spared \ {c}
    /\ UNCHANGED <<choices, files, log, tombstone, buffer, record, tail, ingest, locks, drained,
                   pc, pass, found, refs, todo, counts, cuts, owed, racing, faults>>

EndSweep(p) ==
    /\ pc[p] = "unlink" /\ doomed[p] = {}
    /\ maintenance' = Free /\ Goto(p, "veil")
    /\ UNCHANGED <<choices, disk, buffer, record, tail, ingest, permit, drained, job, counts,
                   cuts, bodies, faults>>

\* The keys this purge removed, or the tenant; the confirming purge veils
\* only what it found.
Shadow(p) == IF kind = "tenant" /\ (pass[p] = 1 \/ found[p] # {}) THEN Covered ELSE found[p]

\* Every entry of theirs that the ring holds now.
Veil(p) ==
    /\ pc[p] = "veil"
    /\ veiled' = veiled \cup {v \in ring : v.key \in Shadow(p)}
    /\ Goto(p, IF pass[p] = 1 THEN "confirm" ELSE "checkpoint")
    /\ UNCHANGED <<choices, disk, buffer, record, ring, ingest, locks, drained, job, counts,
                   cuts, bodies, faults>>

Confirm(p) ==
    /\ pc[p] = "confirm" /\ maintenance = Free /\ maintenance' = p
    /\ pass' = [pass EXCEPT ![p] = 2] /\ Goto(p, "purge")
    /\ UNCHANGED <<choices, disk, buffer, record, tail, ingest, permit, drained, found, refs,
                   todo, doomed, counts, cuts, bodies, faults>>

\* checkpoint: seals the buffer, publishes the generation,
Checkpoint(p) ==
    /\ pc[p] = "checkpoint" /\ maintenance = Free /\ permit = Free
    /\ maintenance' = p /\ permit' = p
    /\ files' = files \cup ({buffer} \ {{}})
    /\ buffer' = {}
    /\ Goto(p, "reclaim")
    /\ UNCHANGED <<choices, log, payloads, tombstone, record, tail, ingest, drained, job,
                   counts, cuts, bodies, faults>>

\* and rewrites the log to what was admitted meanwhile.
Reclaimed == buffer

Reclaim(p) ==
    /\ pc[p] = "reclaim"
    /\ log' = Reclaimed
    /\ maintenance' = Free /\ permit' = Free /\ Goto(p, "settle")
    /\ UNCHANGED <<choices, files, payloads, tombstone, buffer, record, tail, ingest, drained,
                   job, counts, cuts, bodies, faults>>

\* Under the write half of the gate: the outcome is appended, the mask lifts.
Settle(p) ==
    /\ pc[p] = "settle" /\ GateFree
    /\ record' = [record EXCEPT !.state = "settled"]
    /\ tombstone' = [tombstone EXCEPT !.state = "settled"]
    /\ settledCut' = IF Pending THEN admitted ELSE settledCut
    /\ Goto(p, "idle")
    /\ UNCHANGED <<choices, files, log, payloads, buffer, tail, ingest, locks, drained, job,
                   counts, cut, bodies, faults>>

-----------------------------------------------------------------------------
(* Failures and crashes.                                                   *)

Released_MaintenanceOnly(p) == /\ maintenance' = IF maintenance = p THEN Free ELSE maintenance
                               /\ UNCHANGED permit
\* The guards are dropped as the error returns.
Released(p) == /\ maintenance' = IF maintenance = p THEN Free ELSE maintenance
               /\ permit' = IF permit = p THEN Free ELSE permit

\* The error returns through `?`: the erasure stays pending.  The settle's line
\* may have reached the file.
EraseFails(p) ==
    /\ pc[p] \notin {"idle", "veil", "confirm"} /\ Fault("io")
    /\ pc[p] = "note" => kind = "tenant"
    /\ Goto(p, "idle") /\ Released(p)
    /\ todo' = [todo EXCEPT ![p] = {}] /\ doomed' = [doomed EXCEPT ![p] = {}]
    /\ tombstone' \in {tombstone} \cup
          (IF pc[p] = "settle" THEN {[tombstone EXCEPT !.state = "settled"]} ELSE {})
    /\ UNCHANGED <<choices, files, log, payloads, buffer, record, tail, ingest, drained, pass,
                   found, refs, counts, cuts, bodies>>

Reloaded_Pending == IF tombstone = NoRecord THEN NoRecord
                    ELSE [tombstone EXCEPT !.state = "pending"]
\* ErasureLog::open replays the tombstone log.
Reloaded == tombstone

\* A kill, and the open that follows: the log replays over the segments and the
\* mask of a pending erasure is up before the first query.
Restart ==
    /\ Fault("kill")
    /\ buffer' = NewestIn(log) /\ record' = Reloaded
    /\ ring' = {} /\ veiled' = {} /\ drained' = {}
    /\ admitting' = [t \in Ingesters |-> Nobody] /\ publishing' = [t \in Ingesters |-> Nobody]
    /\ maintenance' = Free /\ permit' = Free
    /\ pc' = [p \in Erasers |-> "idle"] /\ pass' = [p \in Erasers |-> 1]
    /\ found' = Clear /\ refs' = Clear /\ todo' = Clear /\ doomed' = Clear
    /\ cut' = IF record.state = "none" /\ tombstone # NoRecord THEN admitted ELSE cut
    /\ settledCut' = IF Pending /\ tombstone.state = "settled" THEN admitted ELSE settledCut
    /\ UNCHANGED <<choices, disk, counts, bodies>>

-----------------------------------------------------------------------------
EraseStep(p) == \/ NoteRefs(p) \/ PurgeBuffer(p) \/ PurgeSegment(p) \/ EndPurge(p)
                \/ Sweep(p) \/ UnlinkPayload(p) \/ EndSweep(p) \/ Veil(p) \/ Confirm(p)
                \/ Checkpoint(p) \/ Reclaim(p) \/ Settle(p)

Next ==
    \/ \E t \in Ingesters : \/ \E k \in Keys, c \in Bodies \cup {NoBody} : Offload(t, k, c)
                            \/ Upsert(t) \/ PublishTail(t)
    \/ SealDrain \/ SealPublish
    \/ Begin \/ BeginFails \/ Resume
    \/ \E p \in Erasers : EraseStep(p) \/ EraseFails(p)
    \/ Restart

Spec == Init /\ [][Next]_vars

FairSpec == /\ Spec
            /\ \A t \in Ingesters : WF_vars(Upsert(t))
            /\ WF_vars(SealPublish) /\ WF_vars(Resume)
            /\ \A p \in Erasers : WF_vars(EraseStep(p))

-----------------------------------------------------------------------------
Version == [key : Keys \cup {Free}, body : Bodies \cup {NoBody}, n : Nat]
Tombstone == [state : {"none", "pending", "settled"}, refs : SUBSET Bodies]
PC == {"idle", "note", "purge", "segments", "sweep", "unlink", "veil", "confirm",
       "checkpoint", "reclaim", "settle"}

TypeOK ==
    /\ kind \in Kinds /\ host \in Hosts
    /\ files \subseteq SUBSET Version /\ log \subseteq Version /\ payloads \subseteq Bodies
    /\ tombstone \in Tombstone /\ record \in Tombstone
    /\ buffer \subseteq Version /\ ring \subseteq Version /\ veiled \subseteq ring
    /\ admitting \in [Ingesters -> Version] /\ publishing \in [Ingesters -> Version]
    /\ maintenance \in Erasers \cup {Free} /\ permit \in Erasers \cup {"sealer", Free}
    /\ drained \subseteq Version
    /\ pc \in [Erasers -> PC] /\ pass \in [Erasers -> {1, 2}]
    /\ found \in [Erasers -> SUBSET Keys] /\ refs \in [Erasers -> SUBSET Bodies]
    /\ todo \in [Erasers -> SUBSET SUBSET Version] /\ doomed \in [Erasers -> SUBSET Bodies]
    /\ admitted \in 0..MaxSpans /\ acked \subseteq Version
    /\ cut \in Nat /\ settledCut \in Nat
    /\ owed \subseteq Bodies /\ spared \subseteq Bodies /\ racing \subseteq Nat
    /\ faults \in 0..MaxFaults

\* Admitted before the erasure began or while it was pending.
Erased(v) == v.key \in Covered /\ (v.n <= cut \/ v.n <= settledCut)

\* Once an erasure has settled, no physical record of what it covered is left,
\* superseded or not, in a segment, the log, the buffer or a seal in flight: not
\* after admissions that raced its begin, seals that raced its purge, errors,
\* crashes, replays or a second thread finishing the same erasure (lib.rs
\* complete_erasure, purge_subject_locked, the erasure gate).
NothingErasedIsLeft ==
    tombstone.state = "settled" =>
        \A v \in Stored \cup log \cup drained : ~Erased(v)

\* Of the payload files an erasure owed, none is left once it has settled, unless
\* a live span outside the subject held it when the sweep looked or an ingest
\* wrote it anew since ...
OwedPayloadsAreGone ==
    tombstone.state = "settled" => owed \cap payloads \subseteq spared

\* ... and none is deleted that a visible span outside the subject references,
\* but for spans admitted while a sweep was between its look at the live
\* references and its unlinks.
SharedPayloadsAreKept ==
    \A v \in NewestIn(Stored) :
        v.body \in payloads \cup {NoBody} \/ v.key \in Covered \/ v.n \in racing

\* Payload files follow the spans: no crash between the purge of the spans and
\* the unlink of their bodies forgets a file, and no sweep takes a shared one
\* (lib.rs complete_erasure, live_payload_refs; erasure.rs note_payload_refs).
PayloadsFollowSpans == OwedPayloadsAreGone /\ SharedPayloadsAreKept

\* No acknowledged span outside the subject is taken: each reads at that version
\* or newer ...
OthersAreKept ==
    \A v \in acked : v.key \notin Covered => \E w \in Stored : w.key = v.key /\ w.n >= v.n

\* ... and none that is covered and was admitted after the settle.
NewDataIsKept ==
    \A v \in acked : settledCut > 0 /\ v.n > settledCut =>
        \E w \in Stored : w.key = v.key /\ w.n >= v.n

\* An erasure is a barrier and not a ban: through every crash and error it takes
\* its subject, and nobody's new data (lib.rs erase, purge_subject_locked).  New
\* data is safe only where resume_erasures never runs beside an erase.
OnlyTheSubjectGoes == OthersAreKept /\ (host = "embedded" => NewDataIsKept)

\* What a subscriber of the live tail is shown: the mask of a pending erasure and
\* the veils of the purges filter it.
Shown == {v \in ring \ veiled : ~(Pending /\ v.key \in Covered)}

\* No span of an erased subject leaves the store through the live tail once the
\* erasure began (tail.rs veil, read; lib.rs tail_after).
TailHidesErased == cut > 0 => \A v \in Shown : ~Erased(v)

\* On a server, an erasure that is pending settles (lib.rs resume_erasures and the
\* maintenance loop of traza-server).
ErasureSettles == host = "server" /\ Pending ~> record.state = "settled"
=============================================================================

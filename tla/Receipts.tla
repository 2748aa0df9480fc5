------------------------------ MODULE Receipts -------------------------------
(***************************************************************************)
(* What an erasure covers, and the receipt that says it is done            *)
(* (src/src/lib.rs erase, complete_erasure, verify_erasure; src/src/       *)
(* erasure.rs Subject, Mask, Receipt).  Five kinds of subject reach spans, *)
(* annotations, evaluation examples, payload files, the live tail and pins *)
(* by different rules: once when admissions are barred, once when the      *)
(* purge drops, and once more when the receipt looks.                      *)
(*                                                                         *)
(* The receipt is a walk over the domains, one after the other, of a store *)
(* that is not stopped.  The purge is taken in three steps (Erasure.tla    *)
(* takes it apart).  A file is the set of versions in it; an example is a  *)
(* promoted copy, whose provenance names the trace and not the session.    *)
(***************************************************************************)
EXTENDS Integers, FiniteSets, Sequences

CONSTANTS
    Cases,      \* a subject, with the spans and the addresses of annotations
                \* that clients send beside it
    None,
    MaxSpans, MaxCalls, MaxKills    \* bounds, naturals: spans, calls of clients, deaths

VARIABLES
    case,
    record,     \* the erasure: state, span keys, payload refs, settled dispositions
    step,       \* what of a pending erasure runs next
    purged,     \* what its purge removed: keys, and references to payloads
    buffer, frames, segments, ring, files, notes, examples, pins,
    walk,       \* verify_erasure: next domain, the ones failed, signals, references
    stayed,     \* history: the copies found at every step of the walk
    excused,    \* history: domains that clients have filled again
    admitted, calls, kills

data == <<buffer, frames, segments, ring, files, notes, examples, pins>>
erasure == <<record, step, purged>>
bounds == <<admitted, calls, kills>>
receiptVars == <<case, erasure, data, walk, stayed, excused, bounds>>

subject == case.subject
Kind(kind) == subject.kind = kind
Pending == record.state = "pending"
Settled == record.state = "settled"

-----------------------------------------------------------------------------
(* What the subject covers.                                                *)

SubjectKey == [tenant |-> subject.tenant, trace |-> subject.trace, span |-> subject.span]

\* Subject::action: a span is dropped, or by a payload redacted.
Covers(v) ==
    \/ Kind("trace") /\ v.key.tenant = subject.tenant /\ v.key.trace = subject.trace
    \/ Kind("span") /\ v.key = SubjectKey
    \/ Kind("session") /\ v.key.tenant = subject.tenant /\ v.session = subject.session
    \/ Kind("tenant") /\ v.key.tenant = subject.tenant
    \/ Kind("payload") /\ v.body = subject.body /\ ~v.redacted

\* An annotation addresses the subject itself, or one of the given spans.
Addresses(note, keys) ==
    \/ Kind("trace") /\ note.key.tenant = subject.tenant /\ note.key.trace = subject.trace
    \/ Kind("span") /\ note.key = SubjectKey
    \/ Kind("session") /\ note.key.tenant = subject.tenant /\ note.session = subject.session
    \/ Kind("tenant") /\ note.key.tenant = subject.tenant
    \/ note.key.trace # None /\ note.key \in keys

Redacted(v) == [v EXCEPT !.redacted = TRUE]
Remaining(versions) ==
    IF Kind("payload") THEN {IF Covers(v) THEN Redacted(v) ELSE v : v \in versions}
                       ELSE {v \in versions : ~Covers(v)}

Stored == buffer \cup UNION segments
CoveredIn(versions) == {v \in versions : Covers(v)}
NewestIn(versions) == {v \in versions : \A w \in versions : w.key = v.key => w.n <= v.n}
KeysOf(versions) == {v.key : v \in versions}
\* A redaction marker is no reference.
RefsOf(copies) == {c.body : c \in {d \in copies : ~d.redacted}} \ {None}

\* live_payload_refs: of the buffer, the segments and the examples.
LiveRefs == RefsOf(Stored) \cup RefsOf(examples)

\* The bytes that a scan looks for: a trace, session or tenant by its name
\* wherever it stands, a payload by its reference, a marker's included.
Named(v) ==
    \/ subject.kind \in {"trace", "span"} /\ v.key.trace = subject.trace
    \/ Kind("session") /\ v.session = subject.session
    \/ Kind("tenant") /\ v.key.tenant = subject.tenant
    \/ Kind("payload") /\ v.body = subject.body

\* segment_may_hold_subject, from the indexes and the rollup: names without their
\* tenants, and no marker.
MayHold(segment) == \E v \in segment : Named(v) /\ (Kind("payload") => ~v.redacted)

-----------------------------------------------------------------------------
NoWalk == [at |-> 0, of |-> None, failed |-> {}, unclear |-> {}, live |-> {}]
NoRecord == [state |-> "none", keys |-> {}, refs |-> {}, disposed |-> {}]
NothingPurged == [keys |-> {}, refs |-> {}]

Init ==
    /\ case \in Cases
    /\ record = NoRecord /\ step = "purge" /\ purged = NothingPurged
    /\ buffer = {} /\ frames = {} /\ segments = {} /\ ring = {} /\ files = {}
    /\ notes = {} /\ examples = {} /\ pins = {}
    /\ walk = NoWalk /\ stayed = {} /\ excused = {}
    /\ admitted = 0 /\ calls = 0 /\ kills = 0

Call == calls < MaxCalls /\ calls' = calls + 1

\* What reads and promotions are shown.
Masked(v) == Pending /\ (Covers(v) \/ v.key \in record.keys)

\* Mask::covers_for_drop: the keys that any subject resolved to, a payload's too.
Suppressed(v) == Pending /\ ((~Kind("payload") /\ Covers(v)) \/ v.key \in record.keys)

\* ingest_batch: suppressed, or offloaded (a pending payload only to its marker),
\* appended, upserted and published to the tail.
Ingest ==
    /\ Call /\ admitted < MaxSpans /\ admitted' = admitted + 1
    /\ \E shape \in case.shapes :
          LET sent == [key |-> shape.key, session |-> shape.session, body |-> shape.body,
                       redacted |-> FALSE, n |-> admitted']
              v == IF Pending /\ Kind("payload") /\ Covers(sent) THEN Redacted(sent) ELSE sent
          IN  /\ ~Suppressed(sent)
              /\ buffer' = {w \in buffer : w.key # v.key} \cup {v}
              /\ frames' = frames \cup {v}
              /\ ring' = ring \cup {v}
              /\ files' = files \cup RefsOf({v})
              /\ excused' = excused
                    \cup (IF Settled /\ Covers(v) /\ v.key \in record.keys
                          THEN {"write-buffer", "live-tail", "segments"} ELSE {})
                    \cup (IF Settled /\ v.body \in record.refs \cup record.disposed
                          THEN {"payloads"} ELSE {})
    /\ UNCHANGED <<case, erasure, segments, notes, examples, pins, walk, kills>>

Sealed == segments \cup ({buffer} \ {{}})

Seal ==
    /\ buffer # {}
    /\ segments' = Sealed /\ buffer' = {} /\ frames' = {}
    /\ UNCHANGED <<case, erasure, ring, files, notes, examples, pins, walk, excused, bounds>>

\* annotate: what the mask covers is answered and dropped.
Annotate ==
    /\ Call
    /\ \E address \in case.addresses :
          /\ ~(Pending /\ Addresses(address, record.keys))
          /\ notes' = notes \cup {[key |-> address.key, session |-> address.session,
                                   old |-> record.state = "none"]}
          /\ excused' = excused \cup (IF Settled THEN {"annotations"} ELSE {})
    /\ UNCHANGED <<case, erasure, buffer, frames, segments, ring, files, examples, pins, walk,
                   admitted, kills>>

\* create_dataset_version with a copy of a span: not for a tenant being erased,
\* nor of a payload that is missing or due to be erased.
Promote ==
    /\ Call
    /\ \E v \in NewestIn(Stored) :
          /\ ~Masked(v) /\ ~v.redacted
          /\ v.body \in files \cup {None} /\ ~(Pending /\ v.body \in record.refs)
          /\ examples' = examples \cup {[tenant |-> v.key.tenant, from |-> v.key, body |-> v.body,
                                         redacted |-> FALSE, old |-> record.state = "none"]}
    /\ UNCHANGED <<case, erasure, buffer, frames, segments, ring, files, notes, pins, walk,
                   excused, admitted, kills>>

\* pin_generation: a checkpoint and its links, under the maintenance lock.
Pin ==
    /\ Call /\ pins = {} /\ step # "records"
    /\ segments' = Sealed /\ buffer' = {} /\ frames' = {}
    /\ pins' = {[spans |-> UNION segments', notes |-> notes, examples |-> examples,
                 files |-> files]}
    /\ UNCHANGED <<case, erasure, ring, files, notes, examples, walk, excused, admitted, kills>>

Unpin ==
    /\ Call /\ pins # {} /\ pins' = {}
    /\ UNCHANGED <<case, erasure, buffer, frames, segments, ring, files, notes, examples, walk,
                   excused, admitted, kills>>

-----------------------------------------------------------------------------
(* The erasure.                                                            *)

\* resolve_subject: a tenant to nothing yet, a payload to the spans that show
\* it, the others to every version they cover.
Resolved ==
    CASE Kind("tenant") -> {}
      [] Kind("payload") -> CoveredIn(NewestIn(Stored))
      [] OTHER -> NewestIn(CoveredIn(Stored))

Begin ==
    /\ record.state = "none"
    /\ record' = [NoRecord EXCEPT !.state = "pending", !.keys = KeysOf(Resolved),
                                  !.refs = IF Kind("payload") THEN {subject.body}
                                           ELSE RefsOf(Resolved)]
    /\ UNCHANGED <<case, step, purged, data, walk, excused, bounds>>

\* purge_subject_locked: the log follows the buffer only if the buffer changes.
PurgeBuffer ==
    /\ buffer' = Remaining(buffer)
    /\ frames' = IF CoveredIn(buffer) = {} THEN frames ELSE buffer'

PurgeSpans ==
    /\ Pending /\ step = "purge" /\ step' = "records"
    /\ record' = [record EXCEPT !.refs = @ \cup
          (IF Kind("tenant")
           THEN RefsOf(CoveredIn(Stored)) \cup RefsOf({e \in examples : e.tenant = subject.tenant})
           ELSE {})]
    /\ PurgeBuffer
    /\ segments' = {IF MayHold(s) THEN Remaining(s) ELSE s : s \in segments} \ {{}}
    /\ purged' = [keys |-> KeysOf(CoveredIn(Stored)),
                  refs |-> IF Kind("payload") THEN {} ELSE RefsOf(CoveredIn(Stored))]
    /\ UNCHANGED <<case, ring, files, notes, examples, pins, walk, excused, bounds>>

Dropped_Addressed(note) == Addresses(note, {})
\* drop_annotations_for: a redaction is no deletion of judgment.
Dropped(note) == ~Kind("payload") /\ Addresses(note, purged.keys)

TheTenants(e) == Kind("tenant") /\ e.tenant = subject.tenant

\* veil_tail, of what the purge found.
Veiled(v) == v.key \in purged.keys \/ (Kind("tenant") /\ v.key.tenant = subject.tenant)

\* Annotations, examples, and the payloads nobody references any more; of a
\* payload subject, the file whoever references it.
PurgeRecords ==
    /\ step = "records" /\ step' = "settle"
    /\ notes' = {note \in notes : ~Dropped(note)}
    /\ examples' = {e \in examples : ~TheTenants(e)}
    /\ LET doomed == record.refs \cup purged.refs \cup RefsOf({e \in examples : TheTenants(e)})
           live == RefsOf(Stored) \cup RefsOf(examples')
           gone == IF Kind("payload") THEN doomed ELSE doomed \ live
       IN  /\ files' = files \ gone
           /\ purged' = [purged EXCEPT !.refs = doomed]
           /\ excused' = excused \cup (IF doomed = gone THEN {} ELSE {"payloads"})
    /\ ring' = {v \in ring : ~Veiled(v)}
    /\ UNCHANGED <<case, record, buffer, frames, segments, pins, walk, bounds>>

\* The confirming purge, the checkpoint, and the settle that names its outcome.
Settle ==
    /\ step = "settle" /\ step' = "settled"
    /\ segments' = {IF MayHold(s) THEN Remaining(s) ELSE s : s \in Sealed} \ {{}}
    /\ buffer' = {} /\ frames' = {}
    /\ ring' = {v \in ring : v.key \notin KeysOf(CoveredIn(Stored))}
    /\ files' = IF Kind("payload") THEN files \ {subject.body} ELSE files
    /\ record' = [record EXCEPT !.state = "settled", !.disposed = purged.refs]
    /\ UNCHANGED <<case, purged, notes, examples, pins, walk, excused, bounds>>

\* A pending erasure resumes from its record, and forgets what a purge found.
Kill ==
    /\ kills < MaxKills /\ kills' = kills + 1
    /\ buffer' = NewestIn(frames) /\ ring' = {}
    /\ step' = (IF Pending THEN "purge" ELSE step) /\ purged' = NothingPurged
    /\ walk' = IF walk.at > 9 THEN walk ELSE NoWalk
    /\ excused' = excused \cup (IF step = "records" /\ Kind("session") THEN {"annotations"} ELSE {})
    /\ UNCHANGED <<case, record, frames, segments, files, notes, examples, pins, admitted, calls>>

-----------------------------------------------------------------------------
(* The receipt.                                                            *)

Accountable == walk.of.refs \cup walk.of.disposed

\* classify_matches: only the keys that the erasure resolved are failures.
ReDelivered(versions) == KeysOf(CoveredIn(versions)) \cap walk.of.keys # {}

NoteRemains(note) ==
    /\ ~Kind("payload")
    /\ Addresses(note, IF Kind("session") THEN walk.of.keys ELSE {})
    /\ Kind("tenant") => note.old

\* Of a record id that the erasure listed.
RecordRemains(e) == TheTenants(e) /\ e.old
\* copies_in_tenant: promoted copies outlive their source by design.
CopyRemains(e) == subject.kind \in {"trace", "span"}
                  /\ e.tenant = subject.tenant /\ e.from.trace = subject.trace

\* Of a pin: its payload, spans, annotations (by the subject's own name) and
\* evaluation log.
Holds(pin) ==
    \/ Kind("payload") /\ subject.body \in pin.files
    \/ CoveredIn(pin.spans) # {}
    \/ \E note \in pin.notes : Addresses(note, {})
    \/ \E e \in pin.examples : \/ TheTenants(e)
                               \/ Kind("payload") /\ e.body = subject.body
                               \/ subject.kind \in {"trace", "span"} /\ e.from.trace = subject.trace

\* The rollup sidecars name sessions with their traces, tenants and references.
CacheNames(v) == Named(v) /\ (Kind("tenant") \/ v.session # None \/ (Kind("payload") /\ ~v.redacted))

Domains_SegmentsFirst ==
    <<"segments", "write-buffer", "live-tail", "write-ahead-log", "annotations", "eval-records",
      "references", "payloads", "derived-caches", "pins">>
\* In the order of verify_erasure; the live references are read before the files.
Domains == <<"write-buffer", "live-tail", "write-ahead-log", "segments", "annotations",
             "eval-records", "references", "payloads", "derived-caches", "pins">>

Fails(domain) ==
    \/ domain = "write-buffer" /\ ReDelivered(buffer)
    \/ domain = "live-tail" /\ ReDelivered(ring)
    \/ domain = "segments" /\ ReDelivered(UNION {s \in segments : MayHold(s)})
    \/ domain = "annotations" /\ \E note \in notes : NoteRemains(note)
    \/ domain = "eval-records" /\ \E e \in examples : RecordRemains(e)
    \/ domain = "payloads" /\ (Accountable \cap files) \ walk.live # {}
    \/ domain = "pins" /\ \E pin \in pins : Holds(pin)

\* Scans that over-approximate, and copies that are kept by design.
Unclear(domain) ==
    \/ domain = "write-ahead-log" /\ \E v \in frames : Named(v)
    \/ domain = "eval-records" /\ \E e \in examples : CopyRemains(e)
    \/ domain = "derived-caches" /\ \E v \in UNION segments : CacheNames(v)

Verify ==
    /\ walk.at = 0 /\ record.state # "none"
    /\ walk' = [NoWalk EXCEPT !.at = 1, !.of = record,
                              !.failed = IF Settled THEN {} ELSE {"unsettled"}]
    /\ UNCHANGED <<case, erasure, data, excused, bounds>>

Check ==
    /\ walk.at \in DOMAIN Domains
    /\ LET domain == Domains[walk.at]
       IN  walk' = [walk EXCEPT !.at = @ + 1,
                                !.failed = @ \cup {d \in {domain} : Fails(d)},
                                !.unclear = @ \cup {d \in {domain} : Unclear(d)},
                                !.live = IF domain = "references" THEN LiveRefs ELSE @]
    /\ UNCHANGED <<case, erasure, data, excused, bounds>>

-----------------------------------------------------------------------------
\* What of the subject is in the store under the names the record gives it.
Copies ==
    {<<"span", v.key, v.n>> : v \in {w \in CoveredIn(Stored) : w.key \in record.keys}}
    \cup {<<"ring", v.key, v.n>> : v \in {w \in CoveredIn(ring) : w.key \in record.keys}}
    \cup {<<"note", note>> : note \in {m \in notes : ~Kind("payload") /\ Addresses(m, {})
                                                     /\ (Kind("tenant") => m.old)}}
    \cup {<<"record", e>> : e \in {x \in examples : RecordRemains(x)}}
    \cup {<<"payload", b>> : b \in ((record.refs \cup record.disposed) \cap files) \ LiveRefs}
    \cup {<<"pin", pin>> : pin \in {p \in pins : Holds(p)}}

\* ... and what is only a signal.
Signals ==
    {<<"frame", v.n>> : v \in {w \in frames : Covers(w)}}
    \cup {<<"copy", e>> : e \in {x \in examples : CopyRemains(x)}}

Observed == stayed' = IF walk'.at = 1 THEN Copies' \cup Signals'
                      ELSE stayed \cap (Copies' \cup Signals')

Operations ==
    \/ Ingest \/ Seal \/ Annotate \/ Promote \/ Pin \/ Unpin
    \/ Begin \/ PurgeSpans \/ PurgeRecords \/ Settle \/ Kill
    \/ Verify \/ Check

Next == Operations /\ Observed

Spec == Init /\ [][Next]_receiptVars

-----------------------------------------------------------------------------
Finished == walk.at > Len(Domains)

\* No receipt says `erased` of an erasure that had not settled, nor while a copy
\* of the subject was in the store from the walk's first step to its last, moved
\* from one domain to another or not; and none is conclusive while the log or a
\* dataset held one all along ...
ReceiptsAreHonest ==
    Finished =>
        /\ walk.failed = {} => walk.of.state = "settled"
                               /\ \A c \in stayed : c[1] \in {"frame", "copy"}
        /\ walk.unclear = {} => \A c \in stayed : c[1] \notin {"frame", "copy"}

\* ... and an erasure that settled passes: nothing of its subject is found that
\* no client sent again, but a pin, a payload that others held at the time, and
\* the annotations that a crash let a session forget.
ErasuresPass ==
    Finished /\ walk.of.state = "settled" => walk.failed \subseteq excused \cup {"pins"}

\* The receipt agrees with the purge, for every kind of subject and through the
\* calls, seals and crashes beside both (lib.rs complete_erasure, verify_erasure).
ReceiptsAreTrue == ReceiptsAreHonest /\ ErasuresPass
=============================================================================

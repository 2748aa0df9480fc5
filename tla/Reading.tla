------------------------------- MODULE Reading -------------------------------
(***************************************************************************)
(* How the engine answers reads (src/src/lib.rs: query, query_after, the   *)
(* k-way merge of query_view_costed, fold_view, trace_spans_in,            *)
(* attribute_union_view, snapshot) over a write buffer and a list of       *)
(* segments that ingest, seals, merges and erasures change between the     *)
(* pages of one reader.                                                    *)
(*                                                                         *)
(* A version of a span has its primary key, its start time, and the        *)
(* session its attributes name.  `n` counts ingests, so that a property    *)
(* can say which version of a key is the newest: the code keeps no such    *)
(* number, and no operator that models the code looks at it.               *)
(*                                                                         *)
(* Abstractions.  A batch is one span.  An engine call holds both locks,   *)
(* so it is one step; the mask is loaded in a step before.  The session    *)
(* stands for the attribute of the filter and its posting list; content    *)
(* and the other predicates, the deadline and the explicit sorts are left  *)
(* out.  A purge is one step (Erasure.tla takes it apart).                 *)
(***************************************************************************)
EXTENDS Integers, FiniteSets, SequencesExt

CONSTANTS
    Keys,         \* primary keys: numbers, in the order of (tenant, trace, span)
    Times,        \* start times
    Sessions,
    NoSession,    \* no predicate on the session
    Paged,        \* the filters of the readers that page
    PageSize,     \* the limit they ask for
    MaxIngests,   \* bound: spans ingested
    MaxErasures   \* bound: erasures

ASSUME ReadingAssumption ==
    /\ Keys \subseteq Nat \ {0} /\ IsFiniteSet(Keys)
    /\ Times \subseteq Nat \ {0} /\ IsFiniteSet(Times)
    /\ NoSession \notin Sessions
    /\ PageSize \in Nat \ {0} /\ MaxIngests \in Nat
    /\ Paged \subseteq [session : Sessions \cup {NoSession}, since : Times, until : Times]

VARIABLES
    buffer,      \* the write buffer: a set of versions, one per key
    segments,    \* the segment list, oldest first
    mask,        \* what the pending erasure covers
    subject,     \* the subject of the pending erasure, or NoSession
    reader,      \* one reader that pages, and what it was given so far
    ingests, erasures,  \* bounds
    instant,     \* what the store answered when the reader pinned it
    still        \* what matched when the reader began and has not changed

store  == <<buffer, segments, mask, subject>>
ghosts == <<instant, still>>
readingVars == <<store, reader, ingests, erasures, ghosts>>

Version == [key : Keys, at : Times, session : Sessions, n : 1 .. MaxIngests]
Filter == [session : Sessions \cup {NoSession}, since : Times, until : Times]
Everything == [session |-> NoSession, since |-> 1,
               until |-> CHOOSE t \in Times : \A u \in Times : u <= t]

NoMask == [keys |-> {}, sessions |-> {}]
Start == [at |-> 0, key |-> 0]      \* the cursor of a first page

-----------------------------------------------------------------------------
(* Filters, order and precedence.                                          *)

\* compare_spans, a total order over what one answer may hold.
Before(v, w) == v.at < w.at \/ (v.at = w.at /\ v.key < w.key)
Sorted(versions) == SetToSortSeq(versions, Before)

After_TimeOnly(v, cursor) == cursor.at < v.at
After(v, cursor) == Before(cursor, v)

Covers(m, v) == v.key \in m.keys \/ v.session \in m.sessions

Matches(v, f) ==
    /\ f.session \in {NoSession, v.session}
    /\ v.at \in f.since .. f.until

\* A reader's filter and position, and the mask of the view it reads.
Selects(view, f, cursor, v) == ~Covers(view.mask, v) /\ Matches(v, f) /\ After(v, cursor)

\* may_contain_timestamps: what the bounds of a segment say.
MayHold(segment, f) ==
    /\ \E v \in segment : v.at >= f.since
    /\ \E v \in segment : v.at <= f.until

\* select_probe: the records of a posting list, or all of them.
Probe(segment, f) == {v \in segment : f.session \in {NoSession, v.session}}

HoldsKey(versions, key) == \E v \in versions : v.key = key

\* The buffer wins, then any segment after `position`.
Superseded(view, position, key) ==
    \/ HoldsKey(view.buffer, key)
    \/ \E i \in position + 1 .. Len(view.segments) : HoldsKey(view.segments[i], key)

-----------------------------------------------------------------------------
(* The read paths, as functions of one buffer and segment list.            *)

\* The positions of the segments that time does not prune, oldest first.
Unpruned(view, f) == {i \in DOMAIN view.segments : MayHold(view.segments[i], f)}
Examined(view, f) == SetToSortSeq(Unpruned(view, f), <)

\* One source for the buffer, then one per examined segment, each with the
\* position in the segment list that its versions are superseded from.
Sources_Compressed(view, f, cursor) ==
    LET examined == Examined(view, f)
    IN  <<[rest |-> Sorted({v \in view.buffer : Selects(view, f, cursor, v)}), position |-> 0]>>
        \o [s \in DOMAIN examined |->
               [rest |-> SelectSeq(Sorted(Probe(view.segments[examined[s]], f)),
                                   LAMBDA v : After(v, cursor)),
                position |-> s]]
Sources(view, f, cursor) ==
    LET examined == Examined(view, f)
    IN  <<[rest |-> Sorted({v \in view.buffer : Selects(view, f, cursor, v)}), position |-> 0]>>
        \o [s \in DOMAIN examined |->
               [rest |-> SelectSeq(Sorted(Probe(view.segments[examined[s]], f)),
                                   LAMBDA v : After(v, cursor)),
                position |-> examined[s]]]

\* The source with the first head, the earliest of equals.
Best(sources) ==
    LET ready == {s \in DOMAIN sources : sources[s].rest # <<>>}
        head(s) == Head(sources[s].rest)
    IN  CHOOSE s \in ready : \A t \in ready : /\ ~Before(head(t), head(s))
                                              /\ Before(head(s), head(t)) \/ s <= t

\* The limited path: a merge that decodes one head at a time.
Limited(view, f, cursor, limit) ==
    LET Advance(merge, step) ==
            IF \/ Len(merge.result) = limit
               \/ \A s \in DOMAIN merge.sources : merge.sources[s].rest = <<>>
            THEN merge
            ELSE LET s == Best(merge.sources)
                     v == Head(merge.sources[s].rest)
                     emits == /\ Selects(view, f, cursor, v)
                              /\ ~HoldsKey(ToSet(merge.result), v.key)
                              /\ s # 1 => ~Superseded(view, merge.sources[s].position, v.key)
                 IN  [sources |-> [merge.sources EXCEPT ![s].rest = Tail(@)],
                      result |-> IF emits THEN Append(merge.result, v) ELSE merge.result]
        heads == Cardinality(Keys) * (1 + Len(view.segments))
    IN  FoldLeft(Advance, [sources |-> Sources(view, f, cursor), result |-> <<>>],
                 [step \in 1 .. heads |-> step]).result

\* The unlimited path and fold_view, which visits the same versions unordered.
Matched(view, f, cursor) ==
    {v \in view.buffer : Selects(view, f, cursor, v)}
    \cup UNION {{v \in Probe(view.segments[i], f) : /\ Selects(view, f, cursor, v)
                                                    /\ ~Superseded(view, i, v.key)} :
                i \in Unpruned(view, f)}
Unlimited(view, f, cursor) == Sorted(Matched(view, f, cursor))

\* Later segments overwrite, the buffer last; the mask is applied at the end.
Overwrite(older, newer) == newer \cup {v \in older : ~HoldsKey(newer, v.key)}
TraceSpans(view) ==
    LET latest == Overwrite(FoldLeft(Overwrite, {}, view.segments), view.buffer)
    IN  Sorted({v \in latest : ~Covers(view.mask, v)})

\* attribute_union_view: the newest segment first, and the first version that
\* the predicate selects claims the key.
AttributeUnion(view, session) ==
    LET selected(versions) == {v \in versions : v.session = session /\ ~Covers(view.mask, v)}
        claimed(i) == view.buffer \cup
            UNION {selected(view.segments[j]) : j \in i + 1 .. Len(view.segments)}
    IN  selected(view.buffer) \cup
        UNION {{v \in selected(view.segments[i]) : ~HoldsKey(claimed(i), v.key)} :
               i \in DOMAIN view.segments}

-----------------------------------------------------------------------------
(* The store between the calls.                                            *)

Live(m) == [buffer |-> buffer, segments |-> segments, mask |-> m]
NoView == [buffer |-> {}, segments |-> <<>>, mask |-> NoMask]
NoReader == [at |-> "idle", filter |-> Everything, mask |-> NoMask, view |-> NoView,
             cursor |-> Start, got |-> <<>>]

ReadingInit ==
    /\ buffer = {} /\ segments = <<>> /\ mask = NoMask /\ subject = NoSession
    /\ reader = NoReader
    /\ ingests = 0 /\ erasures = 0
    /\ instant = <<>> /\ still = {}

\* What a span is hidden from admission by, it is hidden from reads by.
Ingest(key, at, session) ==
    /\ ingests < MaxIngests
    /\ LET v == [key |-> key, at |-> at, session |-> session, n |-> ingests + 1]
       IN  /\ ~Covers(mask, v)
           /\ buffer' = Overwrite(buffer, {v})
    /\ still' = {v \in still : v.key # key}
    /\ ingests' = ingests + 1
    /\ UNCHANGED <<segments, mask, subject, reader, erasures, instant>>

Seal ==
    /\ buffer # {}
    /\ segments' = Append(segments, buffer)
    /\ buffer' = {}
    /\ UNCHANGED <<mask, subject, reader, ingests, erasures, ghosts>>

\* A run at the tail of the list becomes one segment, the newest version of each key.
Merged(run) ==
    {v \in UNION ToSet(run) : \E i \in DOMAIN run :
        v \in run[i] /\ \A j \in i + 1 .. Len(run) : ~HoldsKey(run[j], v.key)}

Merge(first) ==
    /\ first < Len(segments)
    /\ segments' = Append(SubSeq(segments, 1, first - 1),
                          Merged(SubSeq(segments, first, Len(segments))))
    /\ UNCHANGED <<buffer, mask, subject, reader, ingests, erasures, ghosts>>

\* The keys the subject resolves to, and the subject itself, are hidden.
BeginErasure(session) ==
    /\ subject = NoSession /\ erasures < MaxErasures
    /\ subject' = session
    /\ mask' = [keys |-> {v.key : v \in AttributeUnion(Live(mask), session)},
                sessions |-> {session}]
    /\ still' = {v \in still : ~Covers(mask', v)}
    /\ erasures' = erasures + 1
    /\ UNCHANGED <<buffer, segments, reader, ingests, instant>>

\* The purge goes by the subject alone, version by version; an emptied segment
\* is retired, and the others keep their order.  Then the mask is lifted.
Kept(versions) == {v \in versions : v.session # subject}

Ascending(positions) ==
    {order \in [1 .. Cardinality(positions) -> positions] :
        /\ \A i, j \in DOMAIN order : i < j => order[i] < order[j]
        /\ ToSet(order) = positions}
Survivors == Ascending({i \in DOMAIN segments : Kept(segments[i]) # {}})

CompleteErasure(left) ==
    /\ subject # NoSession
    /\ buffer' = Kept(buffer)
    /\ segments' = [i \in DOMAIN left |-> Kept(segments[left[i]])]
    /\ mask' = NoMask /\ subject' = NoSession
    /\ UNCHANGED <<reader, ingests, erasures, ghosts>>

-----------------------------------------------------------------------------
(* A reader that pages: an export over a pinned view, or a listing that     *)
(* follows a cursor over the live store.                                    *)

\* The newest version of each key, by the order of ingest.
Newest(versions) == {v \in versions : \A w \in versions : w.key = v.key => w.n <= v.n}
Held(view) == view.buffer \cup UNION ToSet(view.segments)
Answer(view, f, cursor) == {v \in Newest(Held(view)) : Selects(view, f, cursor, v)}

\* The mask is loaded before the locks are taken.
BeginExport(f) ==
    /\ reader.at = "idle"
    /\ reader' = [reader EXCEPT !.at = "pin", !.filter = f, !.mask = mask]
    /\ UNCHANGED <<store, ingests, erasures, ghosts>>

Pin ==
    /\ reader.at = "pin"
    /\ reader' = [reader EXCEPT !.at = "export", !.view = Live(reader.mask)]
    /\ instant' = Sorted(Answer(Live(reader.mask), reader.filter, Start))
    /\ UNCHANGED <<store, ingests, erasures, still>>

\* A page that is not full is the last one.
Deliver(page, next) ==
    reader' = [reader EXCEPT !.at = IF Len(page) < PageSize THEN "done" ELSE next,
                             !.cursor = IF page = <<>> THEN @
                                        ELSE [at |-> Last(page).at, key |-> Last(page).key],
                             !.got = @ \o page]

ExportPage_Live ==
    /\ reader.at = "export"
    /\ Deliver(Limited(Live(mask), reader.filter, reader.cursor, PageSize), "export")
    /\ UNCHANGED <<store, ingests, erasures, ghosts>>
ExportPage ==
    /\ reader.at = "export"
    /\ Deliver(Limited(reader.view, reader.filter, reader.cursor, PageSize), "export")
    /\ UNCHANGED <<store, ingests, erasures, ghosts>>

BeginListing(f) ==
    /\ reader.at = "idle"
    /\ reader' = [reader EXCEPT !.at = "list", !.filter = f, !.mask = mask]
    /\ still' = Answer(Live(mask), f, Start)
    /\ UNCHANGED <<store, ingests, erasures, instant>>

NextPage ==
    /\ reader.at = "turn"
    /\ reader' = [reader EXCEPT !.at = "list", !.mask = mask]
    /\ UNCHANGED <<store, ingests, erasures, ghosts>>

ListPage ==
    /\ reader.at = "list"
    /\ Deliver(Limited(Live(reader.mask), reader.filter, reader.cursor, PageSize), "turn")
    /\ UNCHANGED <<store, ingests, erasures, ghosts>>

ReadingNext ==
    \/ \E key \in Keys, at \in Times, session \in Sessions : Ingest(key, at, session)
    \/ Seal
    \/ \E first \in DOMAIN segments : Merge(first)
    \/ \E session \in Sessions : BeginErasure(session)
    \/ \E left \in Survivors : CompleteErasure(left)
    \/ \E f \in Paged : BeginExport(f) \/ BeginListing(f)
    \/ Pin \/ ExportPage
    \/ NextPage \/ ListPage

ReadingSpec == ReadingInit /\ [][ReadingNext]_readingVars

-----------------------------------------------------------------------------
(* Properties.                                                             *)

ReadingTypeOK ==
    /\ buffer \subseteq Version
    /\ segments \in Seq((SUBSET Version) \ {{}})
    /\ mask.keys \subseteq Keys /\ mask.sessions \subseteq Sessions
    /\ subject \in Sessions \cup {NoSession}
    /\ reader.at \in {"idle", "pin", "export", "list", "turn", "done"}
    /\ reader.got \in Seq(Version)

\* Whatever the filter, the cursor and the limit, and wherever the versions of
\* a key are (buffer, merged or sealed segments, pruned ones included), the
\* limited merge, the unlimited scan and the trace lookup all answer with the
\* newest version of each key that the filter selects and no pending erasure
\* covers, in order, and a limited answer is as full as it can be
\* (query_view_costed, fold_view, trace_spans_in).  Readers change nothing, so
\* every store is met in a state without one.
AnswersAreCurrent ==
    LET view == Live(mask)
        cursors == {Start} \cup {[at |-> v.at, key |-> v.key] : v \in Held(view)}
    IN  reader = NoReader =>
        /\ TraceSpans(view) = Sorted(Answer(view, Everything, Start))
        /\ \A f \in Filter, cursor \in cursors :
              LET answer == Sorted(Answer(view, f, cursor))
              IN  /\ Unlimited(view, f, cursor) = answer
                  /\ \A limit \in 1 .. Cardinality(Keys) :
                        Limited(view, f, cursor, limit) =
                            SubSeq(answer, 1, IF limit < Len(answer) THEN limit ELSE Len(answer))

\* The pages of an export are, in order, what the store answered at the instant
\* it was pinned, and a finished export is all of it, whatever was ingested,
\* sealed, merged or erased between the pages (Store::snapshot, stream_export).
ExportIsOneInstant ==
    /\ reader.at = "export" => IsPrefix(reader.got, instant)
    /\ reader.at = "done" /\ reader.view # NoView => reader.got = instant

\* A listing that follows its cursor over the live store to the end gives each
\* span that matched when it began and did not change since exactly once
\* (Store::query_after, the cursor of GET /v1/spans).
StillSpansOnce ==
    reader.at = "done" =>
        \A v \in still : Cardinality({i \in DOMAIN reader.got : reader.got[i] = v}) = 1

\* The session union, too, answers with newest versions only
\* (query_attribute_union: "the write buffer wins, then the newest segment").
SessionAnswersAreCurrent ==
    \A session \in Sessions :
        AttributeUnion(Live(mask), session) =
            Answer(Live(mask), [Everything EXCEPT !.session = session], Start)
=============================================================================

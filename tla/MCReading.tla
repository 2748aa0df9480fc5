------------------------------ MODULE MCReading ------------------------------
(* For TLC, Reading, Rollups and SegmentFile in four scopes, chosen at the  *)
(* start: readers that page through everything and through one session in   *)
(* one stretch of time; aggregations of everything and of one stretch of    *)
(* time, over two ingests; aggregations of everything over three, all of    *)
(* one time; and the queries of one segment file.                           *)
EXTENDS Rollups

CONSTANTS
    Asked,      \* a session
    Corrupt, MaxTime, BlockBytes, BlockRecords, PageRows, CacheSlots, MaxSealed, MaxRot

VARIABLES scope, file, rotten, opened, decoded

MCPaged == {Everything, [session |-> Asked, since |-> 1, until |-> 1]}
MCFolded == {Everything, [Everything EXCEPT !.until = 1]}

\* Five spans: three start at one time, the texts of two attributes are equal
\* and their types are not, one has no words, and one fills a block and more.
Value(text, type) == [text |-> text, type |-> type]
Code == [number |-> Value("200", "number"), text |-> Value("200", "text"),
         list   |-> Value("200", "list"),   other |-> Value("other", "text")]
Sealable == {
    [at |-> 1, rank |-> 1, size |-> 2, trace |-> "t", tenant |-> "", service |-> "api",
     attributes |-> [code |-> Code.number], words |-> {"refund"}],
    [at |-> 2, rank |-> 1, size |-> 2, trace |-> "u", tenant |-> "b", service |-> "api",
     attributes |-> [code |-> Code.text], words |-> {"order"}],
    [at |-> 2, rank |-> 2, size |-> 2, trace |-> "t", tenant |-> "b", service |-> "web",
     attributes |-> [code |-> Code.list, hidden |-> Code.number], words |-> {}],
    [at |-> 2, rank |-> 3, size |-> 1, trace |-> "t", tenant |-> "", service |-> "web",
     attributes |-> <<>>, words |-> {"refund", "order"}],
    [at |-> 3, rank |-> 1, size |-> 5, trace |-> "u", tenant |-> "", service |-> "web",
     attributes |-> [code |-> Code.other, hidden |-> Code.number], words |-> {"late"}]}

All == [service |-> NoSession, tenant |-> NoSession, attributes |-> {}, words |-> NoSession,
        since |-> NoSession, until |-> NoSession]
Queries == {
    All,
    [All EXCEPT !.service = "api"],
    [All EXCEPT !.tenant = ""],
    [All EXCEPT !.tenant = "b", !.since = 2],
    [All EXCEPT !.attributes = {<<"code", Code.number>>}],
    [All EXCEPT !.attributes = {<<"code", Code.text>>}, !.until = 2],
    [All EXCEPT !.attributes = {<<"code", Code.list>>}],
    [All EXCEPT !.attributes = {<<"hidden", Code.number>>}],
    [All EXCEPT !.words = {}],
    [All EXCEPT !.words = {"refund"}],
    [All EXCEPT !.words = {"refund", "order"}, !.service = "web"],
    [All EXCEPT !.words = {"late"}, !.until = 2],
    [All EXCEPT !.words = {"order"}, !.attributes = {<<"code", Code.number>>}]}

\* Two values share a digest, and the bits of one word are those of two others.
DigestOf(key, value) == IF value = Code.other THEN Code.text ELSE value
PositionsOf(word) ==
    CASE word = "refund" -> {0, 2} [] word = "order" -> {1, 3} [] word = "late" -> {0, 1}

Segment == INSTANCE SegmentFile
    WITH Spans <- Sealable, Asked <- Queries, Digest <- DigestOf, Positions <- PositionsOf,
         Numerals <- {"200"}, Unindexed <- {"hidden"}, cache <- decoded, None <- NoSession

segmentVars == <<file, rotten, opened, decoded>>

MCInit == RollupsInit /\ Segment!Init /\ scope \in {"pages", "windows", "rewrites", "segment"}

MCNext ==
    /\ \/ scope = "pages" /\ ReadingNext /\ UNCHANGED <<rollups, fold, current, segmentVars>>
       \/ scope = "windows" /\ RollupsNext /\ ingests' <= 2 /\ UNCHANGED segmentVars
       \/ scope = "rewrites" /\ RollupsNext /\ (\A v \in buffer' : v.at = 1)
                             /\ fold'.window = Everything /\ UNCHANGED segmentVars
       \/ scope = "segment" /\ Segment!Next /\ UNCHANGED allVars
    /\ UNCHANGED scope

MCSpec == MCInit /\ [][MCNext]_<<allVars, segmentVars, scope>>

\* AnswersAreCurrent of every store that the first scope reaches: the limited
\* merge, the unlimited scan and the trace lookup agree on the newest versions
\* (query_view_costed, fold_view, trace_spans_in).
PagesAreCurrent == scope = "pages" => AnswersAreCurrent

\* Pages read one after the other, beside ingests, seals, merges and erasures,
\* make one whole: an export is one instant, a listing gives what stood still
\* once (Store::snapshot, Store::query_after).
PagesMakeOneWhole == ExportIsOneInstant /\ StillSpansOnce

\* A segment answers what a scan of its spans answers (SegmentFile.tla; segment.rs,
\* select_probe).
SegmentsAnswerWhole == Segment!SegmentsAnswerWhole
=============================================================================

----------------------------- MODULE SegmentFile ------------------------------
(***************************************************************************)
(* One segment file (src/src/segment.rs, src/src/content.rs) and the reads *)
(* of src/src/lib.rs that go through its indexes: select_probe,            *)
(* first_offset_after, span_matches, spans_parsed_in_window, trace_spans,  *)
(* the candidates of attribute_union_view.                                 *)
(*                                                                         *)
(* A span is its start, its rank among the spans of one start, the length  *)
(* of its record, its trace, tenant, service and attributes, and the words *)
(* a content search looks in.  A value is a text and a type; a digest and  *)
(* the bit positions of a word are what the constants say, collisions and  *)
(* cut words included.  A part of the file (header, section, compression   *)
(* block, page of the content matrix) carries a checksum and may rot.      *)
(***************************************************************************)
EXTENDS Integers, FiniteSets, Sequences, SequencesExt

CONSTANTS
    Spans,            \* what may be sealed
    Asked,            \* the filters of the queries
    None,             \* no bound, no predicate; nothing open
    Corrupt,          \* the answer of a read that meets damage
    Digest(_, _),     \* hash_attribute: of a key and a value
    Positions(_),     \* bit_positions: of a word
    Numerals,         \* texts that are JSON numbers in JSON's own form
    Unindexed,        \* keys of attributes that the index leaves out
    MaxTime,          \* the largest timestamp, u64::MAX
    BlockBytes,       \* COMPRESSION_BLOCK_BYTES
    BlockRecords,     \* CONTENT_BLOCK_RECORDS
    PageRows,         \* rows of the content matrix on one page
    CacheSlots,       \* BLOCK_CACHE_SLOTS
    MaxSealed,        \* bound: spans in one file
    MaxRot            \* bound: parts that rot

VARIABLES
    file,      \* what encode wrote, or None
    rotten,    \* the parts whose stored bytes have changed since
    opened,    \* how the file is open, if it is
    cache      \* decoded blocks, most recently used first

vars == <<file, rotten, opened, cache>>

-----------------------------------------------------------------------------
(* Values and filters.                                                     *)

Scalar(value) == value.type # "list"
Name(text) == [text |-> text, type |-> "name"]   \* indexed as it is

AttributeEncodings_Own(value) == {value}

\* Every form under which an equal value may have been indexed.
AttributeEncodings(value) ==
    {value} \cup
    IF Scalar(value)
    THEN {[text |-> value.text, type |-> type] :
             type \in {"text"}
                      \cup (IF value.text \in Numerals THEN {"number"} ELSE {})
                      \cup (IF value.text \in {"true", "false"} THEN {"flag"} ELSE {})}
    ELSE {}

AttributeEquals(span, key, value) ==
    /\ key \in DOMAIN span.attributes
    /\ LET stored == span.attributes[key]
       IN  stored = value \/ (Scalar(stored) /\ Scalar(value) /\ stored.text = value.text)

\* A content query without words matches nothing.
WordsMatch(span, words) == words # None => words # {} /\ words \subseteq span.words

SpanMatches(span, f) ==
    /\ WordsMatch(span, f.words)
    /\ f.tenant \in {None, span.tenant}
    /\ f.service \in {None, span.service}
    /\ f.since # None => span.at >= f.since
    /\ f.until # None => span.at <= f.until
    /\ \A pair \in f.attributes : AttributeEquals(span, pair[1], pair[2])

\* compare_spans, and a cursor, which is a span or None.
Before(r, s) == r.at < s.at \/ (r.at = s.at /\ r.rank < s.rank)
AfterCursor(span, cursor) == cursor = None \/ Before(cursor, span)

-----------------------------------------------------------------------------
(* The encoder.                                                            *)

\* Where record n of a stream starts; the stream ends where the next would.
StartOf(stream, n) ==
    FoldSeq(LAMBDA span, sum : span.size + sum, 0, SubSeq(stream, 1, n - 1))
Extent(stream) == StartOf(stream, Len(stream) + 1)

Ordinals(seq) == [n \in 1 .. Len(seq) |-> n]

\* carve_blocks: the first record of each block.  A block is cut before the
\* record whose end would pass the bound.
Carved(stream) ==
    FoldLeft(LAMBDA firsts, n :
                 IF \/ firsts = <<>>
                    \/ StartOf(stream, n + 1) - StartOf(stream, Last(firsts)) > BlockBytes
                 THEN Append(firsts, n) ELSE firsts,
             <<>>, Ordinals(stream))

\* The offsets of the records of some spans, in record order.
Postings(stream, spans) ==
    LET found == SelectSeq(Ordinals(stream), LAMBDA n : stream[n] \in spans)
    IN  [i \in DOMAIN found |-> StartOf(stream, found[i])]

\* span_to_record: the entries one span adds to the attribute index.
Entries(span) ==
    {<<"service", Digest("service", Name(span.service))>>}
    \cup (IF span.tenant = "" THEN {} ELSE {<<"tenant", Digest("tenant", Name(span.tenant))>>})
    \cup {<<key, Digest(key, span.attributes[key])>> : key \in DOMAIN span.attributes \ Unindexed}

\* The content matrix holds, for each block of records, the bits of its words;
\* the summary those of all.  Without text there is no index.
BitsOf(spans) == UNION {Positions(word) : word \in UNION {span.words : span \in spans}}
ContentIndex(stream, indexes) ==
    IF ~indexes \/ \A n \in DOMAIN stream : stream[n].words = {}
    THEN None
    ELSE [summary |-> BitsOf(ToSet(stream)),
          blocks  |-> [b \in 1 .. (Len(stream) + BlockRecords - 1) \div BlockRecords |->
                          BitsOf({stream[n] : n \in {i \in DOMAIN stream :
                              (i - 1) \div BlockRecords = b - 1}})]]

\* encode_with_codec, of spans in the order the seal sorts them in.
Encode(spans, indexes) ==
    LET stream == SetToSortSeq(spans, Before)
        firsts == Carved(stream)
    IN  [stream     |-> stream,
         offsets    |-> [n \in DOMAIN stream |-> StartOf(stream, n)],
         length     |-> Extent(stream),
         directory  |-> [b \in DOMAIN firsts |-> [start |-> StartOf(stream, firsts[b]),
                                                  fence |-> stream[firsts[b]].at]],
         traces     |-> [trace \in {span.trace : span \in spans} |->
                            Postings(stream, {span \in spans : span.trace = trace})],
         attributes |-> [entry \in UNION {Entries(span) : span \in spans} |->
                            Postings(stream, {span \in spans : entry \in Entries(span)})],
         content    |-> ContentIndex(stream, indexes),
         min        |-> IF stream = <<>> THEN MaxTime ELSE Head(stream).at,
         max        |-> IF stream = <<>> THEN 0 ELSE Last(stream).at]

-----------------------------------------------------------------------------
(* Opening.                                                                *)

Count == Len(file.stream)
Blocks == DOMAIN file.directory
Pages == IF file.content = None THEN {}
         ELSE {bit \div PageRows : bit \in file.content.summary}
Block(b) == <<"block", b>>
Page(p) == <<"page", p>>
Sections == {<<"section", name>> : name \in {"header", "directory", "offsets", "traces",
                                             "attributes", "content"}}
Parts == Sections \cup {Block(b) : b \in Blocks} \cup {Page(p) : p \in Pages}

\* unwrap_section: the checksum of a part is that of its bytes.
Intact(part) == part \notin rotten

\* block_containing, by the directory; the ordinal of a block's first record.
BlockAt(offset) == Cardinality({b \in Blocks : file.directory[b].start <= offset})
BlockEnd(b) == IF b = Len(file.directory) THEN file.length ELSE file.directory[b + 1].start
OrdinalAt(offset) == CHOOSE n \in 1 .. Count : file.offsets[n] = offset
FirstIn(b) == IF b > Len(file.directory) THEN Count + 1 ELSE OrdinalAt(file.directory[b].start)

\* decode_directory, block_start_ordinals, validate_header_timestamps.
DirectoryHolds ==
    /\ (Blocks = {}) = (Count = 0)
    /\ Blocks # {} => file.directory[1].start = 0 /\ file.min = file.directory[1].fence
                      /\ file.max >= Last(file.directory).fence
    /\ Blocks = {} => file.min = MaxTime /\ file.max = 0
    /\ \A b \in Blocks \ {1} : /\ file.directory[b - 1].start < file.directory[b].start
                               /\ file.directory[b - 1].fence <= file.directory[b].fence
    /\ \A b \in Blocks : /\ file.directory[b].start \in ToSet(file.offsets)
                         /\ FirstIn(b + 1) - FirstIn(b) > 1 =>
                                BlockEnd(b) - file.directory[b].start <= BlockBytes

\* Both opens check every section whole, the rows of the matrix with it.  The
\* lazy one reads the first block and the last, the eager one reads them all.
SectionsHold ==
    /\ \A part \in Sections \cup {Page(p) : p \in Pages} : Intact(part)
    /\ DirectoryHolds
OpensLazily ==
    /\ SectionsHold
    /\ Count > 0 => /\ Intact(Block(1)) /\ Intact(Block(Len(file.directory)))
                    /\ Last(file.stream).at = file.max
OpensEagerly ==
    /\ SectionsHold
    /\ \A part \in Parts : Intact(part)
    /\ Count > 0 => \A n \in 1 .. Count : file.stream[n].at \in file.min .. file.max

-----------------------------------------------------------------------------
(* Reading.  A walk is the shared cache, the block this caller holds, what *)
(* it has read, and whether nothing it read was damaged.                   *)

Walk(shared) == [cache |-> shared, held |-> 0, read |-> <<>>, whole |-> TRUE]

\* A file read eagerly is in memory, where nothing rots.
Damaged(part) == opened = "lazily" /\ ~Intact(part)

\* The cache after block b was used; the one not used for longest falls out.
Used(blocks, b) ==
    LET front == <<b>> \o SelectSeq(blocks, LAMBDA held : held # b)
    IN  SubSeq(front, 1, Min({Len(front), CacheSlots}))

\* decoded_block: from the cache, or from the file if its checksum holds and its
\* first record has the time of its fence.
Fetch(walk, b) ==
    IF ~walk.whole THEN walk
    ELSE IF b \notin ToSet(walk.cache)
            /\ (Damaged(Block(b)) \/ file.stream[FirstIn(b)].at # file.directory[b].fence)
    THEN [walk EXCEPT !.whole = FALSE]
    ELSE [walk EXCEPT !.cache = Used(@, b)]

\* decode_at_walked: the held block answers first.
Decode(walk, offset) ==
    LET b == BlockAt(offset)
        fetched == IF walk.held = b THEN walk ELSE [Fetch(walk, b) EXCEPT !.held = b]
    IN  IF fetched.whole
        THEN [fetched EXCEPT !.read = Append(@, file.stream[OrdinalAt(offset)])]
        ELSE fetched
DecodeAll(walk, offsets) == FoldLeft(Decode, walk, offsets)

\* What a walk answers: of the spans it read, those that are asked for.
Answer(walk, wanted) ==
    IF walk.whole THEN SelectSeq(walk.read, LAMBDA span : span \in wanted) ELSE Corrupt

\* A binary search of ordinals low .. high - 1 by a predicate, and the ordinals
\* it looked at.
Search(below, low, high) ==
    LET search[l \in low .. high, h \in low .. high] ==
            IF l >= h THEN [at |-> l, looked |-> <<>>]
            ELSE LET middle == l + (h - l) \div 2
                     rest == IF below[middle] THEN search[middle + 1, h] ELSE search[l, middle]
                 IN  [rest EXCEPT !.looked = <<middle>> \o @]
    IN  search[low, high]
Look(walk, ordinals) ==
    FoldLeft(LAMBDA w, n : Fetch(w, BlockAt(file.offsets[n])), walk, ordinals)

\* may_contain_timestamps.
MayHoldTimes(since, until) ==
    /\ file.min <= file.max
    /\ since # None => file.max >= since
    /\ until # None => file.min <= until

\* first_at_or_after: the fences name the one block to search; the records on
\* both sides of what is found confirm it.
FirstAtOrAfter(walk, bound) ==
    LET candidate == Cardinality({b \in Blocks : file.directory[b].fence < bound})
        below == [n \in 1 .. Count |-> file.stream[n].at < bound]
        found == IF candidate = 0 THEN [at |-> 1, looked |-> <<>>]
                 ELSE Search(below, FirstIn(candidate), FirstIn(candidate + 1))
        sides == SelectSeq(<<found.at, found.at - 1>>, LAMBDA n : n \in 1 .. Count)
        walked == Look(walk, found.looked \o sides)
    IN  [at |-> found.at,
         walk |-> [walked EXCEPT !.whole = @ /\ \A n \in ToSet(sides) : below[n] = (n < found.at)]]

\* ordinal_range_for_window, then every record of it.  The end is the first
\* record after `until`; nothing is after the largest time.
Window(since, until) ==
    LET start == IF since = None THEN [at |-> 1, walk |-> Walk(cache)]
                 ELSE FirstAtOrAfter(Walk(cache), since)
        end == IF until \in {None, MaxTime} THEN [at |-> Count + 1, walk |-> start.walk]
               ELSE FirstAtOrAfter(start.walk, until + 1)
    IN  DecodeAll(end.walk, SubSeq(file.offsets, start.at, end.at - 1))

\* query_trace, trace_spans.
Trace(trace) ==
    DecodeAll(Walk(cache), IF trace \in DOMAIN file.traces THEN file.traces[trace] ELSE <<>>)

\* Candidates of an attribute: the union over its forms, in record order.
Indexed(key, value) ==
    LET entry == <<key, Digest(key, value)>>
    IN  IF entry \in DOMAIN file.attributes THEN ToSet(file.attributes[entry]) ELSE {}
AttributeCandidates(key, value) ==
    SetToSortSeq(UNION {Indexed(key, form) : form \in AttributeEncodings(value)}, <)

\* attribute_union_view: candidates whose record carries a digest of the value.
Carries(span, key, value) ==
    \E form \in AttributeEncodings(value) : <<key, Digest(key, form)>> \in Entries(span)
Union(key, value) == DecodeAll(Walk(cache), AttributeCandidates(key, value))

\* may_contain_content: absent means unknown.
Indexable(words) == words # None /\ words # {}
MayHoldWords(words) ==
    Indexable(words) /\ file.content # None => 
        \A word \in words : Positions(word) \subseteq file.content.summary

\* content_candidate_offsets: row by row, each read through the checksum of its
\* page, until no block is left.  None: every record is a candidate.
Admitted(words) ==
    LET read(state, bit) ==
            IF state.blocks = {} \/ ~state.whole THEN state
            ELSE IF Damaged(Page(bit \div PageRows)) THEN [state EXCEPT !.whole = FALSE]
            ELSE [state EXCEPT !.blocks = {b \in @ : bit \in file.content.blocks[b]}]
    IN  FoldLeft(read, [blocks |-> DOMAIN file.content.blocks, whole |-> TRUE],
                 SetToSortSeq(UNION {Positions(word) : word \in words}, <))
ContentCandidates(words) ==
    LET admitted == Admitted(words)
    IN  IF ~Indexable(words) \/ file.content = None THEN None
        ELSE IF ~MayHoldWords(words) THEN <<>>
        ELSE IF ~admitted.whole THEN Corrupt
        ELSE LET found == SelectSeq(Ordinals(file.stream),
                                    LAMBDA n : (n - 1) \div BlockRecords + 1 \in admitted.blocks)
             IN  [i \in DOMAIN found |-> file.offsets[found[i]]]

\* select_probe: the shortest list there is; content is asked last.
Probe(f) ==
    LET exact(key, value) == SetToSortSeq(Indexed(key, value), <)
        lists == {exact("service", Name(f.service)) : x \in {f.service} \ {None}}
                 \cup {exact("tenant", Name(f.tenant)) : x \in {f.tenant} \ {None, ""}}
                 \cup {AttributeCandidates(pair[1], pair[2]) :
                          pair \in {p \in f.attributes : p[1] \notin Unindexed}}
        content == ContentCandidates(f.words)
        all == lists \cup ({content} \ {None})
    IN  IF content = Corrupt THEN Corrupt
        ELSE IF all = {} THEN file.offsets
        ELSE CHOOSE list \in all : \A other \in all : Len(list) <= Len(other)

\* One segment's part of a query: pruned, or probed, positioned and walked.
Query(f, cursor) ==
    LET offsets == Probe(f)
        after == [i \in DOMAIN offsets |->
                     ~AfterCursor(file.stream[OrdinalAt(offsets[i])], cursor)]
        position == IF cursor = None THEN [at |-> 1, looked |-> <<>>]
                    ELSE Search(after, 1, Len(offsets) + 1)
        looked == Look(Walk(cache), [i \in DOMAIN position.looked |->
                                        OrdinalAt(offsets[position.looked[i]])])
    IN  IF ~MayHoldTimes(f.since, f.until) \/ ~MayHoldWords(f.words) THEN Walk(cache)
        ELSE IF offsets = Corrupt THEN [Walk(cache) EXCEPT !.whole = FALSE]
        ELSE DecodeAll(looked, SubSeq(offsets, position.at, Len(offsets)))

-----------------------------------------------------------------------------

Init == file = None /\ rotten = {} /\ opened = None /\ cache = <<>>

\* A seal, or a rewrite under the name.
Write(spans, indexes) ==
    /\ file = None
    /\ file' = Encode(spans, indexes)
    /\ UNCHANGED <<rotten, opened, cache>>

Rot(part) ==
    /\ Cardinality(rotten) < MaxRot /\ part \notin rotten
    /\ rotten' = rotten \cup {part}
    /\ UNCHANGED <<file, opened, cache>>

\* The blocks the lazy open reads do not stay.
Open(how) ==
    /\ opened = None
    /\ how = "lazily" => OpensLazily
    /\ how = "eagerly" => OpensEagerly
    /\ opened' = how
    /\ UNCHANGED <<file, rotten, cache>>

\* What a read leaves behind: blocks in the cache.
Read ==
    /\ opened # None
    /\ \/ \E f \in Asked, cursor \in ToSet(file.stream) \cup {None} :
              cache' = Query(f, cursor).cache
       \/ \E since, until \in {span.at : span \in Spans} : cache' = Window(since, until).cache
    /\ UNCHANGED <<file, rotten, opened>>

Next ==
    \/ \E spans \in SUBSET Spans, indexes \in BOOLEAN :
           Cardinality(spans) <= MaxSealed /\ Write(spans, indexes)
    \/ file # None /\ \E part \in Parts : Rot(part)
    \/ file # None /\ \E how \in {"lazily", "eagerly"} : Open(how)
    \/ Read

Spec == Init /\ [][Next]_vars

-----------------------------------------------------------------------------

\* A segment answers what a scan of its spans answers, in their order, or says
\* that it is damaged, and it says so only if it is; a file that nothing has
\* damaged opens.  So no index, filter, fence or bound ever takes a span out of
\* an answer (select_probe: "an index may only narrow the work, never the
\* answer"), over every form of a value, a digest or bit that two words share,
\* equal times on both sides of a block, a cursor anywhere, text without an
\* index, and rot that comes before or after the open.
SegmentsAnswerWhole ==
    LET sealed == ToSet(file.stream)
        honest(walk, kept, wanted) ==
            \/ Answer(walk, kept) = SelectSeq(file.stream, LAMBDA span : span \in wanted)
            \/ Answer(walk, kept) = Corrupt /\ rotten # {} /\ opened = "lazily"
        bounds == {span.at : span \in Spans} \cup {None}
    IN  /\ file # None /\ rotten = {} => OpensLazily /\ OpensEagerly
        /\ opened # None =>
           /\ \A f \in Asked, cursor \in sealed \cup {None} :
                 LET wanted == {span \in sealed : SpanMatches(span, f) /\ AfterCursor(span, cursor)}
                 IN  honest(Query(f, cursor), wanted, wanted)
           /\ \A since, until \in bounds :
                 LET wanted == {span \in sealed : /\ since # None => span.at >= since
                                                  /\ until # None => span.at <= until}
                 IN  honest(Window(since, until), sealed, wanted)
           /\ \A trace \in {span.trace : span \in Spans} :
                 honest(Trace(trace), sealed, {span \in sealed : span.trace = trace})
           /\ \A pair \in UNION {f.attributes : f \in Asked} : pair[1] \notin Unindexed =>
                 LET wanted == {span \in sealed : AttributeEquals(span, pair[1], pair[2])}
                     kept == {span \in wanted : Carries(span, pair[1], pair[2])}
                 IN  honest(Union(pair[1], pair[2]), kept, wanted)
=============================================================================

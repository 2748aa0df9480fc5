------------------------------ MODULE Tiering -------------------------------
(***************************************************************************)
(* Which segments a merge takes and how it groups them: size_tier,         *)
(* tail_run_to_merge, merge_chunks and shadowed_tail_suffix of             *)
(* src/src/lib.rs and src/src/analytics.rs, as functions of the sizes (and *)
(* keys) of the segment list, oldest first.                                *)
(***************************************************************************)
EXTENDS Integers, FiniteSets, SequencesExt

CONSTANTS
    Fanout,             \* CompactionConfig::fanout
    BaseBytes,          \* CompactionConfig::base_bytes
    MaxSegmentBytes     \* CompactionConfig::max_segment_bytes, 0 for no cap

ASSUME TieringAssumption ==
    Fanout \in Nat \ {0, 1} /\ BaseBytes \in Nat \ {0} /\ MaxSegmentBytes \in Nat

MaxTier == 8    \* bound: the code stops at 32

\* Tier t + 1 begins at BaseBytes * Fanout^t.
SizeTier(bytes) == Cardinality({t \in 0..MaxTier - 1 : bytes >= BaseBytes * Fanout ^ t})

LastOf(n, s) == SubSeq(s, Len(s) - n + 1, Len(s))

\* The sizes that would take the group before them over the cap.
Overflows(sizes) ==
    LET Take(acc, i) ==
            IF MaxSegmentBytes > 0 /\ acc.total + sizes[i] > MaxSegmentBytes
            THEN [starts |-> acc.starts \cup {i}, total |-> sizes[i]]
            ELSE [acc EXCEPT !.total = @ + sizes[i]]
    IN  FoldLeft(Take, [starts |-> {}, total |-> 0], [i \in DOMAIN sizes |-> i]).starts

\* Where the consecutive groups begin that each become one output.
MergeChunks(sizes) == {i \in DOMAIN sizes : i = 1 \/ i \in Overflows(sizes)}

\* The tail run to merge, 0 for none.  Walking back, only a larger tier ends the
\* run, and only once `counted` segments at the anchor tier justify it; until
\* then it becomes the anchor and the smaller ones were passengers.
TailRun(sizes) ==
    LET Walk(acc, bytes) ==
            LET t == SizeTier(bytes)
                larger == t > acc.tier
            IN  IF acc.ended \/ (larger /\ acc.counted >= Fanout) THEN [acc EXCEPT !.ended = TRUE]
                ELSE [tier |-> IF larger THEN t ELSE acc.tier,
                      run |-> acc.run + 1,
                      counted |-> (IF larger THEN 0 ELSE acc.counted)
                                     + (IF t >= acc.tier THEN 1 ELSE 0),
                      ended |-> FALSE]
        start == [tier |-> SizeTier(Last(sizes)), run |-> 0, counted |-> 0, ended |-> FALSE]
        walk == FoldLeft(Walk, start, Reverse(sizes))
    IN  IF Len(sizes) < Fanout THEN 0
        ELSE IF walk.counted < Fanout THEN 0
        ELSE IF Cardinality(MergeChunks(LastOf(walk.run, sizes))) >= walk.run THEN 0
        ELSE walk.run

\* The longest tail within the size cap whose oldest segment holds a key that a
\* newer one of them holds, 0 for none.
ShadowedTail(sizes, keys) ==
    LET Walk(acc, i) ==
            LET bytes == acc.bytes + sizes[i]
            IN  IF acc.ended \/ (MaxSegmentBytes > 0 /\ bytes > MaxSegmentBytes)
                THEN [acc EXCEPT !.ended = TRUE]
                ELSE [bytes |-> bytes, seen |-> acc.seen \cup keys[i], ended |-> FALSE,
                      run |-> IF keys[i] \cap acc.seen # {} THEN Len(sizes) - i + 1 ELSE acc.run]
        start == [bytes |-> 0, seen |-> {}, run |-> 0, ended |-> FALSE]
    IN  FoldLeft(Walk, start, Reverse([i \in DOMAIN sizes |-> i])).run
=============================================================================

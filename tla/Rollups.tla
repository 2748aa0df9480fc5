------------------------------ MODULE Rollups -------------------------------
(***************************************************************************)
(* The aggregation path over the store of Reading.tla: fold_analytics, the *)
(* rollup of each segment in its sidecar file and in the cache, and the    *)
(* seals, merges and in-place rewrites that replace segments while a fold  *)
(* is running (src/src/analytics.rs, src/src/rollup_file.rs, and their     *)
(* callers in src/src/lib.rs).                                             *)
(*                                                                         *)
(* A path is not an identity: a purge rewrites a segment under its own     *)
(* name.  A fold copies the buffer, lets the lock go, pins the segment     *)
(* list, and then reads one segment after another, each with a rollup that *)
(* is found by path.                                                       *)
(*                                                                         *)
(* Abstractions.  A rollup is the set of versions it counts, and its key   *)
(* hashes are their keys (no two hash alike).  The pricing table and the   *)
(* schema do not change.  A merge that looks for shadowed segments is the  *)
(* Merge of Reading, at any time.  No reader pages while a fold runs.       *)
(***************************************************************************)
EXTENDS Reading

CONSTANT Folded     \* the windows that are aggregated: filters without a session

ASSUME FoldedAssumption == Folded \subseteq {f \in Filter : f.session = NoSession}

VARIABLES
    paths,      \* the file names of the segments, in their order
    claimed,    \* file names used so far
    sidecars,   \* path -> the rollup file beside it, or NoRollup
    cache,      \* path -> the cached rollup, or NoRollup
    fold,       \* the aggregation in progress, and what it counted
    current     \* every version that was an answer at some time during it,
                \* and what a purge in that time let resurface in the segments

rollups == <<paths, claimed, sidecars, cache>>
allVars == <<readingVars, rollups, fold, current>>

Paths == 1 .. 2 * MaxIngests
NoRollup == [binding |-> <<>>, held |-> {}]

\* rollup_binding: what a rollup must agree with to be believed.
Binding(versions) ==
    <<Cardinality(versions),
      CHOOSE t \in {v.at : v \in versions} : \A v \in versions : t <= v.at,
      CHOOSE t \in {v.at : v \in versions} : \A v \in versions : v.at <= t>>
Rolled(versions) == [binding |-> Binding(versions), held |-> versions]

KeysOf(versions) == {v.key : v \in versions}

NoFold == [at |-> "idle", window |-> Everything, mask |-> NoMask, buffer |-> {},
           segments |-> <<>>, paths |-> <<>>, left |-> 0, hashes |-> {}, counted |-> <<>>]

RollupsInit ==
    /\ ReadingInit
    /\ paths = <<>> /\ claimed = 0
    /\ sidecars = [p \in Paths |-> NoRollup]
    /\ cache = [p \in Paths |-> NoRollup]
    /\ fold = NoFold
    /\ current = {}

-----------------------------------------------------------------------------
(* What the store's own steps do to paths, sidecars and the cache.          *)

\* seal_segment leaves a sidecar beside the file it wrote.  A fresh seal
\* caches nothing.
SealWithRollup ==
    /\ Seal
    /\ claimed' = claimed + 1
    /\ paths' = Append(paths, claimed')
    /\ sidecars' = [sidecars EXCEPT ![claimed'] = Rolled(buffer)]
    /\ UNCHANGED cache

\* install_cached_rollups: the output is cached if an input was, and the inputs
\* stay cached for the folds that pinned them; their sidecars go.
MergeWithRollup(first) ==
    /\ Merge(first)
    /\ claimed' = claimed + 1
    /\ paths' = Append(SubSeq(paths, 1, first - 1), claimed')
    /\ LET inputs == ToSet(SubSeq(paths, first, Len(paths)))
           rollup == Rolled(Last(segments'))
       IN  /\ sidecars' = [p \in Paths |-> IF p = claimed' THEN rollup
                                           ELSE IF p \in inputs THEN NoRollup ELSE sidecars[p]]
           /\ cache' = IF \E p \in inputs : cache[p] # NoRollup
                       THEN [cache EXCEPT ![claimed'] = rollup] ELSE cache

\* replace_cached_rollups: a rewritten segment replaces what was cached for its
\* path, a retired one takes its sidecar and its entry along.
PurgeWithRollups(left) ==
    /\ CompleteErasure(left)
    /\ LET rewritten(p) == \E i \in DOMAIN segments :
                               paths[i] = p /\ Kept(segments[i]) # segments[i]
           rollup(p) == LET i == CHOOSE i \in DOMAIN segments : paths[i] = p
                        IN  IF Kept(segments[i]) = {} THEN NoRollup ELSE Rolled(Kept(segments[i]))
       IN  /\ paths' = [i \in DOMAIN left |-> paths[left[i]]]
           /\ sidecars' = [p \in Paths |-> IF rewritten(p) THEN rollup(p) ELSE sidecars[p]]
           /\ cache' = [p \in Paths |-> IF rewritten(p) /\ cache[p] # NoRollup
                                        THEN rollup(p) ELSE cache[p]]
    /\ UNCHANGED claimed

StoreStep ==
    /\ \/ \E key \in Keys, at \in Times, session \in Sessions : Ingest(key, at, session)
          /\ UNCHANGED rollups
       \/ SealWithRollup
       \/ \E first \in DOMAIN segments : MergeWithRollup(first)
       \/ \E session \in Sessions : BeginErasure(session) /\ UNCHANGED rollups
       \/ \E left \in Survivors : PurgeWithRollups(left)
    /\ current' = IF fold.at = "idle" THEN {}
                  ELSE current \cup Answer(Live(mask)', fold.window, Start)
                       \cup (IF subject' = NoSession /\ subject # NoSession
                             THEN Answer([Live(mask)' EXCEPT !.buffer = {}], fold.window, Start)
                             ELSE {})
    /\ UNCHANGED fold

\* A restart forgets the cache, and sidecars were never fsynced.
Restart ==
    /\ fold.at = "idle"
    /\ cache' = [p \in Paths |-> NoRollup]
    /\ \E lost \in SUBSET ToSet(paths) :
          sidecars' = [p \in Paths |-> IF p \in lost \/ p \notin ToSet(paths)
                                       THEN NoRollup ELSE sidecars[p]]
    /\ UNCHANGED <<readingVars, paths, claimed, fold, current>>

-----------------------------------------------------------------------------
(* fold_analytics.                                                         *)

BeginFold(window) ==
    /\ fold.at = "idle"
    /\ fold' = [NoFold EXCEPT !.at = "buffer", !.window = window, !.mask = mask]
    /\ still' = Answer(Live(mask), window, Start)
    /\ current' = still'
    /\ UNCHANGED <<store, reader, ingests, erasures, instant, rollups>>

FoldBuffer ==
    /\ fold.at = "buffer"
    /\ LET buffered == {v \in buffer : Matches(v, fold.window) /\ ~Covers(fold.mask, v)}
       IN  fold' = [fold EXCEPT !.at = "pin", !.buffer = buffer,
                                !.counted = IF buffered = {} THEN @ ELSE Append(@, buffered)]
    /\ UNCHANGED <<readingVars, rollups, current>>

PinForFold ==
    /\ fold.at = "pin"
    /\ fold' = [fold EXCEPT !.at = IF segments = <<>> THEN "finish" ELSE "walk",
                            !.segments = segments, !.paths = paths, !.left = Len(segments)]
    /\ UNCHANGED <<readingVars, rollups, current>>

\* cached_rollup and rollup_file::load: found by path, believed by binding.
Believed_ByPath(entry, versions) == entry # NoRollup
Believed(entry, versions) == entry # NoRollup /\ entry.binding = Binding(versions)

\* segment_rollup: the cache, else the sidecar, else the segment itself.
Obtained(path, versions) ==
    CASE Believed(cache[path], versions) -> cache[path]
      [] ~Believed(cache[path], versions) /\ Believed(sidecars[path], versions) -> sidecars[path]
      [] OTHER -> Rolled(versions)

\* A rollup that had to be built is written beside the file at that path, unless
\* the file is seen to be of another length; the look and the rename are two.
Healed(path, versions) ==
    IF Believed(cache[path], versions) \/ Believed(sidecars[path], versions) THEN {sidecars}
    ELSE {[sidecars EXCEPT ![path] = Rolled(versions)]}
         \cup (IF \E i \in DOMAIN paths : paths[i] = path /\ segments[i] = versions
               THEN {} ELSE {sidecars})

\* key_hashes of a pinned segment, which reads the sidecar and not the cache.
Hashes(path, versions) ==
    KeysOf(IF Believed(sidecars[path], versions) THEN sidecars[path].held ELSE versions)

\* superseded_by_newer, over the pinned list: a hash that is missing is proof
\* of absence, one that is found is confirmed.
SupersededInFold(position, key) ==
    \E i \in position + 1 .. Len(fold.segments) :
        /\ key \in Hashes(fold.paths[i], fold.segments[i])
        /\ HoldsKey(fold.segments[i], key)

\* One segment, the newest first: the rollup as it is when the window covers it
\* and nothing in it can be superseded, else its versions one by one.
FoldSegment ==
    /\ fold.at = "walk"
    /\ LET position == fold.left
           path == fold.paths[position]
           versions == fold.segments[position]
           rollup == Obtained(path, versions)
           inside == \A v \in rollup.held : Matches(v, fold.window)
           superseded == KeysOf(rollup.held) \cap (fold.hashes \cup KeysOf(fold.buffer)) # {}
           survivors == {v \in versions : /\ Matches(v, fold.window) /\ ~Covers(fold.mask, v)
                                          /\ ~HoldsKey(fold.buffer, v.key)
                                          /\ ~SupersededInFold(position, v.key)}
           counts == IF ~MayHold(rollup.held, fold.window) THEN {}
                     ELSE IF inside /\ ~superseded /\ fold.mask = NoMask THEN rollup.held
                     ELSE survivors
       IN  /\ fold' = [fold EXCEPT !.at = IF position = 1 THEN "finish" ELSE "walk",
                                   !.left = position - 1,
                                   !.hashes = @ \cup KeysOf(rollup.held),
                                   !.counted = IF counts = {} THEN @ ELSE Append(@, counts)]
           /\ cache' = [cache EXCEPT ![path] = rollup]
           /\ sidecars' \in Healed(path, versions)
    /\ UNCHANGED <<readingVars, paths, claimed, current>>

\* The cache keeps what the list, read afresh, still names.
FinishFold ==
    /\ fold.at = "finish"
    /\ fold' = [fold EXCEPT !.at = "done"]
    /\ cache' = [p \in Paths |-> IF p \in ToSet(paths) THEN cache[p] ELSE NoRollup]
    /\ UNCHANGED <<readingVars, paths, claimed, sidecars, current>>

FoldStep ==
    \/ \E window \in Folded : BeginFold(window)
    \/ FoldBuffer \/ PinForFold \/ FoldSegment \/ FinishFold

RollupsNext == StoreStep \/ Restart \/ FoldStep

RollupsSpec == RollupsInit /\ [][RollupsNext]_allVars

-----------------------------------------------------------------------------
(* Properties.                                                             *)

\* An aggregation counts no span twice, counts every span that matched when it
\* began and did not change, and counts nothing that was not, at some moment
\* while it ran, the visible version of its key (a purge that removed the newer
\* versions of a session may let an older one resurface for it) -- whatever was
\* sealed, merged and rewritten under it, and whichever rollups it found in the
\* cache and on disk (fold_analytics, cached_rollup, rollup_file::load).
AggregatesCountOnce ==
    fold.at = "done" =>
        LET all == UNION ToSet(fold.counted)
        IN  /\ \A i, j \in DOMAIN fold.counted :
                  i # j => KeysOf(fold.counted[i]) \cap KeysOf(fold.counted[j]) = {}
            /\ \A v, w \in all : v.key = w.key => v = w
            /\ still \subseteq all
            /\ all \subseteq current
=============================================================================

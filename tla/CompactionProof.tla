-------------------------- MODULE CompactionProof --------------------------
(***************************************************************************)
(* What merges, retention passes and the recovery of either keep to, for   *)
(* any keys, any batches retention is due to remove, any sizes and tiers,  *)
(* and any number of batches, segments and faults: reads see the newest    *)
(* version, what expired stays gone, and nothing is left behind.           *)
(***************************************************************************)
EXTENDS Compaction, FiniteSetTheorems, NaturalsInduction, WellFoundedInduction, TLAPS

\* In one history processes are killed or the machine loses power, not both.
OneKindOfCrash == ~({"kill", "power"} \subseteq Faults)

----------------------------------------------------------------------------
(* What a set of segment files is good for.                                *)

Known(k) == Newest(batches, {})[k]
Due(v) == Expired(v) /\ v <= reached
Gone(v) == Expired(v) /\ v <= retired

\* Later ids hold later versions.
Orderly(parts) ==
    \A p, q \in parts :
        /\ p.at = q.at => p = q
        /\ p.at < q.at => \A k \in Keys : q.row[k] = 0 \/ p.row[k] <= q.row[k]

\* A version on disk is no newer than the newest, nor than a frame for its key, and
\* no retention pass removed it.
Genuine(p) ==
    /\ p \in Segment /\ p.at < nextSegment
    /\ \A k \in Keys : /\ p.row[k] <= Known(k)
                       /\ Replayed[k] = 0 \/ p.row[k] <= Replayed[k]
                       /\ ReclaimOnSeal => ~Gone(p.row[k])

Sound(parts) == Orderly(parts) /\ \A p \in parts : Genuine(p)

\* A restart that finds these segments would show every key as it should be.
Holds(parts, k) ==
    \/ Due(Known(k)) \/ Known(k) = 0 \/ Replayed[k] = Known(k)
    \/ \E p \in parts : p.row[k] = Known(k)

Restores(parts) == Sound(parts) /\ \A k \in Keys : Holds(parts, k)

\* What recovery makes of a directory with a journal.
Forward(dir, j) == j.outputs \subseteq Ids(dir) \/ ~(j.inputs \subseteq Ids(dir))
Losers(dir, j) == IF Forward(dir, j) THEN j.inputs ELSE j.outputs
Without(dir, ids) == {f \in dir : f.at \notin ids}
Recovers(dir, j) == Restores(Without(dir, Losers(dir, j)))

WellFormed(j) ==
    /\ j \in Journal /\ j.inputs \cap j.outputs = {}
    /\ \E n \in j.outputs : \A o \in j.outputs : n <= o

----------------------------------------------------------------------------
(* The invariant.                                                          *)

Live == segments \cup (IF sealPc = "publish" THEN {drained} ELSE {})

LogInv ==
    /\ log \in Seq(Row)
    /\ \A k \in Keys : Replayed[k] <= Known(k) /\ (ReclaimOnSeal => ~Gone(Replayed[k]))

\* What is served: the buffer is what the log says, and where it has let a key go
\* the segments have the newest version.
BufferInv ==
    \A k \in Keys :
        /\ buffer[k] \in {0, Replayed[k]}
        /\ ReclaimOnSeal => buffer[k] = Replayed[k]
        /\ Due(Known(k)) \/ Known(k) = 0 \/ buffer[k] = Known(k)
               \/ \E p \in segments : p.row[k] = Known(k)

\* A seal in flight is the newest segment, and the buffer still has what it drained.
SealInv ==
    /\ permit = (IF sealPc # "idle" THEN "sealer"
                 ELSE IF pc \in {"retire", "replace"} THEN "expiry" ELSE Free)
    /\ sealPc # "idle" =>
           /\ pc \notin {"retire", "replace"}
           /\ Genuine(drained)
           /\ \A k \in Keys : drained.row[k] # 0 => drained.row[k] <= buffer[k]
           /\ \A s \in segments \ {drained} :
                  /\ s.at < drained.at
                  /\ \A k \in Keys : drained.row[k] = 0 \/ s.row[k] <= drained.row[k]
    /\ sealPc \in {"write", "publish"} => \A s \in segments : s.at < drained.at
    /\ sealPc = "reconcile" => drained \in segments

\* A retention pass has seen every batch it covers, and no segment is added to it.
ExpiryInv ==
    pc \in {"retire", "replace"} =>
        /\ todo \subseteq segments
        /\ \A s \in segments : /\ s \notin todo => Kept(s.row) = s.row
                               /\ \A k \in Keys : s.row[k] <= reached
        /\ \A k \in Keys : ~Due(buffer[k])
        /\ pc = "replace" => todo # {}

Count == Len(merge.groups)
Outs == {Output(i) : i \in DOMAIN merge.groups}
Written == {Output(i) : i \in 1 .. merge.written}

Merging == {"journal", "write", "publish", "unlink", "unjournal", "resync"}

\* A merge replaces consecutive groups by outputs whose ids follow theirs, and
\* whatever is sealed meanwhile comes after those.
MergeIs ==
    /\ merge.groups \in Seq(SUBSET Segment) /\ merge.first \in Nat
    /\ merge.written \in 0 .. Count
    /\ merge.journal = [inputs |-> Ids(Pinned), outputs |-> merge.first .. merge.first + Count - 1]
    /\ Count > 0 /\ merge.first + Count <= nextSegment
    /\ \A p \in Pinned : p.at < merge.first
    /\ \A i, j \in DOMAIN merge.groups :
           i < j => \A p \in merge.groups[i], q \in merge.groups[j] : p.at < q.at
    /\ sealPc # "idle" => merge.first + Count <= drained.at

MergeInv == pc \in Merging => MergeIs

Unpublished ==
    /\ Pinned \subseteq segments
    /\ \A s \in segments \ Pinned : \/ s.at < merge.first /\ \A p \in Pinned : s.at < p.at
                                    \/ merge.first + Count <= s.at

Published ==
    /\ merge.journal.outputs \subseteq Ids(segments)
    /\ Ids(segments) \cap merge.journal.inputs = {}

\* What the directory shows, and would show after a power loss, at each place.
Shows(dir, js) ==
    /\ files = dir /\ journals = js
    /\ "power" \in Faults => synced = [files |-> dir, journals |-> js]

DiskInv ==
    /\ pc \in {"idle", "retire"} => Shows(Live, {})
    /\ pc = "replace" =>
           /\ files = (segments \ {Oldest}) \cup Survivors(Oldest) /\ journals = {}
           /\ "power" \in Faults =>
                  /\ synced.files \in {files, files \cup {Oldest}} /\ synced.journals = {}
                  /\ Survivors(Oldest) # {} => synced.files = files
    /\ pc = "journal" => Unpublished /\ merge.written = 0 /\ Shows(Live, {})
    /\ pc = "write" =>
           Unpublished /\ merge.written < Count /\ Shows(Live \cup Written, {merge.journal})
    /\ pc = "publish" => Unpublished /\ Shows(Live \cup Outs, {merge.journal})
    /\ pc = "unlink" =>
           /\ journals = {merge.journal} /\ ("power" \in Faults => synced.journals = journals)
           /\ \/ /\ Unpublished /\ doomed \subseteq merge.journal.outputs
                 /\ Live \subseteq files /\ files \subseteq Live \cup Outs
                 /\ "power" \in Faults =>
                        Live \subseteq synced.files /\ synced.files \subseteq Live \cup Outs
              \/ /\ Published /\ doomed \subseteq merge.journal.inputs
                 /\ Live \subseteq files /\ Ids(files \ Live) \subseteq merge.journal.inputs
                 /\ "power" \in Faults =>
                        /\ Live \subseteq synced.files
                        /\ Ids(synced.files \ Live) \subseteq merge.journal.inputs
           /\ Ids(files \ Live) \subseteq doomed
    /\ pc = "unjournal" => (Unpublished \/ Published) /\ Shows(Live, {merge.journal})
    /\ pc = "resync" =>
           /\ Unpublished \/ Published
           /\ files = Live /\ journals = {}
           /\ "power" \in Faults =>
                  synced.files = Live /\ synced.journals \subseteq {merge.journal}

UpInv ==
    /\ Restores(Live)
    /\ BufferInv /\ SealInv /\ ExpiryInv /\ MergeInv /\ DiskInv

OpenInv ==
    /\ permit = Free /\ sealPc = "idle" /\ pc \in {"idle", "unlink", "unjournal", "resync"}
    /\ pc = "idle" =>
           /\ \/ journals = {} /\ Restores(files)
              \/ \E j \in journals : journals = {j} /\ WellFormed(j) /\ Recovers(files, j)
           /\ "power" \in Faults => synced = [files |-> files, journals |-> journals]
    /\ pc # "idle" => WellFormed(merge.journal) /\ Recovers(files, merge.journal)
    /\ pc = "unlink" =>
           /\ journals = {merge.journal}
           /\ doomed \subseteq Losers(files, merge.journal)
           /\ Ids(files) \cap Losers(files, merge.journal) \subseteq doomed
           /\ "power" \in Faults =>
                  /\ synced.journals = journals
                  /\ files \subseteq synced.files
                  /\ Ids(synced.files \ files) \subseteq Losers(files, merge.journal)
                  /\ Losers(synced.files, merge.journal) = Losers(files, merge.journal)
    /\ pc \in {"unjournal", "resync"} =>
           /\ Ids(files) \cap Losers(files, merge.journal) = {}
           /\ journals = (IF pc = "unjournal" THEN {merge.journal} ELSE {})
           /\ "power" \in Faults => synced = [files |-> files, journals |-> {merge.journal}]

Kinds ==
    /\ nextSegment \in Nat /\ buffer \in Row /\ segments \subseteq Segment
    /\ status \in {"up", "opening"} /\ sealPc \in {"idle", "write", "publish", "reconcile"}
    /\ pc \in {"idle", "journal", "write", "publish", "unlink", "unjournal", "resync",
               "retire", "replace"}
    /\ batches \in Seq(SUBSET Keys) /\ reached \in 0 .. Len(batches) /\ retired \in 0 .. reached

CompactionInv ==
    /\ Kinds /\ LogInv
    /\ status = "up" => UpInv
    /\ status = "opening" => OpenInv

----------------------------------------------------------------------------
(* Numbers, rows and the log.                                              *)

\* A non-empty set of numbers below a bound has a greatest.
LEMMA HasGreatest ==
    ASSUME NEW S \in SUBSET Nat, S # {}, NEW n \in Nat, \A s \in S : s <= n
    PROVE  \E m \in S : \A s \in S : s <= m
<1> DEFINE Bounds == {b \in Nat : \A s \in S : s <= b}
<1>1. Bounds \subseteq Nat /\ Bounds # {}
  OBVIOUS
<1> DEFINE Less == {ij \in Nat \X Nat : ij[1] < ij[2]}
<1>2. IsWellFoundedOn(Less, Nat)
  BY NatLessThanWellFounded DEF OpToRel
<1> HIDE DEF Less, Bounds
<1>5. PICK m \in Bounds : \A b \in Bounds : <<b, m>> \notin Less
  BY <1>1, <1>2, WFMin
<1>3. \A b \in Bounds : m <= b
  <2> SUFFICES ASSUME NEW b \in Bounds PROVE ~(b < m)
    BY <1>1
  <2>1. <<b, m>> \in Nat \X Nat /\ <<b, m>>[1] = b /\ <<b, m>>[2] = m
    BY <1>1
  <2> QED BY <1>5, <2>1 DEF Less
<1> USE DEF Bounds
<1>4. m \in S
  <2> SUFFICES ASSUME m \notin S PROVE FALSE
    OBVIOUS
  <2>1. \A s \in S : s <= m - 1 /\ m - 1 \in Nat
    OBVIOUS
  <2>2. m - 1 \in Bounds
    BY <2>1
  <2> QED BY <1>3, <2>2
<1> QED BY <1>4

\* What Greatest chooses, of a bounded set of numbers.
LEMMA GreatestIs ==
    ASSUME NEW S \in SUBSET Nat, NEW n \in Nat, \A s \in S : s <= n
    PROVE  /\ Greatest(S) \in Nat /\ \A s \in S : s <= Greatest(S)
           /\ S # {} => Greatest(S) \in S
           /\ S = {} => Greatest(S) = 0
<1>1. CASE S = {}
  BY <1>1 DEF Greatest
<1>2. CASE S # {}
  BY <1>2, HasGreatest DEF Greatest
<1> QED BY <1>1, <1>2

\* The newest part that holds a key provides it (Resolve).
LEMMA Resolved ==
    ASSUME NEW parts, NEW n \in Nat, NEW k \in Keys,
           \A p \in parts : p.at \in Nat /\ p.at <= n /\ p.row \in Row
    PROVE  \/ Resolve(parts)[k] = 0 /\ \A p \in parts : p.row[k] = 0
           \/ \E p \in parts : /\ p.row[k] # 0 /\ Resolve(parts)[k] = p.row[k]
                               /\ \A q \in parts : q.row[k] # 0 => q.at <= p.at
<1> DEFINE holding == {p \in parts : p.row[k] # 0}
           ids == {p.at : p \in holding}
           IsLast(p) == \A q \in holding : q.at <= p.at
<1>0. Resolve(parts)[k] = IF holding = {} THEN 0 ELSE (CHOOSE p \in holding : IsLast(p)).row[k]
  BY DEF Resolve
<1>1. CASE holding = {}
  BY <1>0, <1>1
<1>2. CASE holding # {}
  <2>1. ids \in SUBSET Nat /\ ids # {} /\ \A i \in ids : i <= n
    BY <1>2
  <2>2. \E m \in ids : \A i \in ids : i <= m
    BY <2>1, HasGreatest
  <2>3. \E p \in holding : IsLast(p)
    BY <2>2
  <2> DEFINE last == CHOOSE p \in holding : IsLast(p)
  <2>4. last \in holding /\ IsLast(last)
    BY <2>3
  <2> HIDE DEF last
  <2>5. Resolve(parts)[k] = last.row[k]
    BY <1>0, <1>2 DEF last
  <2> QED BY <2>4, <2>5
<1> QED BY <1>1, <1>2

\* In the order of ids that is the newest version.
LEMMA ResolvedIsNewest ==
    ASSUME NEW parts \in SUBSET Segment, Orderly(parts), NEW n \in Nat,
           \A p \in parts : p.at <= n
    PROVE  /\ Resolve(parts) \in Row
           /\ \A k \in Keys : /\ \A p \in parts : p.row[k] <= Resolve(parts)[k]
                              /\ Resolve(parts)[k] = 0
                                     \/ \E p \in parts : p.row[k] = Resolve(parts)[k]
<1>1. ASSUME NEW k \in Keys
      PROVE  /\ Resolve(parts)[k] \in Nat
             /\ \A p \in parts : p.row[k] <= Resolve(parts)[k]
             /\ Resolve(parts)[k] = 0 \/ \E p \in parts : p.row[k] = Resolve(parts)[k]
  <2>1. \A p \in parts : p.at \in Nat /\ p.at <= n /\ p.row \in Row /\ p.row[k] \in Nat
    BY DEF Segment, Row
  <2>2. CASE Resolve(parts)[k] = 0 /\ \A p \in parts : p.row[k] = 0
    BY <2>2
  <2>3. ASSUME NEW p \in parts, p.row[k] # 0, Resolve(parts)[k] = p.row[k],
               \A q \in parts : q.row[k] # 0 => q.at <= p.at
        PROVE  /\ Resolve(parts)[k] \in Nat
               /\ \A q \in parts : q.row[k] <= Resolve(parts)[k]
    <3>1. ASSUME NEW q \in parts PROVE q.row[k] <= p.row[k]
      <4>1. CASE q.row[k] = 0
        BY <2>1, <4>1
      <4>2. CASE q.row[k] # 0 /\ q.at = p.at
        BY <2>1, <4>2 DEF Orderly
      <4>3. CASE q.row[k] # 0 /\ q.at # p.at
        <5>1. q.at < p.at
          BY <2>1, <2>3, <4>3
        <5> QED BY <2>3, <5>1 DEF Orderly
      <4> QED BY <4>1, <4>2, <4>3
    <3> QED BY <2>1, <2>3, <3>1
  <2> QED BY <2>1, <2>2, <2>3, Resolved
<1>2. Resolve(parts) = [k \in Keys |-> Resolve(parts)[k]]
  BY DEF Resolve
<1> QED BY <1>1, <1>2 DEF Row

Frames(l) == {[at |-> i, row |-> l[i]] : i \in DOMAIN l}

\* A replay shows the last frame of each key.
LEMMA ReplayIs ==
    ASSUME NEW l \in Seq(Row), NEW k \in Keys
    PROVE  /\ Resolve(Frames(l))[k] \in Nat
           /\ \/ Resolve(Frames(l))[k] = 0 /\ \A i \in 1 .. Len(l) : l[i][k] = 0
              \/ \E i \in 1 .. Len(l) : /\ l[i][k] # 0 /\ Resolve(Frames(l))[k] = l[i][k]
                                        /\ \A j \in 1 .. Len(l) : l[j][k] # 0 => j <= i
<1>1. \A p \in Frames(l) : p.at \in Nat /\ p.at <= Len(l) /\ p.row \in Row
  BY DEF Frames
<1>2. \A i \in 1 .. Len(l) : [at |-> i, row |-> l[i]] \in Frames(l)
  BY DEF Frames
<1>3. \A p \in Frames(l) : \E i \in 1 .. Len(l) : p = [at |-> i, row |-> l[i]]
  BY DEF Frames
<1>4. Len(l) \in Nat
  OBVIOUS
<1>5. CASE Resolve(Frames(l))[k] = 0 /\ \A p \in Frames(l) : p.row[k] = 0
  <2>1. \A i \in 1 .. Len(l) : [at |-> i, row |-> l[i]].row[k] = 0
    BY <1>2, <1>5
  <2> QED BY <1>5, <2>1
<1>6. ASSUME NEW p \in Frames(l), p.row[k] # 0, Resolve(Frames(l))[k] = p.row[k],
             \A q \in Frames(l) : q.row[k] # 0 => q.at <= p.at
      PROVE  /\ Resolve(Frames(l))[k] \in Nat
             /\ \E i \in 1 .. Len(l) : /\ l[i][k] # 0 /\ Resolve(Frames(l))[k] = l[i][k]
                                       /\ \A j \in 1 .. Len(l) : l[j][k] # 0 => j <= i
  <2>1. PICK i \in 1 .. Len(l) : p = [at |-> i, row |-> l[i]]
    BY <1>3, <1>6
  <2>2. \A j \in 1 .. Len(l) : l[j][k] # 0 => j <= i
    BY <1>2, <1>6, <2>1
  <2> QED BY <1>1, <1>6, <2>1, <2>2 DEF Row
<1> QED BY <1>1, <1>4, <1>5, <1>6, Resolved

\* A frame appended to the log replaces what the replay showed of its keys.
LEMMA ReplayAppends ==
    ASSUME NEW l \in Seq(Row), NEW row \in Row, NEW k \in Keys
    PROVE  Resolve(Frames(Append(l, row)))[k]
               = IF row[k] # 0 THEN row[k] ELSE Resolve(Frames(l))[k]
<1> DEFINE m == Append(l, row)
<1>1. m \in Seq(Row) /\ Len(m) = Len(l) + 1 /\ Len(l) \in Nat
  OBVIOUS
<1>2. m[Len(l) + 1] = row /\ \A i \in 1 .. Len(l) : m[i] = l[i]
  OBVIOUS
<1> HIDE DEF m
<1>3. CASE row[k] # 0
  <2>1. \E i \in 1 .. Len(m) : /\ m[i][k] # 0 /\ Resolve(Frames(m))[k] = m[i][k]
                               /\ \A j \in 1 .. Len(m) : m[j][k] # 0 => j <= i
    BY <1>1, <1>2, <1>3, ReplayIs
  <2> QED BY <1>1, <1>2, <1>3, <2>1 DEF m
<1>4. CASE row[k] = 0
  <2>1. CASE \A i \in 1 .. Len(l) : l[i][k] = 0
    <3>1. \A i \in 1 .. Len(m) : m[i][k] = 0
      BY <1>1, <1>2, <1>4, <2>1
    <3>2. Resolve(Frames(m))[k] = 0
      BY <1>1, <3>1, ReplayIs
    <3>3. Resolve(Frames(l))[k] = 0
      BY <2>1, ReplayIs
    <3> QED BY <1>4, <3>2, <3>3 DEF m
  <2>2. CASE \E i \in 1 .. Len(l) : l[i][k] # 0
    <3>1. PICK i \in 1 .. Len(l) : /\ l[i][k] # 0 /\ Resolve(Frames(l))[k] = l[i][k]
                                   /\ \A j \in 1 .. Len(l) : l[j][k] # 0 => j <= i
      BY <2>2, ReplayIs
    <3>2. PICK n \in 1 .. Len(m) : /\ m[n][k] # 0 /\ Resolve(Frames(m))[k] = m[n][k]
                                   /\ \A j \in 1 .. Len(m) : m[j][k] # 0 => j <= n
      <4>1. i \in 1 .. Len(m) /\ m[i][k] # 0
        BY <1>1, <1>2, <3>1
      <4> QED BY <1>1, <4>1, ReplayIs
    <3>3. n \in 1 .. Len(l)
      BY <1>1, <1>2, <1>4, <3>2
    <3>4. n = i
      BY <1>1, <1>2, <3>1, <3>2, <3>3
    <3> QED BY <1>2, <1>4, <3>1, <3>2, <3>3, <3>4 DEF m
  <2> QED BY <2>1, <2>2
<1> QED BY <1>3, <1>4

\* A log rewritten to one row replays as that row.
LEMMA ReplayOfOne ==
    ASSUME NEW row \in Row, NEW k \in Keys
    PROVE  Logged(row) \in Seq(Row) /\ Resolve(Frames(Logged(row)))[k] = row[k]
<1>1. CASE row = Empty
  <2>1. Logged(row) = <<>> /\ row[k] = 0
    BY <1>1 DEF Logged, Empty
  <2>2. PICK l \in Seq(Row) : l = <<>> /\ Len(l) = 0
    <3>1. <<>> \in Seq(Row) /\ Len(<<>>) = 0
      OBVIOUS
    <3> QED BY <3>1
  <2>3. \A i \in 1 .. Len(l) : FALSE
    BY <2>2
  <2>4. Resolve(Frames(l))[k] = 0
    BY <2>3, ReplayIs
  <2> QED BY <2>1, <2>2, <2>4
<1>2. CASE row # Empty
  <2>1. Logged(row) = <<row>>
    BY <1>2 DEF Logged
  <2>2. PICK l \in Seq(Row) : l = <<row>> /\ Len(l) = 1 /\ l[1] = row
    <3>1. <<row>> \in Seq(Row) /\ Len(<<row>>) = 1 /\ <<row>>[1] = row
      OBVIOUS
    <3> QED BY <3>1
  <2>3. Resolve(Frames(l))[k] = row[k]
    <3>1. 1 \in 1 .. Len(l) /\ \A i \in 1 .. Len(l) : i = 1 /\ l[i] = row
      BY <2>2
    <3>2. l[1] = row
      BY <2>2
    <3>3. CASE Resolve(Frames(l))[k] = 0 /\ \A i \in 1 .. Len(l) : l[i][k] = 0
      BY <3>1, <3>2, <3>3
    <3>4. CASE \E i \in 1 .. Len(l) : Resolve(Frames(l))[k] = l[i][k]
      BY <3>1, <3>4
    <3> QED BY <3>3, <3>4, ReplayIs
  <2> QED BY <2>1, <2>2, <2>3
<1> QED BY <1>1, <1>2

\* The newest batch that carries a key.
LEMMA KnownIs ==
    ASSUME batches \in Seq(SUBSET Keys), NEW k \in Keys
    PROVE  /\ Known(k) \in 0 .. Len(batches)
           /\ \A b \in 1 .. Len(batches) : k \in batches[b] => b <= Known(k)
           /\ Known(k) # 0 => k \in batches[Known(k)]
<1> DEFINE S == {b \in DOMAIN batches \ {} : k \in batches[b]}
<1>1. Known(k) = Greatest(S)
  BY DEF Known, Newest
<1>2. S \in SUBSET Nat /\ S \subseteq 1 .. Len(batches) /\ Len(batches) \in Nat
      /\ \A s \in S : s <= Len(batches)
  OBVIOUS
<1>3. \A b \in 1 .. Len(batches) : k \in batches[b] => b \in S
  OBVIOUS
<1>4. \A b \in S : k \in batches[b]
  OBVIOUS
<1> HIDE DEF S
<1>5. /\ Greatest(S) \in Nat /\ \A s \in S : s <= Greatest(S)
      /\ S # {} => Greatest(S) \in S
      /\ S = {} => Greatest(S) = 0
  BY <1>2, GreatestIs
<1> QED BY <1>1, <1>2, <1>3, <1>4, <1>5

\* A batch becomes the newest version of the keys it carries, and of no other.
LEMMA KnownAdmits ==
    ASSUME batches \in Seq(SUBSET Keys), NEW ks \in SUBSET Keys, batches' = Append(batches, ks),
           NEW k \in Keys
    PROVE  Known(k)' = IF k \in ks THEN Len(batches) + 1 ELSE Known(k)
<1>1. /\ batches' \in Seq(SUBSET Keys) /\ Len(batches') = Len(batches) + 1 /\ Len(batches) \in Nat
      /\ batches'[Len(batches) + 1] = ks
      /\ \A b \in 1 .. Len(batches) : batches'[b] = batches[b]
  OBVIOUS
<1>2. /\ Known(k)' \in 0 .. Len(batches) + 1
      /\ \A b \in 1 .. Len(batches) + 1 : k \in batches'[b] => b <= Known(k)'
      /\ Known(k)' # 0 => k \in batches'[Known(k)']
  <2> DEFINE S == {b \in DOMAIN batches' \ {} : k \in batches'[b]}
  <2>1. Known(k)' = Greatest(S)
    BY DEF Known, Newest, Greatest
  <2>2. S \in SUBSET Nat /\ S \subseteq 1 .. Len(batches') /\ \A s \in S : s <= Len(batches')
    BY <1>1
  <2>3. \A b \in 1 .. Len(batches') : k \in batches'[b] => b \in S
    BY <1>1
  <2>4. \A b \in S : k \in batches'[b]
    OBVIOUS
  <2> HIDE DEF S
  <2>5. /\ Greatest(S) \in Nat /\ \A s \in S : s <= Greatest(S)
        /\ S # {} => Greatest(S) \in S
        /\ S = {} => Greatest(S) = 0
    <3>1. PICK T, n : T = S /\ n = Len(batches') /\ n \in Nat
      BY <1>1
    <3> QED BY <2>2, <3>1, GreatestIs
  <2> QED BY <1>1, <2>1, <2>2, <2>3, <2>4, <2>5
<1>3. CASE k \in ks
  BY <1>1, <1>2, <1>3
<1>4. CASE k \notin ks
  <2>1. Known(k)' <= Known(k)
    <3>1. CASE Known(k)' = 0
      BY <3>1, KnownIs
    <3>2. CASE Known(k)' # 0
      BY <1>1, <1>2, <1>4, <3>2, KnownIs
    <3> QED BY <3>1, <3>2
  <2>2. Known(k) <= Known(k)'
    BY <1>1, <1>2, KnownIs
  <2> QED BY <1>2, <1>4, <2>1, <2>2, KnownIs
<1> QED BY <1>3, <1>4

\* A replay shows a version of every key, 0 for none.
LEMMA ReplayedIsNumber == ASSUME LogInv, NEW k \in Keys PROVE Replayed[k] \in Nat
<1>1. Replayed = Resolve(Frames(log))
  BY DEF Replayed, Frames
<1> QED BY <1>1, ReplayIs DEF LogInv

\* What a restart would show depends on nothing but the log, the batches, and how far
\* retention has come.
ledger == <<log, batches, reached, retired>>

\* A set of segment files that restores the store goes on doing so while log, batches
\* and retention stand still.
LEMMA RestoresStays ==
    ASSUME NEW parts, Restores(parts), UNCHANGED ledger,
           nextSegment \in Nat, nextSegment' \in Nat, nextSegment <= nextSegment'
    PROVE  Restores(parts)'
<1>1. Replayed' = Replayed /\ \A k \in Keys : Known(k)' = Known(k)
  BY DEF ledger, Replayed, Known
<1>2. ASSUME NEW p \in parts PROVE Genuine(p)'
  BY <1>1 DEF Restores, Sound, Genuine, ledger, Gone, Segment
<1>3. \A k \in Keys : Holds(parts, k)'
  BY <1>1 DEF Restores, Holds, ledger, Due
<1> QED BY <1>2, <1>3 DEF Restores, Sound, Orderly

\* So does the log.
LEMMA LogStays == ASSUME LogInv, UNCHANGED ledger PROVE LogInv'
<1>1. Replayed' = Replayed /\ \A k \in Keys : Known(k)' = Known(k)
  BY DEF ledger, Replayed, Known
<1> QED BY <1>1 DEF LogInv, ledger, Gone

----------------------------------------------------------------------------
(* A merge.                                                                *)

\* The run a merge would replace is where it was.
Unreplaced(parts) ==
    /\ Pinned \subseteq parts
    /\ \A s \in parts \ Pinned : \/ s.at < merge.first /\ \A p \in Pinned : s.at < p.at
                                 \/ merge.first + Count <= s.at

\* The run is made of the groups.
LEMMA PinnedIs ==
    ASSUME MergeIs
    PROVE  /\ Count \in Nat /\ DOMAIN merge.groups = 1 .. Count
           /\ Pinned \subseteq Segment
           /\ \A i \in 1 .. Count : merge.groups[i] \subseteq Pinned
           /\ \A p \in Pinned : \E i \in 1 .. Count : p \in merge.groups[i]
<1>1. merge.groups \in Seq(SUBSET Segment)
  BY DEF MergeIs
<1>2. Count \in Nat /\ DOMAIN merge.groups = 1 .. Count
  BY <1>1 DEF Count
<1>3. \A i \in 1 .. Count : merge.groups[i] \subseteq Segment
  BY <1>1, <1>2
<1> QED BY <1>2, <1>3 DEF Pinned

\* An output holds, of each key of its group, the newest version.
LEMMA OutputIs ==
    ASSUME MergeIs, Kinds, LogInv, NEW parts, Restores(parts), Pinned \subseteq parts,
           NEW i \in 1 .. Count
    PROVE  /\ Output(i).at = merge.first + i - 1 /\ Genuine(Output(i))
           /\ \A k \in Keys :
                  /\ \A p \in merge.groups[i] : p.row[k] <= Output(i).row[k]
                  /\ Output(i).row[k] = 0
                         \/ \E p \in merge.groups[i] : p.row[k] = Output(i).row[k]
<1> DEFINE g == merge.groups[i]
<1>1. g \subseteq Pinned /\ g \in SUBSET Segment /\ Count \in Nat
  BY PinnedIs
<1>2. Output(i).at = merge.first + i - 1 /\ Output(i).row = Resolve(g)
      /\ Output(i) = [at |-> merge.first + i - 1, row |-> Resolve(g)]
  BY DEF Output
<1> HIDE DEF g
<1>3. Orderly(g) /\ \A p \in g : Genuine(p)
  BY <1>1 DEF Restores, Sound, Orderly
<1>4. merge.first \in Nat /\ merge.first + Count <= nextSegment /\ nextSegment \in Nat
  BY DEF MergeIs, Kinds
<1>5. \A p \in g : p.at <= nextSegment
  BY <1>1, <1>3, <1>4 DEF Genuine, Segment
<1>6. /\ Resolve(g) \in Row
      /\ \A k \in Keys : /\ \A p \in g : p.row[k] <= Resolve(g)[k]
                         /\ Resolve(g)[k] = 0 \/ \E p \in g : p.row[k] = Resolve(g)[k]
  BY <1>1, <1>3, <1>4, <1>5, ResolvedIsNewest
<1>7. Output(i) \in Segment /\ Output(i).at < nextSegment
  BY <1>1, <1>2, <1>4, <1>6 DEF Segment
<1>8. ASSUME NEW k \in Keys
      PROVE  /\ Output(i).row[k] <= Known(k)
             /\ Replayed[k] = 0 \/ Output(i).row[k] <= Replayed[k]
             /\ ReclaimOnSeal => ~Gone(Output(i).row[k])
  <2>1. Replayed[k] \in Nat /\ Known(k) \in Nat
    BY ReplayedIsNumber, KnownIs DEF Kinds
  <2>2. CASE Resolve(g)[k] = 0
    BY <1>2, <2>1, <2>2, StaleAssumption DEF Gone, Expired
  <2>3. CASE \E p \in g : p.row[k] = Resolve(g)[k]
    BY <1>2, <1>3, <2>3 DEF Genuine
  <2> QED BY <1>6, <2>2, <2>3
<1>9. Genuine(Output(i))
  BY <1>7, <1>8 DEF Genuine
<1> QED BY <1>2, <1>6, <1>9 DEF g

\* Versions and ids are numbers.
LEMMA RowIsNumbers ==
    ASSUME NEW p \in Segment, NEW k \in Keys PROVE p.row[k] \in Nat /\ p.at \in Nat
BY DEF Segment, Row

\* Replacing the run by the outputs loses no newest version and keeps the order.
LEMMA MergeRestores ==
    ASSUME MergeIs, Kinds, LogInv, NEW parts, Restores(parts), Unreplaced(parts)
    PROVE  Restores((parts \ Pinned) \cup Outs)
<1> DEFINE new == (parts \ Pinned) \cup Outs
<1>1. Count \in Nat /\ DOMAIN merge.groups = 1 .. Count /\ merge.first \in Nat
      /\ Pinned \subseteq parts
  BY PinnedIs DEF MergeIs, Unreplaced
<1>2. \A o \in Outs : \E i \in 1 .. Count : o = Output(i)
  BY <1>1 DEF Outs
<1>3. \A p \in parts : p \in Segment /\ Genuine(p)
  BY DEF Restores, Sound, Genuine
<1>4. \A i \in 1 .. Count : Output(i) \in Segment /\ Genuine(Output(i))
  BY <1>1, OutputIs DEF Genuine
<1>5. ASSUME NEW i \in 1 .. Count, NEW j \in 1 .. Count
      PROVE  /\ Output(i).at = Output(j).at => Output(i) = Output(j)
             /\ Output(i).at < Output(j).at =>
                    \A k \in Keys : Output(j).row[k] = 0 \/ Output(i).row[k] <= Output(j).row[k]
  <2>1. Output(i).at = merge.first + i - 1 /\ Output(j).at = merge.first + j - 1
    BY DEF Output
  <2>2. Output(i).at = Output(j).at => i = j
    BY <1>1, <2>1
  <2>3. ASSUME Output(i).at < Output(j).at, NEW k \in Keys, Output(j).row[k] # 0
        PROVE  Output(i).row[k] <= Output(j).row[k]
    <3>1. i < j
      BY <1>1, <2>1, <2>3
    <3>2. PICK q \in merge.groups[j] : q.row[k] = Output(j).row[k]
      BY <1>1, <2>3, OutputIs
    <3>3. q \in parts /\ q.row[k] \in Nat
      BY <1>1, <1>3, PinnedIs, RowIsNumbers
    <3>4. CASE Output(i).row[k] = 0
      BY <3>2, <3>3, <3>4
    <3>5. CASE Output(i).row[k] # 0
      <4>1. PICK p \in merge.groups[i] : p.row[k] = Output(i).row[k]
        BY <1>1, <3>5, OutputIs
      <4>2. p \in parts /\ p.at < q.at
        BY <1>1, <3>1, PinnedIs DEF MergeIs
      <4> QED BY <2>3, <3>2, <3>3, <4>1, <4>2 DEF Restores, Sound, Orderly
    <3> QED BY <3>4, <3>5
  <2> QED BY <2>2, <2>3
<1>6. ASSUME NEW s \in parts \ Pinned, NEW i \in 1 .. Count
      PROVE  /\ s.at # Output(i).at
             /\ s.at < Output(i).at =>
                    \A k \in Keys : Output(i).row[k] = 0 \/ s.row[k] <= Output(i).row[k]
             /\ Output(i).at < s.at =>
                    \A k \in Keys : s.row[k] = 0 \/ Output(i).row[k] <= s.row[k]
  <2>1. Output(i).at = merge.first + i - 1 /\ s.at \in Nat
    BY <1>3 DEF Output, Segment
  <2>2. CASE s.at < merge.first /\ \A p \in Pinned : s.at < p.at
    <3>1. s.at < Output(i).at /\ ~(Output(i).at < s.at) /\ s.at # Output(i).at
      BY <1>1, <2>1, <2>2
    <3>2. ASSUME NEW k \in Keys, Output(i).row[k] # 0 PROVE s.row[k] <= Output(i).row[k]
      <4>1. PICK p \in merge.groups[i] : p.row[k] = Output(i).row[k]
        BY <1>1, <3>2, OutputIs
      <4>2. p \in Pinned /\ p \in parts /\ s.at < p.at
        BY <1>1, <2>2, PinnedIs
      <4> QED BY <3>2, <4>1, <4>2 DEF Restores, Sound, Orderly
    <3> QED BY <3>1, <3>2
  <2>3. CASE merge.first + Count <= s.at
    <3>1. Output(i).at < s.at /\ ~(s.at < Output(i).at) /\ s.at # Output(i).at
      BY <1>1, <2>1, <2>3
    <3>2. ASSUME NEW k \in Keys, s.row[k] # 0 PROVE Output(i).row[k] <= s.row[k]
      <4>1. CASE Output(i).row[k] = 0
        BY <1>3, <4>1, RowIsNumbers
      <4>2. CASE Output(i).row[k] # 0
        <5>1. PICK p \in merge.groups[i] : p.row[k] = Output(i).row[k]
          BY <1>1, <4>2, OutputIs
        <5>2. p \in Pinned /\ p \in parts /\ p.at \in Nat
          BY <1>1, <1>3, PinnedIs DEF Segment
        <5>3. p.at < s.at
          BY <1>1, <2>1, <2>3, <5>2 DEF MergeIs
        <5> QED BY <3>2, <5>1, <5>2, <5>3 DEF Restores, Sound, Orderly
      <4> QED BY <4>1, <4>2
    <3> QED BY <3>1, <3>2
  <2> QED BY <2>2, <2>3 DEF Unreplaced
<1>7. Orderly(new)
  <2> SUFFICES ASSUME NEW p \in new, NEW q \in new
               PROVE  /\ p.at = q.at => p = q
                      /\ p.at < q.at => \A k \in Keys : q.row[k] = 0 \/ p.row[k] <= q.row[k]
    BY DEF Orderly
  <2>1. CASE p \in parts \ Pinned /\ q \in parts \ Pinned
    BY <2>1 DEF Restores, Sound, Orderly
  <2>2. CASE p \in parts \ Pinned /\ q \in Outs
    BY <1>2, <1>6, <2>2
  <2>3. CASE p \in Outs /\ q \in parts \ Pinned
    BY <1>2, <1>6, <2>3
  <2>4. CASE p \in Outs /\ q \in Outs
    BY <1>2, <1>5, <2>4
  <2> QED BY <2>1, <2>2, <2>3, <2>4
<1>8. \A p \in new : Genuine(p)
  BY <1>2, <1>3, <1>4
<1>9. ASSUME NEW k \in Keys PROVE Holds(new, k)
  <2>1. ASSUME NEW p \in parts, p.row[k] = Known(k) PROVE \E q \in new : q.row[k] = Known(k)
    <3>1. CASE p \notin Pinned
      BY <2>1, <3>1
    <3>2. CASE p \in Pinned
      <4>1. PICK i \in 1 .. Count : p \in merge.groups[i]
        BY <3>2, PinnedIs
      <4>2. p.row[k] <= Output(i).row[k] /\ Output(i).row[k] <= Known(k)
        BY <1>1, <1>4, <4>1, OutputIs DEF Genuine
      <4>3. Output(i).row[k] \in Nat /\ p.row[k] \in Nat
        BY <1>3, <1>4, RowIsNumbers
      <4>4. Output(i) \in new
        BY <1>1 DEF Outs
      <4> QED BY <2>1, <4>2, <4>3, <4>4
    <3> QED BY <3>1, <3>2
  <2> QED BY <2>1 DEF Restores, Holds
<1> QED BY <1>7, <1>8, <1>9 DEF Restores, Sound

\* Until it is published, recovery either completes a merge or undoes it.
LEMMA RecoversUnpublished ==
    ASSUME MergeIs, Kinds, LogInv, NEW parts, Restores(parts), Unreplaced(parts),
           NEW dir, parts \subseteq dir, dir \subseteq parts \cup Outs
    PROVE  WellFormed(merge.journal) /\ Recovers(dir, merge.journal)
<1> DEFINE j == merge.journal
           last == merge.first + Count - 1
<1>1. Count \in Nat \ {0} /\ merge.first \in Nat /\ DOMAIN merge.groups = 1 .. Count
      /\ Pinned \subseteq parts /\ Pinned \subseteq Segment
  BY PinnedIs DEF MergeIs, Unreplaced
<1>2. j = [inputs |-> Ids(Pinned), outputs |-> merge.first .. last]
  BY DEF MergeIs
<1>3. \A p \in Pinned : p.at \in Nat /\ p.at < merge.first
  BY <1>1 DEF MergeIs, Segment
<1>4. WellFormed(j)
  <2>1. j.inputs \subseteq Nat /\ j.outputs \subseteq Nat /\ j.inputs \cap j.outputs = {}
    BY <1>1, <1>2, <1>3 DEF Ids
  <2>2. merge.first \in j.outputs /\ \A o \in j.outputs : merge.first <= o
    BY <1>1, <1>2
  <2>3. j \in Journal
    BY <1>2, <2>1 DEF Journal
  <2> QED BY <2>1, <2>2, <2>3 DEF WellFormed
<1>5. \A p \in parts : p.at \in Nat /\ p.at \notin j.outputs
  <2> SUFFICES ASSUME NEW p \in parts PROVE p.at \in Nat /\ p.at \notin j.outputs
    OBVIOUS
  <2>1. p.at \in Nat
    BY DEF Restores, Sound, Genuine, Segment
  <2> QED BY <1>1, <1>2, <1>3, <2>1 DEF Unreplaced
<1>6. \A i \in 1 .. Count : Output(i).at = merge.first + i - 1
  BY DEF Output
<1>7. \A o \in Outs : o.at \in j.outputs /\ o.at \notin j.inputs
  <2> SUFFICES ASSUME NEW i \in 1 .. Count
               PROVE  Output(i).at \in j.outputs /\ Output(i).at \notin j.inputs
    BY <1>1 DEF Outs
  <2>1. Output(i).at \in merge.first .. last /\ merge.first <= Output(i).at
    BY <1>1, <1>6
  <2>2. \A p \in Pinned : p.at # Output(i).at
    BY <1>1, <1>3, <2>1
  <2> QED BY <1>2, <2>1, <2>2 DEF Ids
<1>8. j.inputs \subseteq Ids(dir)
  BY <1>1, <1>2 DEF Ids
<1>9. CASE j.outputs \subseteq Ids(dir)
  <2>1. Outs \subseteq dir
    <3> SUFFICES ASSUME NEW i \in 1 .. Count PROVE Output(i) \in dir
      BY <1>1 DEF Outs
    <3>1. merge.first + i - 1 \in j.outputs
      BY <1>1, <1>2
    <3>2. PICK f \in dir : f.at = merge.first + i - 1
      BY <1>9, <3>1 DEF Ids
    <3>3. f \in Outs
      BY <1>5, <3>1, <3>2
    <3>4. PICK n \in 1 .. Count : f = Output(n)
      BY <1>1, <3>3 DEF Outs
    <3>5. n = i
      BY <1>1, <1>6, <3>2, <3>4
    <3> QED BY <3>4, <3>5
  <2>2. Losers(dir, j) = j.inputs
    BY <1>9 DEF Losers, Forward
  <2>3. \A p \in parts : p.at \in j.inputs <=> p \in Pinned
    <3>1. \A p \in parts, q \in Pinned : p.at = q.at => p = q
      BY <1>1 DEF Restores, Sound, Orderly
    <3> QED BY <1>2, <3>1 DEF Ids
  <2>4. Without(dir, j.inputs) = (parts \ Pinned) \cup Outs
    BY <1>7, <2>1, <2>3 DEF Without
  <2> QED BY <1>4, <2>2, <2>4, MergeRestores DEF Recovers
<1>10. CASE ~(j.outputs \subseteq Ids(dir))
  <2>1. Losers(dir, j) = j.outputs
    BY <1>8, <1>10 DEF Losers, Forward
  <2>2. Without(dir, j.outputs) = parts
    BY <1>5, <1>7 DEF Without
  <2> QED BY <1>4, <2>1, <2>2 DEF Recovers
<1> QED BY <1>9, <1>10

\* Once it is published, recovery can only finish the removal of its inputs.
LEMMA RecoversPublished ==
    ASSUME MergeIs, Kinds, NEW parts, Restores(parts),
           merge.journal.outputs \subseteq Ids(parts), Ids(parts) \cap merge.journal.inputs = {},
           NEW dir, parts \subseteq dir, Ids(dir \ parts) \subseteq merge.journal.inputs
    PROVE  WellFormed(merge.journal) /\ Recovers(dir, merge.journal)
<1> DEFINE j == merge.journal
           last == merge.first + Count - 1
<1>1. Count \in Nat \ {0} /\ merge.first \in Nat /\ Pinned \subseteq Segment
  BY PinnedIs DEF MergeIs
<1>2. j = [inputs |-> Ids(Pinned), outputs |-> merge.first .. last]
  BY DEF MergeIs
<1>3. \A p \in Pinned : p.at \in Nat /\ p.at < merge.first
  BY <1>1 DEF MergeIs, Segment
<1>4. WellFormed(j)
  <2>1. j.inputs \subseteq Nat /\ j.outputs \subseteq Nat /\ j.inputs \cap j.outputs = {}
    BY <1>1, <1>2, <1>3 DEF Ids
  <2>2. merge.first \in j.outputs /\ \A o \in j.outputs : merge.first <= o
    BY <1>1, <1>2
  <2>3. j \in Journal
    BY <1>2, <2>1 DEF Journal
  <2> QED BY <2>1, <2>2, <2>3 DEF WellFormed
<1>5. Losers(dir, j) = j.inputs
  BY DEF Losers, Forward, Ids
<1>6. Without(dir, j.inputs) = parts
  BY DEF Without, Ids
<1> QED BY <1>4, <1>5, <1>6 DEF Recovers

\* A non-empty set of numbers has a least.
LEMMA HasLeast ==
    ASSUME NEW S \in SUBSET Nat, S # {}
    PROVE  \E m \in S : \A s \in S : m <= s
<1> DEFINE Less == {ij \in Nat \X Nat : ij[1] < ij[2]}
<1>1. IsWellFoundedOn(Less, Nat)
  BY NatLessThanWellFounded DEF OpToRel
<1> HIDE DEF Less
<1>2. PICK m \in S : \A s \in S : <<s, m>> \notin Less
  BY <1>1, WFMin
<1>3. ASSUME NEW s \in S PROVE m <= s
  <2>1. <<s, m>> \in Nat \X Nat /\ <<s, m>>[1] = s /\ <<s, m>>[2] = m
    OBVIOUS
  <2> QED BY <1>2, <2>1 DEF Less
<1> QED BY <1>3

\* The segment a retention pass is at.
LEMMA OldestIs == ASSUME todo \subseteq Segment, todo # {} PROVE Oldest \in todo
<1> DEFINE ids == {t.at : t \in todo}
<1>1. ids \in SUBSET Nat /\ ids # {}
  BY DEF Segment
<1>2. PICK m \in ids : \A i \in ids : m <= i
  BY <1>1, HasLeast
<1>3. PICK s \in todo : \A t \in todo : s.at <= t.at
  BY <1>2
<1> QED BY <1>3 DEF Oldest

\* Retiring a segment's expired spans keeps what a restart would show.
LEMMA RetireRestores ==
    ASSUME NEW parts, Restores(parts), NEW old \in parts, Kinds, LogInv,
           \A k \in Keys : old.row[k] <= reached
    PROVE  Restores((parts \ {old}) \cup Survivors(old))
<1> DEFINE new == (parts \ {old}) \cup Survivors(old)
<1>1. old \in Segment /\ Genuine(old) /\ 0 \notin Stale
  BY StaleAssumption DEF Restores, Sound, Genuine
<1>2. \A k \in Keys : /\ old.row[k] \in Nat /\ Kept(old.row)[k] \in Nat
                      /\ Kept(old.row)[k] \in {0, old.row[k]} /\ Kept(old.row)[k] <= old.row[k]
  <2> SUFFICES ASSUME NEW k \in Keys
               PROVE  /\ old.row[k] \in Nat /\ Kept(old.row)[k] \in Nat
                      /\ Kept(old.row)[k] \in {0, old.row[k]} /\ Kept(old.row)[k] <= old.row[k]
    OBVIOUS
  <2>1. old.row[k] \in Nat
    BY <1>1, RowIsNumbers
  <2>2. Kept(old.row)[k] = IF Expired(old.row[k]) THEN 0 ELSE old.row[k]
    BY DEF Kept
  <2> QED BY <2>1, <2>2
<1>3. ASSUME NEW s \in Survivors(old)
      PROVE  /\ s \in Segment /\ s.at = old.at /\ Genuine(s)
             /\ \A k \in Keys : s.row[k] = Kept(old.row)[k]
  <2>1. s = [old EXCEPT !.row = Kept(old.row)]
    BY DEF Survivors
  <2>2. Kept(old.row) \in Row
    BY <1>2 DEF Kept, Row
  <2>3. s \in Segment /\ s.at = old.at /\ s.row = Kept(old.row)
    BY <1>1, <2>1, <2>2 DEF Segment
  <2>4. ASSUME NEW k \in Keys
        PROVE  /\ s.row[k] <= Known(k)
               /\ Replayed[k] = 0 \/ s.row[k] <= Replayed[k]
               /\ ReclaimOnSeal => ~Gone(s.row[k])
    <3>1. Replayed[k] \in Nat /\ Known(k) \in Nat
      BY ReplayedIsNumber, KnownIs DEF Kinds
    <3>2. CASE s.row[k] = 0
      BY <1>1, <3>1, <3>2 DEF Gone, Expired
    <3>3. CASE s.row[k] = old.row[k]
      BY <1>1, <3>3 DEF Genuine
    <3> QED BY <1>2, <2>3, <3>2, <3>3
  <2> QED BY <1>1, <2>3, <2>4 DEF Genuine
<1>4. Orderly(new)
  <2> SUFFICES ASSUME NEW p \in new, NEW q \in new
               PROVE  /\ p.at = q.at => p = q
                      /\ p.at < q.at => \A k \in Keys : q.row[k] = 0 \/ p.row[k] <= q.row[k]
    BY DEF Orderly
  <2>0. /\ \A s, t \in Survivors(old) : s = t
        /\ old.at \in Nat
        /\ \A s \in parts : s.at \in Nat /\ \A k \in Keys : s.row[k] \in Nat
    <3>1. \A s \in parts : s \in Segment
      BY DEF Restores, Sound, Genuine
    <3>2. \A s, t \in Survivors(old) : s = t
      BY DEF Survivors
    <3>3. \A s \in parts : s.at \in Nat
      BY <3>1 DEF Segment
    <3>4. \A s \in parts : \A k \in Keys : s.row[k] \in Nat
      BY <3>1, RowIsNumbers
    <3> QED BY <3>2, <3>3, <3>4
  <2>1. CASE p \in parts \ {old} /\ q \in parts \ {old}
    BY <2>1 DEF Restores, Sound, Orderly
  <2>2. CASE p \in parts \ {old} /\ q \in Survivors(old)
    <3>1. p.at # q.at
      BY <1>3, <2>2 DEF Restores, Sound, Orderly
    <3>2. ASSUME p.at < q.at, NEW k \in Keys, q.row[k] # 0 PROVE p.row[k] <= q.row[k]
      <4>1. q.row[k] = old.row[k] /\ p.at < old.at
        BY <1>2, <1>3, <2>2, <3>2
      <4> QED BY <2>2, <3>2, <4>1 DEF Restores, Sound, Orderly
    <3> QED BY <3>1, <3>2
  <2>3. CASE p \in Survivors(old) /\ q \in parts \ {old}
    <3>1. p.at # q.at
      BY <1>3, <2>3 DEF Restores, Sound, Orderly
    <3>2. ASSUME p.at < q.at, NEW k \in Keys, q.row[k] # 0 PROVE p.row[k] <= q.row[k]
      <4>1. p.row[k] <= old.row[k] /\ old.at < q.at /\ p.row[k] \in Nat
        BY <1>2, <1>3, <2>3, <3>2
      <4>2. old.row[k] <= q.row[k] /\ q.row[k] \in Nat
        BY <2>0, <2>3, <3>2, <4>1 DEF Restores, Sound, Orderly
      <4> QED BY <1>2, <4>1, <4>2
    <3> QED BY <3>1, <3>2
  <2>4. CASE p \in Survivors(old) /\ q \in Survivors(old)
    BY <1>3, <2>0, <2>4
  <2> QED BY <2>1, <2>2, <2>3, <2>4
<1>5. ASSUME NEW k \in Keys PROVE Holds(new, k)
  <2>1. ASSUME old.row[k] = Known(k), ~Due(Known(k)), Known(k) # 0
        PROVE  \E q \in new : q.row[k] = Known(k)
    <3>1. ~Expired(Known(k)) /\ Kept(old.row)[k] = Known(k)
      BY <2>1 DEF Due, Kept
    <3>2. Kept(old.row) # Empty
      BY <2>1, <3>1 DEF Empty
    <3>3. Survivors(old) # {}
      BY <3>2 DEF Survivors
    <3> QED BY <1>3, <3>1, <3>3
  <2> QED BY <2>1 DEF Restores, Holds
<1> QED BY <1>3, <1>4, <1>5 DEF Restores, Sound

----------------------------------------------------------------------------
(* Crashes.                                                                *)

\* What is live comes before the outputs of a merge, or after all of them.
LEMMA LiveIsUnreplaced ==
    ASSUME MergeIs, Unpublished PROVE Unreplaced(Live)
<1>1. CASE sealPc # "publish"
  <2>1. Live = segments
    BY <1>1 DEF Live
  <2> QED BY <2>1 DEF Unreplaced, Unpublished
<1>2. CASE sealPc = "publish"
  <2>1. Live = segments \cup {drained} /\ merge.first + Count <= drained.at
    BY <1>2 DEF Live, MergeIs
  <2> QED BY <2>1 DEF Unreplaced, Unpublished
<1> QED BY <1>1, <1>2

\* After the publication the outputs are live and no input is.
LEMMA LiveIsPublished ==
    ASSUME MergeIs, Published, Restores(Live)
    PROVE  merge.journal.outputs \subseteq Ids(Live) /\ Ids(Live) \cap merge.journal.inputs = {}
<1>1. merge.journal.outputs \subseteq Ids(Live)
  BY DEF Live, Published, Ids
<1>2. CASE sealPc # "publish"
  <2>1. Live = segments
    BY <1>2 DEF Live
  <2> QED BY <1>1, <2>1 DEF Published
<1>3. CASE sealPc = "publish"
  <2>1. Live = segments \cup {drained} /\ merge.first + Count <= drained.at
    BY <1>3 DEF Live, MergeIs
  <2>2. drained.at \in Nat
    BY <2>1 DEF Restores, Sound, Genuine, Segment
  <2>3. \A p \in Pinned : p.at \in Nat /\ p.at # drained.at
    BY <2>1, <2>2, PinnedIs DEF MergeIs, Segment
  <2>4. drained.at \notin merge.journal.inputs
    BY <2>3 DEF MergeIs, Ids
  <2> QED BY <1>1, <2>1, <2>4 DEF Published, Ids
<1> QED BY <1>2, <1>3

\* A restart recovers from this directory.
Survivable(dir, js) ==
    \/ js = {} /\ Restores(dir)
    \/ \E j \in js : js = {j} /\ WellFormed(j) /\ Recovers(dir, j)

\* Between what the directory shows and what was last synced.
Between(dir, now, was) == now \cap was \subseteq dir /\ dir \subseteq now \cup was

\* Wherever the process dies, a restart recovers from what a kill or a power loss
\* leaves of the directory.
LEMMA DyingIsSurvivable ==
    ASSUME Kinds, LogInv, UpInv, NEW dir, NEW js,
           \/ dir = files /\ js = journals
           \/ /\ "power" \in Faults /\ Between(dir, files, synced.files)
              /\ Between(js, journals, synced.journals)
    PROVE  Survivable(dir, js)
<1>0. /\ Restores(Live) /\ SealInv /\ ExpiryInv /\ MergeInv /\ DiskInv
      /\ pc \in {"idle", "journal", "write", "publish", "unlink", "unjournal", "resync",
                 "retire", "replace"}
      /\ Live \subseteq Segment
  BY DEF UpInv, Kinds, Restores, Sound, Genuine
<1>1. ASSUME NEW d, NEW j, Shows(d, j) PROVE dir = d /\ js = j
  BY <1>1 DEF Shows, Between
<1>2. CASE pc \in {"idle", "retire", "journal"}
  <2>1. Shows(Live, {})
    BY <1>0, <1>2 DEF DiskInv
  <2> QED BY <1>0, <1>1, <2>1 DEF Survivable
<1>3. CASE pc = "replace"
  <2>1. /\ files = (segments \ {Oldest}) \cup Survivors(Oldest) /\ journals = {}
        /\ "power" \in Faults =>
               /\ synced.files \in {files, files \cup {Oldest}} /\ synced.journals = {}
               /\ Survivors(Oldest) # {} => synced.files = files
    BY <1>0, <1>3 DEF DiskInv
  <2>2. Live = segments /\ todo \subseteq segments /\ todo # {}
        /\ \A s \in segments : \A k \in Keys : s.row[k] <= reached
    BY <1>0, <1>3 DEF Live, SealInv, ExpiryInv
  <2>3. Oldest \in segments
    BY <1>0, <2>2, OldestIs
  <2>4. Restores(files)
    BY <1>0, <2>1, <2>2, <2>3, RetireRestores
  <2>5. js = {}
    BY <2>1 DEF Between
  <2>6. dir = files \/ dir = segments
    <3>1. CASE Survivors(Oldest) # {}
      BY <2>1, <3>1 DEF Between
    <3>2. CASE Survivors(Oldest) = {}
      <4>1. files = segments \ {Oldest}
        BY <2>1, <3>2
      <4>2. dir = files \/ dir = files \cup {Oldest}
        BY <2>1 DEF Between
      <4> QED BY <2>3, <4>1, <4>2
    <3> QED BY <3>1, <3>2
  <2> QED BY <1>0, <2>2, <2>4, <2>5, <2>6 DEF Survivable
<1>4. ASSUME MergeIs, Unpublished, Live \subseteq dir, dir \subseteq Live \cup Outs,
             js = {merge.journal}
      PROVE  Survivable(dir, js)
  BY <1>0, <1>4, LiveIsUnreplaced, RecoversUnpublished DEF Survivable
<1>5. ASSUME MergeIs, Published, Live \subseteq dir, Ids(dir \ Live) \subseteq merge.journal.inputs,
             js = {merge.journal}
      PROVE  Survivable(dir, js)
  BY <1>0, <1>5, LiveIsPublished, RecoversPublished DEF Survivable
<1>6. pc \in Merging => MergeIs
  BY <1>0 DEF MergeInv
<1>7. Written \subseteq Outs \/ pc \notin Merging
  BY <1>6, PinnedIs DEF Written, Outs, MergeIs
<1>8. CASE pc = "write"
  <2>1. Unpublished /\ Shows(Live \cup Written, {merge.journal}) /\ MergeIs
    BY <1>0, <1>6, <1>8 DEF DiskInv, Merging
  <2> QED BY <1>1, <1>4, <1>7, <1>8, <2>1 DEF Merging
<1>9. CASE pc = "publish"
  <2>1. Unpublished /\ Shows(Live \cup Outs, {merge.journal}) /\ MergeIs
    BY <1>0, <1>6, <1>9 DEF DiskInv, Merging
  <2> QED BY <1>1, <1>4, <2>1
<1>10. CASE pc = "unlink"
  <2>1. js = {merge.journal}
    BY <1>0, <1>10 DEF DiskInv, Between
  <2>2. CASE /\ Unpublished /\ doomed \subseteq merge.journal.outputs
             /\ Live \subseteq files /\ files \subseteq Live \cup Outs
             /\ "power" \in Faults =>
                        Live \subseteq synced.files /\ synced.files \subseteq Live \cup Outs
    BY <1>4, <1>6, <1>10, <2>1, <2>2 DEF Between, Merging
  <2>3. CASE /\ Published /\ doomed \subseteq merge.journal.inputs
             /\ Live \subseteq files /\ Ids(files \ Live) \subseteq merge.journal.inputs
             /\ "power" \in Faults =>
                        /\ Live \subseteq synced.files
                        /\ Ids(synced.files \ Live) \subseteq merge.journal.inputs
    <3>1. Ids(dir \ Live) \subseteq merge.journal.inputs
      BY <2>3 DEF Between, Ids
    <3> QED BY <1>5, <1>6, <1>10, <2>1, <2>3, <3>1 DEF Between, Merging
  <2> QED BY <1>0, <1>10, <2>2, <2>3 DEF DiskInv
<1>11. CASE pc = "unjournal"
  <2>1. Shows(Live, {merge.journal}) /\ (Unpublished \/ Published) /\ MergeIs
    BY <1>0, <1>6, <1>11 DEF DiskInv, Merging
  <2>2. dir = Live /\ js = {merge.journal} /\ Ids(dir \ Live) = {}
    BY <1>1, <2>1 DEF Ids
  <2> QED BY <1>4, <1>5, <2>1, <2>2
<1>12. CASE pc = "resync"
  <2>1. (Unpublished \/ Published) /\ MergeIs /\ files = Live /\ journals = {}
        /\ ("power" \in Faults => synced.files = Live /\ synced.journals \subseteq {merge.journal})
    BY <1>0, <1>6, <1>12 DEF DiskInv, Merging
  <2>2. dir = Live /\ js \subseteq {merge.journal} /\ Ids(dir \ Live) = {}
    BY <2>1 DEF Ids, Between
  <2>3. CASE js = {}
    BY <1>0, <2>2, <2>3 DEF Survivable
  <2>4. CASE js = {merge.journal}
    BY <1>4, <1>5, <2>1, <2>2, <2>4
  <2> QED BY <2>2, <2>3, <2>4
<1> QED BY <1>0, <1>2, <1>3, <1>8, <1>9, <1>10, <1>11, <1>12

\* So does it when it dies in the middle of a recovery.
LEMMA DyingAgainIsSurvivable ==
    ASSUME OpenInv, NEW dir, NEW js,
           \/ dir = files /\ js = journals
           \/ /\ "power" \in Faults /\ Between(dir, files, synced.files)
              /\ Between(js, journals, synced.journals)
    PROVE  Survivable(dir, js)
<1> DEFINE j == merge.journal
<1>1. CASE pc = "idle"
  <2>1. dir = files /\ js = journals
    BY <1>1 DEF OpenInv, Between
  <2> QED BY <1>1, <2>1 DEF OpenInv, Survivable
<1>2. CASE pc = "unlink"
  <2>1. /\ journals = {j} /\ WellFormed(j) /\ Recovers(files, j)
        /\ "power" \in Faults =>
               /\ synced.journals = journals /\ files \subseteq synced.files
               /\ Ids(synced.files \ files) \subseteq Losers(files, j)
               /\ Losers(synced.files, j) = Losers(files, j)
    BY <1>2 DEF OpenInv
  <2>2. js = {j}
    BY <2>1 DEF Between
  <2>3. CASE dir = files
    BY <2>1, <2>2, <2>3 DEF Survivable
  <2>4. CASE dir # files
    <3>1. "power" \in Faults /\ files \subseteq dir /\ dir \subseteq synced.files
      BY <2>1, <2>4 DEF Between
    <3>2. j.inputs \cap j.outputs = {} /\ j.outputs # {}
      BY <2>1 DEF WellFormed
    <3>3. Ids(files) \subseteq Ids(dir) /\ Ids(dir) \subseteq Ids(synced.files)
          /\ Ids(synced.files) \subseteq Ids(files) \cup Losers(files, j)
      BY <2>1, <3>1 DEF Ids
    <3>4. Losers(dir, j) = Losers(files, j)
      BY <2>1, <3>1, <3>2, <3>3 DEF Losers, Forward
    <3>5. Without(dir, Losers(files, j)) = Without(files, Losers(files, j))
      <4>1. \A f \in dir : f \in files \/ f.at \in Losers(files, j)
        BY <2>1, <3>1 DEF Ids
      <4> QED BY <3>1, <4>1 DEF Without
    <3> QED BY <2>1, <2>2, <3>4, <3>5 DEF Survivable, Recovers
  <2> QED BY <2>3, <2>4
<1>3. CASE pc \in {"unjournal", "resync"}
  <2>1. /\ WellFormed(j) /\ Recovers(files, j) /\ Ids(files) \cap Losers(files, j) = {}
        /\ journals = (IF pc = "unjournal" THEN {j} ELSE {})
        /\ "power" \in Faults => synced = [files |-> files, journals |-> {j}]
    BY <1>3 DEF OpenInv
  <2>2. dir = files /\ js \subseteq {j}
    BY <2>1 DEF Between
  <2>3. Restores(files)
    <3>1. Without(files, Losers(files, j)) = files
      BY <2>1 DEF Without, Ids
    <3> QED BY <2>1, <3>1 DEF Recovers
  <2> QED BY <2>1, <2>2, <2>3 DEF Survivable
<1> QED BY <1>1, <1>2, <1>3 DEF OpenInv

\* What the next open finds is what the dying process left.
LEMMA DyingKeeps ==
    ASSUME Kinds, LogInv, Die, NEW dir, NEW js, Survivable(dir, js), files' = dir, journals' = js,
           "power" \in Faults => synced' = [files |-> files', journals |-> journals']
    PROVE  CompactionInv'
<1>1. Kinds'
  BY DEF Kinds, Die, EndMerge, memory, ghost
<1>2. UNCHANGED ledger /\ nextSegment' = nextSegment /\ nextSegment \in Nat
  BY DEF Die, Kinds, memory, ghost, ledger
<1>3. LogInv'
  BY <1>2, LogStays
<1>4. status' = "opening" /\ permit' = Free /\ sealPc' = "idle" /\ pc' = "idle"
  BY DEF Die, EndMerge
<1>5. \/ journals' = {} /\ Restores(files)'
      \/ \E j \in journals' : journals' = {j} /\ WellFormed(j)' /\ Recovers(files, j)'
  <2>1. CASE js = {} /\ Restores(dir)
    <3>1. Restores(dir)'
      BY <1>2, <2>1, RestoresStays
    <3> QED BY <2>1, <3>1 DEF Restores, Sound, Orderly, Holds
  <2>2. CASE \E j \in js : js = {j} /\ WellFormed(j) /\ Recovers(dir, j)
    <3>1. PICK j \in js : js = {j} /\ WellFormed(j) /\ Recovers(dir, j)
      BY <2>2
    <3>2. WellFormed(j)'
      BY <3>1 DEF WellFormed, Journal
    <3>3. PICK rest : rest = Without(dir, Losers(dir, j))
      OBVIOUS
    <3>4. Restores(rest)'
      BY <1>2, <3>1, <3>3, RestoresStays DEF Recovers
    <3>5. rest = Without(files, Losers(files, j))'
      BY <3>3 DEF Without, Losers, Forward
    <3>6. Recovers(files, j)'
      BY <3>4, <3>5 DEF Recovers, Restores, Sound, Orderly, Holds
    <3> QED BY <3>1, <3>2, <3>6
  <2> QED BY <2>1, <2>2 DEF Survivable
<1>6. OpenInv'
  BY <1>4, <1>5 DEF OpenInv
<1> QED BY <1>1, <1>3, <1>4, <1>6 DEF CompactionInv

\* A process that dies leaves the directory as it showed; the next open recovers from it.
LEMMA KillKeeps == ASSUME OneKindOfCrash, CompactionInv, Kill PROVE CompactionInv'
<1>1. PICK dir, js : dir = files /\ js = journals
  OBVIOUS
<1>2. Die /\ files' = dir /\ journals' = js /\ "power" \notin Faults
  BY <1>1 DEF Kill, disk, Fault, OneKindOfCrash
<1>3. Kinds /\ LogInv /\ (UpInv \/ OpenInv)
  BY DEF CompactionInv, Kinds
<1>4. Survivable(dir, js)
  BY <1>1, <1>3, DyingIsSurvivable, DyingAgainIsSurvivable
<1> QED BY <1>2, <1>3, <1>4, DyingKeeps

\* Power loss leaves something between what the directory showed and what was synced.
LEMMA PowerKeeps == ASSUME CompactionInv, Power PROVE CompactionInv'
<1>1. PICK dir, js : dir = files' /\ js = journals'
  OBVIOUS
<1>2. /\ Die /\ "power" \in Faults /\ synced' = [files |-> files', journals |-> journals']
      /\ Between(dir, files, synced.files) /\ Between(js, journals, synced.journals)
  <2>1. Between(dir, files, synced.files)
    BY <1>1 DEF Power, Reverts, Between
  <2>2. Between(js, journals, synced.journals)
    BY <1>1 DEF Power, Between
  <2> QED BY <2>1, <2>2 DEF Power, Fault, SyncDirectory
<1>3. Kinds /\ LogInv /\ (UpInv \/ OpenInv)
  BY DEF CompactionInv, Kinds
<1>4. Survivable(dir, js)
  BY <1>2, <1>3, DyingIsSurvivable, DyingAgainIsSurvivable
<1> QED BY <1>1, <1>2, <1>3, <1>4, DyingKeeps

----------------------------------------------------------------------------
(* Recovery.                                                               *)

\* Recovery takes the journal up, forward or back as the directory says.
LEMMA RecoverMergeKeeps == ASSUME CompactionInv, RecoverMerge PROVE CompactionInv'
<1>1. /\ Kinds /\ LogInv /\ OpenInv /\ pc = "idle" /\ journals # {} /\ status' = "opening"
      /\ UNCHANGED <<disk, memory, permit, seal, todo, status, ghost, faults>> /\ pc' = "unlink"
  BY DEF CompactionInv, RecoverMerge
<1>2. PICK j : j \in journals /\ journals = {j} /\ WellFormed(j) /\ Recovers(files, j)
  BY <1>1 DEF OpenInv
<1>3. merge' = [NoMerge EXCEPT !.journal = j] /\ doomed' = Direction(j)
  <2>1. First(j) \in Nat
    BY <1>2 DEF First, WellFormed, Journal
  <2>2. (CHOOSE i \in journals : \A o \in journals : First(i) <= First(o)) = j
    BY <1>2, <2>1
  <2> QED BY <2>2 DEF RecoverMerge
<1>4. merge'.journal = j
  BY <1>3 DEF NoMerge
<1>5. Direction(j) = Losers(files, j)
  BY DEF Direction, Committed, Untouched, Losers, Forward
<1>6. Kinds'
  BY <1>1 DEF Kinds, memory, ghost, seal
<1>7. UNCHANGED ledger /\ nextSegment' = nextSegment /\ nextSegment \in Nat
  BY <1>1 DEF Kinds, memory, ghost, ledger
<1>8. LogInv'
  BY <1>1, <1>7, LogStays
<1>9. PICK dir : dir = files /\ dir = files'
  BY <1>1 DEF disk
<1>10. WellFormed(j)' /\ Recovers(dir, j)'
  <2>1. PICK rest : rest = Without(dir, Losers(dir, j))
    OBVIOUS
  <2>2. Restores(rest)'
    BY <1>2, <1>7, <1>9, <2>1, RestoresStays DEF Recovers
  <2>3. rest = Without(dir, Losers(dir, j))'
    BY <2>1 DEF Without, Losers, Forward
  <2>4. Recovers(dir, j)'
    BY <2>2, <2>3 DEF Recovers, Restores, Sound, Orderly, Holds
  <2> QED BY <1>2, <2>4 DEF WellFormed, Journal
<1>11. OpenInv'
  <2>1. /\ permit' = Free /\ sealPc' = "idle" /\ pc' = "unlink" /\ journals' = {j}
        /\ doomed' = Losers(dir, j) /\ files' = dir
        /\ "power" \in Faults => synced' = [files |-> dir, journals |-> {j}]
    BY <1>1, <1>2, <1>3, <1>5, <1>9 DEF OpenInv, disk, seal
  <2>2. Losers(files, merge.journal)' = Losers(dir, j)
    BY <1>4, <2>1 DEF Losers, Forward, Ids
  <2>3. WellFormed(merge.journal)' /\ Recovers(files, merge.journal)'
    BY <1>4, <1>10, <2>1
  <2>4. "power" \in Faults =>
            /\ synced'.files = dir /\ synced'.journals = {j}
            /\ Losers(synced.files, merge.journal)' = Losers(dir, j)
    BY <1>4, <2>1 DEF Losers, Forward, Ids
  <2>5. /\ Ids(dir \ dir) = {} /\ Ids(files)' = Ids(dir)
        /\ synced'.files = dir => Ids(synced.files \ files)' = {}
    BY <2>1 DEF Ids
  <2> QED BY <1>4, <2>1, <2>2, <2>3, <2>4, <2>5 DEF OpenInv
<1> QED BY <1>1, <1>6, <1>8, <1>11 DEF CompactionInv

\* A step of a recovery that leaves its verdict as it was.
LEMMA RecoveryStep ==
    ASSUME CompactionInv, status = "opening", pc \in Merging,
           UNCHANGED <<memory, permit, seal, status, ghost>>,
           pc' \in {"idle", "unlink", "unjournal", "resync"},
           NEW j, j = merge.journal, NEW now, now = files, NEW dir, dir = files',
           Losers(dir, j) = Losers(now, j),
           Without(dir, Losers(dir, j)) = Without(now, Losers(now, j))
    PROVE  /\ Kinds' /\ LogInv' /\ WellFormed(j)' /\ Recovers(dir, j)'
           /\ permit' = Free /\ sealPc' = "idle" /\ status' = "opening"
<1>1. Kinds /\ LogInv /\ OpenInv /\ pc # "idle"
  BY DEF CompactionInv, Merging
<1>2. WellFormed(j) /\ Recovers(now, j) /\ permit = Free /\ sealPc = "idle"
  BY <1>1 DEF OpenInv
<1>3. Kinds' /\ permit' = Free /\ sealPc' = "idle"
  BY <1>1, <1>2 DEF Kinds, memory, ghost, seal
<1>4. UNCHANGED ledger /\ nextSegment' = nextSegment /\ nextSegment \in Nat
  BY <1>1 DEF Kinds, memory, ghost, ledger
<1>5. LogInv'
  BY <1>1, <1>4, LogStays
<1>6. PICK rest : rest = Without(dir, Losers(dir, j))
  OBVIOUS
<1>7. Restores(rest)'
  BY <1>2, <1>4, <1>6, RestoresStays DEF Recovers
<1>8. rest = Without(dir, Losers(dir, j))'
  BY <1>6 DEF Without, Losers, Forward
<1>9. Recovers(dir, j)'
  BY <1>7, <1>8 DEF Recovers, Restores, Sound, Orderly, Holds
<1> QED BY <1>2, <1>3, <1>5, <1>9 DEF WellFormed, Journal

\* The next id to unlink is one of those the merge has decided on.
LEMMA NextDoomed ==
    ASSUME doomed \subseteq Nat, doomed # {}
    PROVE  (CHOOSE d \in doomed : \A e \in doomed : d <= e) \in doomed
BY HasLeast

\* Unlinking a loser does not change the verdict on the others, before or after a crash.
LEMMA RecoveryUnlinks ==
    ASSUME CompactionInv, status = "opening", Unlink PROVE CompactionInv'
<1>1. OpenInv /\ pc = "unlink" /\ pc' = "unlink" /\ doomed # {}
      /\ UNCHANGED <<journals, synced, memory, permit, seal, pc, merge, todo, status, ghost,
                     faults>>
  BY DEF CompactionInv, Unlink
<1>2. PICK j, now, dir, was :
          j = merge.journal /\ now = files /\ dir = files' /\ was = synced.files
  OBVIOUS
<1>3. /\ journals = {j} /\ WellFormed(j) /\ doomed \subseteq Losers(now, j)
      /\ Ids(now) \cap Losers(now, j) \subseteq doomed
      /\ "power" \in Faults =>
                  /\ synced.journals = journals
                  /\ now \subseteq was
                  /\ Ids(was \ now) \subseteq Losers(now, j)
                  /\ Losers(was, j) = Losers(now, j)
  BY <1>1, <1>2 DEF OpenInv
<1>4. Losers(now, j) \subseteq Nat /\ j.inputs \cap j.outputs = {}
  BY <1>3 DEF Losers, WellFormed, Journal
<1>5. PICK id \in doomed : files' = {f \in files : f.at # id} /\ doomed' = doomed \ {id}
  BY <1>1, <1>3, <1>4, NextDoomed DEF Unlink
<1>6. dir = {f \in now : f.at # id} /\ id \in Losers(now, j)
  BY <1>2, <1>3, <1>5
<1>7. Ids(dir) = Ids(now) \ {id}
  BY <1>6 DEF Ids
<1>8. Losers(dir, j) = Losers(now, j)
  BY <1>4, <1>6, <1>7 DEF Losers, Forward
<1>9. Without(dir, Losers(dir, j)) = Without(now, Losers(now, j))
  BY <1>6, <1>8 DEF Without
<1>10. /\ Kinds' /\ LogInv' /\ WellFormed(j)' /\ Recovers(dir, j)'
       /\ permit' = Free /\ sealPc' = "idle" /\ status' = "opening"
  <2>1. pc \in Merging /\ pc' \in {"idle", "unlink", "unjournal", "resync"}
    BY <1>1 DEF Merging
  <2> QED BY <1>1, <1>2, <1>8, <1>9, <2>1, RecoveryStep
<1>11. doomed' \subseteq Losers(dir, j) /\ Ids(dir) \cap Losers(dir, j) \subseteq doomed'
  BY <1>3, <1>5, <1>7, <1>8
<1>12. Ids(was \ dir) \subseteq Ids(was \ now) \cup {id} /\ dir \subseteq now
  BY <1>6 DEF Ids
<1>13. /\ journals' = {j} /\ merge'.journal = j /\ files' = dir /\ synced'.files = was
       /\ synced'.journals = synced.journals /\ pc' = "unlink"
  BY <1>1, <1>2, <1>3
<1>14. /\ Losers(files, merge.journal)' = Losers(dir, j) /\ Ids(files)' = Ids(dir)
       /\ Losers(synced.files, merge.journal)' = Losers(was, j)
       /\ Ids(synced.files \ files)' = Ids(was \ dir)
  BY <1>13 DEF Losers, Forward, Ids
<1>15. OpenInv'
  <2>1. WellFormed(merge.journal)' /\ Recovers(files, merge.journal)'
    BY <1>10, <1>13
  <2>2. "power" \in Faults =>
            /\ synced'.journals = journals' /\ dir \subseteq was
            /\ Ids(was \ dir) \subseteq Losers(dir, j)
            /\ Losers(was, j) = Losers(dir, j)
    BY <1>3, <1>6, <1>8, <1>12, <1>13
  <2> QED BY <1>10, <1>11, <1>13, <1>14, <2>1, <2>2 DEF OpenInv
<1> QED BY <1>10, <1>15 DEF CompactionInv

\* The losers are gone for good before the journal goes.
LEMMA RecoverySyncs ==
    ASSUME CompactionInv, status = "opening", SyncUnlinks PROVE CompactionInv'
<1>1. OpenInv /\ pc = "unlink" /\ pc' = "unjournal" /\ doomed = {}
      /\ UNCHANGED <<files, journals, memory, permit, seal, merge, doomed, todo, status, ghost,
                     faults>>
      /\ synced' = [files |-> files', journals |-> journals']
  BY DEF CompactionInv, SyncUnlinks, SyncDirectory
<1>2. PICK j, dir : j = merge.journal /\ dir = files
  OBVIOUS
<1>3. journals = {j} /\ WellFormed(j) /\ Ids(dir) \cap Losers(dir, j) = {}
  BY <1>1, <1>2 DEF OpenInv
<1>4. /\ Kinds' /\ LogInv' /\ WellFormed(j)' /\ Recovers(dir, j)'
      /\ permit' = Free /\ sealPc' = "idle" /\ status' = "opening"
  <2>1. pc \in Merging /\ pc' \in {"idle", "unlink", "unjournal", "resync"}
    BY <1>1 DEF Merging
  <2> QED BY <1>1, <1>2, <2>1, RecoveryStep
<1>5. /\ journals' = {j} /\ merge'.journal = j /\ files' = dir
      /\ synced' = [files |-> dir, journals |-> {j}]
  BY <1>1, <1>2, <1>3
<1>6. Losers(files, merge.journal)' = Losers(dir, j) /\ Ids(files)' = Ids(dir)
  BY <1>5 DEF Losers, Forward, Ids
<1>7. WellFormed(merge.journal)' /\ Recovers(files, merge.journal)'
  BY <1>4, <1>5
<1>8. OpenInv'
  BY <1>1, <1>3, <1>4, <1>5, <1>6, <1>7 DEF OpenInv
<1> QED BY <1>4, <1>8 DEF CompactionInv

\* Without its journal a recovered directory is what the journal made of it.
LEMMA RecoveryForgets ==
    ASSUME CompactionInv, status = "opening", RemoveJournal PROVE CompactionInv'
<1>1. OpenInv /\ pc = "unjournal" /\ pc' = "resync" /\ journals' = journals \ {merge.journal}
      /\ UNCHANGED <<files, synced, memory, permit, seal, merge, doomed, todo, status, ghost,
                     faults>>
  BY DEF CompactionInv, RemoveJournal
<1>2. PICK j, dir : j = merge.journal /\ dir = files
  OBVIOUS
<1>3. /\ journals = {j} /\ WellFormed(j) /\ Ids(dir) \cap Losers(dir, j) = {}
      /\ "power" \in Faults => synced = [files |-> dir, journals |-> {j}]
  BY <1>1, <1>2 DEF OpenInv
<1>4. /\ Kinds' /\ LogInv' /\ WellFormed(j)' /\ Recovers(dir, j)'
      /\ permit' = Free /\ sealPc' = "idle" /\ status' = "opening"
  <2>1. pc \in Merging /\ pc' \in {"idle", "unlink", "unjournal", "resync"}
    BY <1>1 DEF Merging
  <2> QED BY <1>1, <1>2, <2>1, RecoveryStep
<1>5. journals' = {} /\ merge'.journal = j /\ files' = dir /\ synced' = synced
  BY <1>1, <1>2, <1>3
<1>6. Losers(files, merge.journal)' = Losers(dir, j) /\ Ids(files)' = Ids(dir)
  BY <1>5 DEF Losers, Forward, Ids
<1>7. WellFormed(merge.journal)' /\ Recovers(files, merge.journal)'
  BY <1>4, <1>5
<1>8. OpenInv'
  BY <1>1, <1>3, <1>4, <1>5, <1>6, <1>7 DEF OpenInv
<1> QED BY <1>4, <1>8 DEF CompactionInv

\* When recovery is through with a journal, every file in the directory is a segment.
LEMMA RecoveryEnds ==
    ASSUME CompactionInv, status = "opening", SyncRemoval PROVE CompactionInv'
<1>1. OpenInv /\ pc = "resync" /\ pc' = "idle"
      /\ UNCHANGED <<files, journals, memory, permit, seal, todo, status, ghost, faults>>
      /\ synced' = [files |-> files', journals |-> journals']
  BY DEF CompactionInv, SyncRemoval, SyncDirectory, EndMerge
<1>2. PICK j, dir : j = merge.journal /\ dir = files
  OBVIOUS
<1>3. journals = {} /\ Ids(dir) \cap Losers(dir, j) = {}
  BY <1>1, <1>2 DEF OpenInv
<1>4. /\ Kinds' /\ LogInv' /\ WellFormed(j)' /\ Recovers(dir, j)'
      /\ permit' = Free /\ sealPc' = "idle" /\ status' = "opening"
  <2>1. pc \in Merging /\ pc' \in {"idle", "unlink", "unjournal", "resync"}
    BY <1>1 DEF Merging
  <2> QED BY <1>1, <1>2, <2>1, RecoveryStep
<1>5. Without(dir, Losers(dir, j)) = dir
  BY <1>3 DEF Without, Ids
<1>6. PICK rest : rest = Without(dir, Losers(dir, j)) /\ rest = dir
  BY <1>5
<1>7. Restores(rest)'
  <2>1. rest = Without(dir, Losers(dir, j))'
    BY <1>6 DEF Without, Losers, Forward
  <2> QED BY <1>4, <2>1 DEF Recovers, Restores, Sound, Orderly, Holds
<1>8. journals' = {} /\ files' = rest
  BY <1>1, <1>2, <1>3, <1>6
<1>9. Restores(files)'
  BY <1>7, <1>8 DEF Restores, Sound, Orderly, Holds
<1>10. OpenInv'
  BY <1>1, <1>4, <1>8, <1>9 DEF OpenInv
<1> QED BY <1>4, <1>10 DEF CompactionInv

\* The replayed buffer and the files that recovery left are what was admitted.
LEMMA OpenKeeps == ASSUME CompactionInv, Open PROVE CompactionInv'
<1>1. /\ Kinds /\ LogInv /\ OpenInv /\ pc = "idle" /\ journals = {} /\ status' = "up"
      /\ segments' = files /\ nextSegment' = NextId /\ buffer' = Replayed
      /\ UNCHANGED <<disk, log, permit, seal, upkeep, ghost, faults>>
  BY DEF CompactionInv, Open
<1>2. Restores(files) /\ permit = Free /\ sealPc = "idle"
      /\ ("power" \in Faults => synced = [files |-> files, journals |-> journals])
  BY <1>1 DEF OpenInv
<1>3. PICK dir : dir = files
  OBVIOUS
<1>4. \A p \in dir : p \in Segment /\ p.at \in Nat /\ p.at < nextSegment
  BY <1>2, <1>3 DEF Restores, Sound, Genuine, Segment
<1>5. nextSegment' \in Nat /\ \A p \in dir : p.at < nextSegment'
  <2> DEFINE S == Ids(dir)
  <2>0. nextSegment \in Nat
    BY <1>1 DEF Kinds
  <2>1. S \in SUBSET Nat /\ \A s \in S : s <= nextSegment
    BY <1>4, <2>0 DEF Ids
  <2>2. \A p \in dir : p.at \in S
    BY DEF Ids
  <2>3. nextSegment' = IF dir = {} THEN 0 ELSE Greatest(S) + 1
    BY <1>1, <1>3 DEF NextId
  <2>4. Greatest(S) \in Nat /\ \A s \in S : s <= Greatest(S)
    <3> HIDE DEF S
    <3>1. PICK n \in Nat : n = nextSegment
      BY <2>0
    <3> QED BY <2>1, <3>1, GreatestIs
  <2> QED BY <1>4, <2>2, <2>3, <2>4
<1>6. Replayed' = Replayed /\ (\A k \in Keys : Known(k)' = Known(k)) /\ UNCHANGED ledger
  BY <1>1 DEF ledger, Replayed, Known, ghost
<1>7. LogInv'
  BY <1>1, <1>6, LogStays
<1>8. Restores(dir)'
  <2>1. ASSUME NEW p \in dir PROVE Genuine(p)'
    BY <1>2, <1>3, <1>5, <1>6 DEF Restores, Sound, Genuine, ledger, Gone, Segment
  <2>2. \A k \in Keys : Holds(dir, k)'
    BY <1>2, <1>3, <1>6 DEF Restores, Holds, ledger, Due
  <2> QED BY <1>2, <1>3, <2>1, <2>2 DEF Restores, Sound, Orderly
<1>9. Kinds'
  <2>1. Replayed \in Row
    <3>1. Replayed = [k \in Keys |-> Replayed[k]]
      BY DEF Replayed, Resolve
    <3> QED BY <1>1, <3>1, ReplayedIsNumber DEF Row
  <2>2. dir \subseteq Segment
    BY <1>4
  <2> QED BY <1>1, <1>2, <1>3, <1>5, <2>1, <2>2 DEF Kinds, ghost, seal, upkeep
<1>10. /\ permit' = Free /\ sealPc' = "idle" /\ pc' = "idle" /\ Live' = dir /\ segments' = dir
       /\ files' = dir /\ journals' = {}
  BY <1>1, <1>2, <1>3 DEF Live, seal, upkeep, disk
<1>11. BufferInv'
  <2> SUFFICES ASSUME NEW k \in Keys
               PROVE  /\ buffer'[k] = Replayed'[k]
                      /\ Due(Known(k))' \/ Known(k)' = 0 \/ buffer'[k] = Known(k)'
                             \/ \E p \in segments' : p.row[k] = Known(k)'
    BY DEF BufferInv
  <2>1. Holds(dir, k)
    BY <1>2, <1>3 DEF Restores
  <2> QED BY <1>1, <1>6, <1>10, <2>1 DEF Holds, Due, ledger
<1>12. SealInv' /\ ExpiryInv' /\ MergeInv'
  BY <1>10 DEF SealInv, ExpiryInv, MergeInv, Merging
<1>13. DiskInv'
  BY <1>1, <1>2, <1>3, <1>10 DEF DiskInv, Shows, disk
<1>14. Restores(Live)'
  BY <1>8, <1>10 DEF Restores, Sound, Orderly, Holds
<1>15. UpInv'
  BY <1>11, <1>12, <1>13, <1>14 DEF UpInv
<1> QED BY <1>1, <1>7, <1>9, <1>15 DEF CompactionInv

----------------------------------------------------------------------------
(* A merge on disk.                                                        *)

SameMerge ==
    /\ merge'.groups = merge.groups /\ merge'.first = merge.first
    /\ merge'.journal = merge.journal

\* The run and the outputs are those of the merge.
LEMMA SameMergeIs ==
    ASSUME SameMerge PROVE Count' = Count /\ Pinned' = Pinned /\ Outs' = Outs
BY DEF SameMerge, Count, Pinned, Outs, Output

\* The live segments restore the store as before if they are the same.
LEMMA RestoresSame ==
    ASSUME Restores(Live), Live' = Live, UNCHANGED ledger, nextSegment \in Nat,
           nextSegment' \in Nat, nextSegment <= nextSegment'
    PROVE  Restores(Live)'
<1>1. PICK l : l = Live /\ l = Live'
  OBVIOUS
<1>2. Restores(l)'
  BY <1>1, RestoresStays
<1> QED BY <1>1, <1>2 DEF Restores, Sound, Orderly, Holds

\* A step of a merge that touches nothing but the directory need only leave the
\* directory as it should be.
LEMMA DiskStep ==
    ASSUME CompactionInv, status = "up", pc \in Merging, pc' \in Merging \cup {"idle"},
           UNCHANGED <<memory, permit, seal, status, ghost>>,
           pc' # "idle" => SameMerge /\ merge'.written \in 0 .. Count, DiskInv'
    PROVE  CompactionInv'
<1>1. /\ Kinds /\ LogInv /\ Restores(Live) /\ BufferInv /\ SealInv /\ MergeIs
  BY DEF CompactionInv, UpInv, MergeInv
<1>2. /\ log' = log /\ buffer' = buffer /\ segments' = segments /\ nextSegment' = nextSegment
      /\ permit' = permit /\ sealPc' = sealPc /\ drained' = drained /\ status' = "up"
      /\ batches' = batches /\ reached' = reached /\ retired' = retired
      /\ pc \notin {"retire", "replace"} /\ pc' \notin {"retire", "replace"}
  BY DEF memory, seal, ghost, Merging
<1>3. Kinds' /\ UNCHANGED ledger /\ nextSegment \in Nat
  BY <1>1, <1>2 DEF Kinds, ledger, Merging
<1>4. LogInv'
  BY <1>1, <1>3, LogStays
<1>5. Restores(Live)'
  BY <1>1, <1>2, <1>3, RestoresSame DEF Live
<1>6. Replayed' = Replayed /\ \A k \in Keys : Known(k)' = Known(k)
  BY <1>2 DEF Replayed, Known
<1>7. BufferInv'
  BY <1>1, <1>2, <1>6 DEF BufferInv, Due
<1>8. SealInv'
  BY <1>1, <1>2, <1>6 DEF SealInv, Genuine, Gone
<1>9. ExpiryInv'
  BY <1>2 DEF ExpiryInv
<1>10. MergeInv'
  <2>1. CASE pc' = "idle"
    BY <2>1 DEF MergeInv, Merging
  <2>2. CASE pc' # "idle"
    BY <1>1, <1>2, <2>2, SameMergeIs DEF MergeInv, MergeIs, SameMerge
  <2> QED BY <2>1, <2>2
<1>11. UpInv'
  BY <1>5, <1>7, <1>8, <1>9, <1>10 DEF UpInv
<1> QED BY <1>2, <1>3, <1>4, <1>11 DEF CompactionInv

\* The journal is durable before the first output.
LEMMA WriteJournalKeeps ==
    ASSUME CompactionInv, status = "up", WriteJournal PROVE CompactionInv'
<1>1. /\ pc = "journal" /\ pc' = "write" /\ journals' = journals \cup {merge.journal}
      /\ UNCHANGED <<files, memory, permit, seal, merge, doomed, todo, status, ghost, faults>>
      /\ synced' = [files |-> files', journals |-> journals']
  BY DEF WriteJournal, SyncDirectory
<1>2. Kinds /\ DiskInv /\ MergeIs
  BY <1>1 DEF CompactionInv, UpInv, MergeInv, Merging
<1>3. Unpublished /\ files = Live /\ journals = {}
  BY <1>1, <1>2 DEF DiskInv, Shows
<1>4. SameMerge /\ Live' = Live /\ segments' = segments
  BY <1>1 DEF SameMerge, Live, memory, seal
<1>5. Unpublished' /\ Count' = Count
  BY <1>1, <1>3, <1>4, SameMergeIs DEF Unpublished, SameMerge
<1>6. Count > 0 /\ merge.written \in 0 .. Count
  BY <1>2 DEF MergeIs
<1>7. merge.written = 0
  BY <1>1, <1>2 DEF DiskInv
<1>8. Written' = {} /\ merge'.written < Count'
  BY <1>1, <1>5, <1>6, <1>7 DEF Written
<1>9. DiskInv'
  BY <1>1, <1>3, <1>4, <1>5, <1>8 DEF DiskInv, Shows
<1> QED BY <1>1, <1>4, <1>6, <1>9, DiskStep DEF Merging

\* An output is one of those the journal names.
LEMMA WriteOutputKeeps ==
    ASSUME CompactionInv, status = "up", WriteOutput PROVE CompactionInv'
<1> DEFINE i == merge.written + 1
<1>1. /\ pc = "write" /\ files' = files \cup {Output(i)} /\ merge' = [merge EXCEPT !.written = i]
      /\ pc' = IF i = Len(merge.groups) THEN "publish" ELSE "write"
      /\ UNCHANGED <<journals, memory, permit, seal, doomed, todo, status, ghost, faults>>
      /\ synced' = [files |-> files', journals |-> journals']
  BY DEF WriteOutput, SyncDirectory
<1>2. Kinds /\ DiskInv /\ MergeIs
  BY <1>1 DEF CompactionInv, UpInv, MergeInv, Merging
<1>3. /\ Unpublished /\ files = Live \cup Written /\ journals = {merge.journal}
      /\ merge.written < Count
  BY <1>1, <1>2 DEF DiskInv, Shows
<1>4. SameMerge /\ Live' = Live /\ segments' = segments /\ merge'.written = i
  BY <1>1, <1>2 DEF SameMerge, Live, memory, seal, MergeIs
<1>5. Unpublished' /\ Count' = Count /\ Outs' = Outs /\ \A n \in 1 .. Count : Output(n)' = Output(n)
  BY <1>3, <1>4, SameMergeIs DEF Unpublished, SameMerge, Output
<1>6. Count \in Nat /\ merge.written \in 0 .. Count /\ i \in 1 .. Count
      /\ DOMAIN merge.groups = 1 .. Count
  BY <1>2, <1>3, PinnedIs DEF MergeIs
<1>7. Written' = Written \cup {Output(i)}
  BY <1>4, <1>5, <1>6 DEF Written
<1>8. i = Count => Written' = Outs
  BY <1>4, <1>5, <1>6 DEF Written, Outs
<1>9. /\ files' = Live' \cup Written' /\ journals' = {merge'.journal}
      /\ synced' = [files |-> files', journals |-> journals']
  BY <1>1, <1>3, <1>4, <1>7 DEF SameMerge
<1>10. /\ pc' \in {"write", "publish"}
       /\ (pc' = "write" => i < Count) /\ (pc' = "publish" => i = Count)
  BY <1>1, <1>6 DEF Count
<1>11. DiskInv'
  BY <1>4, <1>5, <1>8, <1>9, <1>10 DEF DiskInv, Shows
<1> QED BY <1>1, <1>4, <1>6, <1>10, <1>11, DiskStep DEF Merging

\* A merge that fails dooms every output the journal names, published or not.
LEMMA WriteFailsKeeps ==
    ASSUME CompactionInv, status = "up", WriteFails PROVE CompactionInv'
<1> DEFINE i == merge.written + 1
<1>1. /\ pc = "write" /\ files' \in {files, files \cup {Output(i)}}
      /\ pc' = "unlink" /\ doomed' = Orphans
      /\ UNCHANGED <<journals, synced, memory, permit, seal, merge, todo, status, ghost>>
  BY DEF WriteFails
<1>2. Kinds /\ DiskInv /\ MergeIs
  BY <1>1 DEF CompactionInv, UpInv, MergeInv, Merging
<1>3. /\ Unpublished /\ files = Live \cup Written /\ journals = {merge.journal}
      /\ merge.written < Count
      /\ "power" \in Faults => synced = [files |-> files, journals |-> journals]
  BY <1>1, <1>2 DEF DiskInv, Shows
<1>4. SameMerge /\ Live' = Live /\ segments' = segments
  BY <1>1 DEF SameMerge, Live, memory, seal
<1>5. Unpublished' /\ Count' = Count /\ Outs' = Outs
  BY <1>1, <1>3, <1>4, SameMergeIs DEF Unpublished, SameMerge
<1>6. Count \in Nat /\ merge.written \in 0 .. Count /\ i \in 1 .. Count
      /\ DOMAIN merge.groups = 1 .. Count
  BY <1>2, <1>3, PinnedIs DEF MergeIs
<1>7. Output(i) \in Outs /\ Written \subseteq Outs
  BY <1>6 DEF Written, Outs
<1>8. Live \subseteq files /\ files \subseteq Live \cup Outs
      /\ Live \subseteq files' /\ files' \subseteq Live \cup Outs
  BY <1>1, <1>3, <1>7
<1>9. Ids(files' \ Live) \subseteq merge.journal.outputs
  <2>1. \A n \in 1 .. Count : Output(n).at \in merge.first .. merge.first + Count - 1
    BY <1>2, <1>6 DEF Output, MergeIs
  <2>2. \A o \in Outs : o.at \in merge.journal.outputs
    BY <1>2, <1>6, <2>1 DEF Outs, MergeIs
  <2> QED BY <1>8, <2>2 DEF Ids
<1>10. /\ journals' = {merge'.journal} /\ doomed' = merge'.journal.outputs /\ merge' = merge
       /\ "power" \in Faults => synced'.files = files /\ synced'.journals = journals'
  BY <1>1, <1>3 DEF Orphans, Outputs
<1>11. Ids(files \ Live)' = Ids(files' \ Live)
  BY <1>4 DEF Ids
<1>12. DiskInv'
  <2>1. /\ Unpublished' /\ doomed' \subseteq merge'.journal.outputs
        /\ Live' \subseteq files' /\ files' \subseteq Live' \cup Outs'
        /\ "power" \in Faults =>
                   Live' \subseteq synced'.files /\ synced'.files \subseteq Live' \cup Outs'
    BY <1>4, <1>5, <1>8, <1>10
  <2>2. Ids(files \ Live)' \subseteq doomed'
    BY <1>9, <1>10, <1>11
  <2> QED BY <1>1, <1>10, <2>1, <2>2 DEF DiskInv
<1>13. merge'.written \in 0 .. Count
  BY <1>6, <1>10
<1> QED BY <1>1, <1>4, <1>12, <1>13, DiskStep DEF Merging

\* No live segment has the id of an output that is not published.
LEMMA LiveIsNoOutput ==
    ASSUME MergeIs, Unpublished, Restores(Live), NEW p \in Live
    PROVE  p.at \notin merge.journal.outputs
<1>1. p.at \in Nat /\ Count \in Nat /\ merge.first \in Nat
  BY PinnedIs DEF Restores, Sound, Genuine, Segment, MergeIs
<1>2. p.at < merge.first \/ merge.first + Count <= p.at
  BY LiveIsUnreplaced DEF Unreplaced, MergeIs
<1> QED BY <1>1, <1>2 DEF MergeIs

\* What a merge unlinks is not live.
LEMMA UnlinkKeeps ==
    ASSUME CompactionInv, status = "up", Unlink PROVE CompactionInv'
<1>1. /\ pc = "unlink" /\ pc' = "unlink" /\ doomed # {}
      /\ UNCHANGED <<journals, synced, memory, permit, seal, pc, merge, todo, status, ghost,
                     faults>>
  BY DEF Unlink
<1>2. Kinds /\ DiskInv /\ MergeIs /\ Restores(Live)
  BY <1>1 DEF CompactionInv, UpInv, MergeInv, Merging
<1> DEFINE Undoes ==
               /\ Unpublished /\ doomed \subseteq merge.journal.outputs
               /\ Live \subseteq files /\ files \subseteq Live \cup Outs
               /\ "power" \in Faults =>
                      Live \subseteq synced.files /\ synced.files \subseteq Live \cup Outs
           Finishes ==
               /\ Published /\ doomed \subseteq merge.journal.inputs
               /\ Live \subseteq files /\ Ids(files \ Live) \subseteq merge.journal.inputs
               /\ "power" \in Faults =>
                      /\ Live \subseteq synced.files
                      /\ Ids(synced.files \ Live) \subseteq merge.journal.inputs
<1>3. /\ journals = {merge.journal} /\ ("power" \in Faults => synced.journals = journals)
      /\ Undoes \/ Finishes
      /\ Ids(files \ Live) \subseteq doomed
  BY <1>1, <1>2 DEF DiskInv
<1>4. doomed \subseteq Nat /\ \A p \in Live : p.at \notin doomed
  <2>0. Count \in Nat /\ merge.first \in Nat /\ Pinned \subseteq Segment
    BY <1>2, PinnedIs DEF MergeIs
  <2>1. merge.journal.outputs \subseteq Nat /\ merge.journal.inputs \subseteq Nat
    BY <1>2, <2>0 DEF MergeIs, Ids, Segment
  <2>2. CASE Undoes
    BY <1>2, <2>1, <2>2, LiveIsNoOutput
  <2>3. CASE Finishes
    BY <1>2, <2>1, <2>3, LiveIsPublished DEF Ids
  <2> QED BY <1>3, <2>2, <2>3
<1>5. PICK id \in doomed : files' = {f \in files : f.at # id} /\ doomed' = doomed \ {id}
  BY <1>1, <1>4, NextDoomed DEF Unlink
<1>6. SameMerge /\ Live' = Live /\ segments' = segments /\ merge' = merge /\ synced' = synced
      /\ journals' = journals
  BY <1>1 DEF SameMerge, Live, memory, seal
<1>7. files' \subseteq files /\ (Live \subseteq files => Live \subseteq files')
      /\ Ids(files' \ Live) \subseteq Ids(files \ Live) \ {id}
  BY <1>4, <1>5 DEF Ids
<1>8. Count' = Count /\ Outs' = Outs /\ (Unpublished => Unpublished')
  BY <1>6, SameMergeIs DEF Unpublished
<1>9. Published => Published'
  BY <1>6 DEF Published, Ids
<1>10. /\ Ids(files \ Live)' = Ids(files' \ Live)
       /\ Ids(synced.files \ Live)' = Ids(synced.files \ Live)
  BY <1>6 DEF Ids
<1>11. DiskInv'
  <2>1. CASE Undoes
    BY <1>1, <1>3, <1>5, <1>6, <1>7, <1>8, <1>10, <2>1 DEF DiskInv
  <2>2. CASE Finishes
    BY <1>1, <1>3, <1>5, <1>6, <1>7, <1>9, <1>10, <2>2 DEF DiskInv
  <2> QED BY <1>3, <2>1, <2>2
<1>12. merge'.written \in 0 .. Count
  BY <1>2, <1>6 DEF MergeIs
<1> QED BY <1>1, <1>6, <1>11, <1>12, DiskStep DEF Merging

\* All that was doomed is gone: the directory holds the live segments.
LEMMA SyncUnlinksKeeps ==
    ASSUME CompactionInv, status = "up", SyncUnlinks PROVE CompactionInv'
<1>1. /\ pc = "unlink" /\ pc' = "unjournal" /\ doomed = {}
      /\ UNCHANGED <<files, journals, memory, permit, seal, merge, doomed, todo, status, ghost,
                     faults>>
      /\ synced' = [files |-> files', journals |-> journals']
  BY DEF SyncUnlinks, SyncDirectory
<1>2. Kinds /\ DiskInv /\ MergeIs
  BY <1>1 DEF CompactionInv, UpInv, MergeInv, Merging
<1>3. journals = {merge.journal} /\ (Unpublished \/ Published) /\ Live \subseteq files
      /\ Ids(files \ Live) \subseteq doomed
  BY <1>1, <1>2 DEF DiskInv
<1>4. files = Live
  BY <1>1, <1>3 DEF Ids
<1>5. SameMerge /\ Live' = Live /\ segments' = segments /\ merge' = merge
  BY <1>1 DEF SameMerge, Live, memory, seal
<1>6. Unpublished' \/ Published'
  BY <1>3, <1>5, SameMergeIs DEF Unpublished, Published, Ids
<1>7. DiskInv'
  BY <1>1, <1>3, <1>4, <1>5, <1>6 DEF DiskInv, Shows
<1>8. merge'.written \in 0 .. Count
  BY <1>2, <1>5 DEF MergeIs
<1> QED BY <1>1, <1>5, <1>7, <1>8, DiskStep DEF Merging

\* A journal that outlives its removal finds the directory as it should be.
LEMMA RemoveJournalKeeps ==
    ASSUME CompactionInv, status = "up", RemoveJournal PROVE CompactionInv'
<1>1. /\ pc = "unjournal" /\ pc' = "resync" /\ journals' = journals \ {merge.journal}
      /\ UNCHANGED <<files, synced, memory, permit, seal, merge, doomed, todo, status, ghost,
                     faults>>
  BY DEF RemoveJournal
<1>2. Kinds /\ DiskInv /\ MergeIs
  BY <1>1 DEF CompactionInv, UpInv, MergeInv, Merging
<1>3. (Unpublished \/ Published) /\ Shows(Live, {merge.journal})
  BY <1>1, <1>2 DEF DiskInv
<1>4. SameMerge /\ Live' = Live /\ segments' = segments /\ merge' = merge
  BY <1>1 DEF SameMerge, Live, memory, seal
<1>5. Unpublished' \/ Published'
  BY <1>3, <1>4, SameMergeIs DEF Unpublished, Published, Ids
<1>6. /\ files' = Live' /\ journals' = {}
      /\ "power" \in Faults => synced'.files = Live' /\ synced'.journals = {merge'.journal}
  BY <1>1, <1>3, <1>4 DEF Shows
<1>7. DiskInv'
  BY <1>1, <1>5, <1>6 DEF DiskInv
<1>8. merge'.written \in 0 .. Count
  BY <1>2, <1>4 DEF MergeIs
<1> QED BY <1>1, <1>4, <1>7, <1>8, DiskStep DEF Merging

\* A merge leaves the live segments and no journal.
LEMMA SyncRemovalKeeps ==
    ASSUME CompactionInv, status = "up", SyncRemoval PROVE CompactionInv'
<1>1. /\ pc = "resync" /\ pc' = "idle"
      /\ UNCHANGED <<files, journals, memory, permit, seal, todo, status, ghost, faults>>
      /\ synced' = [files |-> files', journals |-> journals']
  BY DEF SyncRemoval, SyncDirectory, EndMerge
<1>2. DiskInv /\ Live' = Live
  BY <1>1 DEF CompactionInv, UpInv, Live, memory, seal
<1>3. files = Live /\ journals = {}
  BY <1>1, <1>2 DEF DiskInv
<1>4. DiskInv'
  BY <1>1, <1>2, <1>3 DEF DiskInv, Shows
<1> QED BY <1>1, <1>4, DiskStep DEF Merging

----------------------------------------------------------------------------
(* Ingest and seals.                                                       *)

\* A batch is in the log and the buffer, and newer than any version retention covers.
LEMMA IngestKeeps ==
    ASSUME CompactionInv, NEW ks \in SUBSET Keys, Ingest(ks) PROVE CompactionInv'
<1> DEFINE n == Len(batches)
           row == [k \in Keys |-> IF k \in ks THEN n + 1 ELSE 0]
<1>1. /\ status = "up" /\ log' = Append(log, row) /\ buffer' = Over(buffer, row)
      /\ batches' = Append(batches, ks)
      /\ UNCHANGED <<disk, segments, nextSegment, permit, seal, upkeep, status, reached,
                     retired, faults>>
  BY DEF Ingest
<1>2. Kinds /\ LogInv /\ Restores(Live) /\ BufferInv /\ SealInv /\ ExpiryInv /\ MergeInv /\ DiskInv
  BY <1>1 DEF CompactionInv, UpInv
<1>3. /\ n \in Nat /\ row \in Row /\ batches \in Seq(SUBSET Keys) /\ batches' \in Seq(SUBSET Keys)
      /\ Len(batches') = n + 1 /\ log \in Seq(Row) /\ log' \in Seq(Row)
      /\ reached \in 0 .. n /\ retired \in 0 .. reached
  BY <1>1, <1>2 DEF Kinds, LogInv, Row
<1>4. ASSUME NEW k \in Keys
      PROVE  /\ Known(k) \in 0 .. n /\ Replayed[k] \in Nat /\ buffer[k] \in Nat
             /\ Known(k)' = IF k \in ks THEN n + 1 ELSE Known(k)
             /\ Replayed'[k] = IF k \in ks THEN n + 1 ELSE Replayed[k]
             /\ buffer'[k] = IF k \in ks THEN n + 1 ELSE buffer[k]
  <2>1. Known(k) \in 0 .. n /\ Replayed[k] \in Nat
    BY <1>2, <1>3, KnownIs, ReplayedIsNumber
  <2>2. Known(k)' = IF k \in ks THEN n + 1 ELSE Known(k)
    BY <1>1, <1>3, KnownAdmits
  <2>3. row[k] = IF k \in ks THEN n + 1 ELSE 0
    OBVIOUS
  <2>4. Replayed'[k] = IF k \in ks THEN n + 1 ELSE Replayed[k]
    <3>1. PICK l, r : l = log /\ r = row
      OBVIOUS
    <3>2. Resolve(Frames(Append(l, r)))[k] = IF r[k] # 0 THEN r[k] ELSE Resolve(Frames(l))[k]
      BY <1>3, <3>1, ReplayAppends
    <3>3. log' = Append(l, r)
      BY <1>1, <3>1
    <3>4. Replayed' = Resolve(Frames(Append(l, r)))
      BY <3>3 DEF Replayed, Frames, Resolve
    <3>5. Replayed = Resolve(Frames(l))
      BY <3>1 DEF Replayed, Frames, Resolve
    <3> QED BY <1>3, <2>3, <3>1, <3>2, <3>4, <3>5
  <2>5. buffer'[k] = IF row[k] # 0 THEN row[k] ELSE buffer[k]
    BY <1>1 DEF Over
  <2>6. buffer[k] \in Nat
    BY <1>2 DEF Kinds, Row
  <2> QED BY <1>3, <2>1, <2>2, <2>3, <2>4, <2>5, <2>6
<1> HIDE DEF row
<1>5. Kinds'
  <2>1. buffer' \in Row
    <3>1. buffer' = [k \in Keys |-> buffer'[k]]
      BY <1>1 DEF Over
    <3>2. \A k \in Keys : buffer'[k] \in Nat
      BY <1>3, <1>4
    <3> QED BY <3>1, <3>2 DEF Row
  <2> QED BY <1>1, <1>2, <1>3, <2>1 DEF Kinds, seal, upkeep
<1>6. LogInv'
  <2> SUFFICES ASSUME NEW k \in Keys
               PROVE  Replayed'[k] <= Known(k)' /\ (ReclaimOnSeal => ~Gone(Replayed[k])')
    BY <1>3 DEF LogInv
  <2>1. retired' = retired /\ ~(n + 1 <= retired)
    BY <1>1, <1>3
  <2> QED BY <1>2, <1>3, <1>4, <2>1 DEF LogInv, Gone
<1>7. Live' = Live /\ segments' = segments /\ nextSegment' = nextSegment /\ permit' = permit
      /\ sealPc' = sealPc /\ drained' = drained /\ pc' = pc /\ merge' = merge /\ doomed' = doomed
      /\ todo' = todo /\ status' = status /\ reached' = reached /\ retired' = retired
      /\ files' = files /\ journals' = journals /\ synced' = synced
  BY <1>1 DEF Live, seal, upkeep, disk
<1>8. ASSUME NEW p, Genuine(p) PROVE Genuine(p)'
  <2> SUFFICES ASSUME NEW k \in Keys
               PROVE  p.row[k] <= Known(k)' /\ (Replayed'[k] = 0 \/ p.row[k] <= Replayed'[k])
    BY <1>7, <1>8 DEF Genuine, Gone, Segment
  <2>1. p.row[k] \in Nat /\ p.row[k] <= Known(k)
        /\ (Replayed[k] = 0 \/ p.row[k] <= Replayed[k])
    BY <1>8, RowIsNumbers DEF Genuine
  <2> QED BY <1>3, <1>4, <2>1
<1>9. Restores(Live)'
  <2>1. PICK l : l = Live /\ l = Live'
    BY <1>7
  <2>2. \A p \in l : Genuine(p)'
    BY <1>2, <1>8, <2>1 DEF Restores, Sound
  <2>3. ASSUME NEW k \in Keys PROVE Holds(l, k)'
    <3>1. Holds(l, k)
      BY <1>2, <2>1 DEF Restores
    <3> QED BY <1>3, <1>4, <1>7, <3>1 DEF Holds, Due
  <2>4. Orderly(l)
    BY <1>2, <2>1 DEF Restores, Sound
  <2> QED BY <2>1, <2>2, <2>3, <2>4 DEF Restores, Sound, Orderly, Holds
<1>10. BufferInv'
  <2> SUFFICES ASSUME NEW k \in Keys
               PROVE  /\ buffer'[k] \in {0, Replayed'[k]}
                      /\ ReclaimOnSeal => buffer'[k] = Replayed'[k]
                      /\ Due(Known(k))' \/ Known(k)' = 0 \/ buffer'[k] = Known(k)'
                             \/ \E p \in segments' : p.row[k] = Known(k)'
    BY DEF BufferInv
  <2> QED BY <1>2, <1>4, <1>7 DEF BufferInv, Due
<1>11. SealInv'
  <2>1. ASSUME NEW k \in Keys, drained.row[k] \in Nat, drained.row[k] <= buffer[k], sealPc # "idle"
        PROVE  drained.row[k] <= buffer'[k]
    <3>1. drained.row[k] <= Known(k)
      BY <1>2, <2>1 DEF SealInv, Genuine
    <3> QED BY <1>3, <1>4, <2>1, <3>1
  <2>2. sealPc # "idle" => Genuine(drained) /\ \A k \in Keys : drained.row[k] \in Nat
    BY <1>2, RowIsNumbers DEF SealInv, Genuine
  <2>3. sealPc # "idle" => Genuine(drained)'
    <3>1. PICK d : d = drained /\ d = drained'
      BY <1>7
    <3> QED BY <1>8, <2>2, <3>1 DEF Genuine
  <2> QED BY <1>2, <1>7, <2>1, <2>2, <2>3 DEF SealInv
<1>12. ExpiryInv'
  <2>1. \A k \in Keys : ~Due(buffer[k]) => ~Due(buffer'[k])
    BY <1>3, <1>4 DEF Due
  <2> QED BY <1>2, <1>7, <2>1 DEF ExpiryInv, Due
<1>13. MergeInv' /\ DiskInv'
  <2>1. Count' = Count /\ Pinned' = Pinned /\ Outs' = Outs
    BY <1>7, SameMergeIs DEF SameMerge
  <2>2. MergeInv'
    BY <1>2, <1>7, <2>1 DEF MergeInv, MergeIs
  <2>3. Unpublished' = Unpublished /\ Published' = Published /\ Written' = Written
        /\ Ids(files \ Live)' = Ids(files \ Live)
        /\ Ids(synced.files \ Live)' = Ids(synced.files \ Live)
    BY <1>7, <2>1 DEF Unpublished, Published, Written, Output, Ids
  <2>4. Oldest' = Oldest /\ Survivors(Oldest)' = Survivors(Oldest)
    BY <1>7 DEF Oldest, Survivors
  <2>5. DiskInv'
    BY <1>2, <1>7, <2>1, <2>3, <2>4 DEF DiskInv, Shows
  <2> QED BY <2>2, <2>5
<1>14. UpInv'
  BY <1>9, <1>10, <1>11, <1>12, <1>13 DEF UpInv
<1> QED BY <1>1, <1>5, <1>6, <1>7, <1>14 DEF CompactionInv

\* The directory is as it should be while it, the live segments and the merge stay.
LEMMA DiskStays ==
    ASSUME DiskInv, UNCHANGED <<disk, segments, upkeep>>, Live' = Live PROVE DiskInv'
<1>1. /\ pc' = pc /\ merge' = merge /\ doomed' = doomed /\ todo' = todo /\ segments' = segments
      /\ files' = files /\ journals' = journals /\ synced' = synced
  BY DEF upkeep, disk
<1>2. Count' = Count /\ Pinned' = Pinned /\ Outs' = Outs
  BY <1>1, SameMergeIs DEF SameMerge
<1>3. Unpublished' = Unpublished /\ Published' = Published /\ Written' = Written
      /\ Ids(files \ Live)' = Ids(files \ Live)
      /\ Ids(synced.files \ Live)' = Ids(synced.files \ Live)
  BY <1>1, <1>2 DEF Unpublished, Published, Written, Output, Ids
<1>4. Oldest' = Oldest /\ Survivors(Oldest)' = Survivors(Oldest)
  BY <1>1 DEF Oldest, Survivors
<1> QED BY <1>1, <1>2, <1>3, <1>4 DEF DiskInv, Shows

\* A merge keeps its place in the ids while newer ones are claimed.
LEMMA MergeStays ==
    ASSUME MergeInv, UNCHANGED upkeep, nextSegment \in Nat, nextSegment' \in Nat,
           nextSegment <= nextSegment',
           sealPc' # "idle" => \/ sealPc # "idle" /\ drained' = drained
                               \/ nextSegment <= drained'.at /\ drained'.at \in Nat
    PROVE  MergeInv'
<1>1. pc' = pc /\ merge' = merge /\ Count' = Count /\ Pinned' = Pinned
  BY SameMergeIs DEF upkeep, SameMerge
<1> SUFFICES ASSUME pc \in Merging, MergeIs PROVE MergeIs'
  BY <1>1 DEF MergeInv
<1>2. Count \in Nat /\ merge.first \in Nat
  BY PinnedIs DEF MergeIs
<1> QED BY <1>1, <1>2 DEF MergeIs

\* A seal claims an id past every other, a running merge's included.
LEMMA DrainKeeps == ASSUME CompactionInv, Drain PROVE CompactionInv'
<1>1. /\ status = "up" /\ sealPc = "idle" /\ permit = Free /\ sealPc' = "write"
      /\ permit' = "sealer" /\ drained' = [at |-> nextSegment, row |-> buffer]
      /\ nextSegment' = nextSegment + 1
      /\ UNCHANGED <<disk, log, buffer, segments, upkeep, status, ghost, faults>>
  BY DEF Drain
<1>2. Kinds /\ LogInv /\ Restores(Live) /\ BufferInv /\ SealInv /\ ExpiryInv /\ MergeInv /\ DiskInv
  BY <1>1 DEF CompactionInv, UpInv
<1>3. nextSegment \in Nat /\ nextSegment' \in Nat /\ nextSegment <= nextSegment' /\ buffer \in Row
  BY <1>1, <1>2 DEF Kinds
<1>4. UNCHANGED ledger /\ pc' = pc /\ segments' = segments /\ buffer' = buffer /\ status' = "up"
      /\ reached' = reached /\ todo' = todo
  BY <1>1 DEF ledger, ghost, upkeep
<1>5. Live = segments /\ Live' = segments
  BY <1>1, <1>4 DEF Live
<1>6. pc \notin {"retire", "replace"}
  BY <1>1, <1>2 DEF SealInv, Free
<1>7. Kinds' /\ LogInv'
  BY <1>1, <1>2, <1>3, <1>4, LogStays DEF Kinds, ghost
<1>8. Restores(Live)'
  BY <1>2, <1>3, <1>4, <1>5, RestoresSame
<1>9. Replayed' = Replayed /\ \A k \in Keys : Known(k)' = Known(k)
  BY <1>4 DEF Replayed, Known, ledger
<1>10. BufferInv'
  BY <1>2, <1>4, <1>9 DEF BufferInv, Due
<1>11. SealInv'
  <2>1. ASSUME NEW k \in Keys
        PROVE  /\ buffer[k] \in Nat /\ buffer[k] <= Known(k)
               /\ Replayed[k] = 0 \/ buffer[k] <= Replayed[k]
               /\ ReclaimOnSeal => ~Gone(buffer[k])
               /\ buffer[k] # 0 => buffer[k] = Replayed[k]
    <3>1. buffer[k] \in {0, Replayed[k]} /\ Replayed[k] \in Nat /\ Known(k) \in Nat
          /\ Replayed[k] <= Known(k) /\ (ReclaimOnSeal => ~Gone(Replayed[k]))
      BY <1>2, ReplayedIsNumber, KnownIs DEF BufferInv, LogInv, Kinds
    <3>2. ~Gone(0)
      BY StaleAssumption DEF Gone, Expired
    <3> QED BY <3>1, <3>2
  <2>2. drained' \in Segment /\ drained'.at = nextSegment /\ drained'.row = buffer
    BY <1>1, <1>3 DEF Segment
  <2>3. Genuine(drained)'
    <3>1. \A v : Gone(v)' = Gone(v)
      BY <1>4 DEF Gone, ledger
    <3>2. Segment' = Segment
      BY DEF Segment
    <3> QED BY <1>1, <1>3, <1>4, <1>9, <2>1, <2>2, <3>1, <3>2 DEF Genuine
  <2>4. ASSUME NEW s \in segments
        PROVE  /\ s.at < drained'.at
               /\ \A k \in Keys : drained'.row[k] = 0 \/ s.row[k] <= drained'.row[k]
    <3>1. Genuine(s)
      BY <1>2, <1>5, <2>4 DEF Restores, Sound
    <3> QED BY <2>1, <2>2, <3>1 DEF Genuine
  <2>5. \A k \in Keys : drained'.row[k] <= buffer'[k]
    BY <1>4, <2>1, <2>2
  <2> QED BY <1>1, <1>4, <1>6, <2>3, <2>4, <2>5 DEF SealInv
<1>12. ExpiryInv'
  BY <1>4, <1>6 DEF ExpiryInv
<1>13. MergeInv'
  BY <1>1, <1>2, <1>3, MergeStays
<1>14. DiskInv'
  BY <1>1, <1>2, <1>5, DiskStays
<1> QED BY <1>4, <1>7, <1>8, <1>10, <1>11, <1>12, <1>13, <1>14 DEF CompactionInv, UpInv

\* A seal that fails leaves the rows in the buffer and the log.
LEMMA SealFailsKeeps == ASSUME CompactionInv, SealFails PROVE CompactionInv'
<1>1. /\ sealPc = "write" /\ sealPc' = "idle" /\ permit' = Free
      /\ UNCHANGED <<disk, memory, upkeep, status, ghost>>
  BY DEF SealFails, EndSeal
<1>2. status = "up"
  BY <1>1 DEF CompactionInv, OpenInv, Kinds
<1>3. Kinds /\ LogInv /\ Restores(Live) /\ BufferInv /\ SealInv /\ ExpiryInv /\ MergeInv /\ DiskInv
  BY <1>2 DEF CompactionInv, UpInv
<1>4. UNCHANGED ledger /\ pc' = pc /\ segments' = segments /\ buffer' = buffer /\ status' = "up"
      /\ nextSegment' = nextSegment /\ nextSegment \in Nat
  BY <1>1, <1>2, <1>3 DEF ledger, ghost, upkeep, memory, Kinds
<1>5. Live = segments /\ Live' = segments
  BY <1>1, <1>4 DEF Live
<1>6. pc \notin {"retire", "replace"}
  BY <1>1, <1>3 DEF SealInv
<1>7. Kinds' /\ LogInv'
  BY <1>1, <1>3, <1>4, LogStays DEF Kinds, ghost
<1>8. Restores(Live)'
  BY <1>3, <1>4, <1>5, RestoresSame
<1>9. Replayed' = Replayed /\ \A k \in Keys : Known(k)' = Known(k)
  BY <1>4 DEF Replayed, Known, ledger
<1>10. BufferInv'
  BY <1>3, <1>4, <1>9 DEF BufferInv, Due, ledger
<1>11. SealInv' /\ ExpiryInv'
  BY <1>1, <1>4, <1>6 DEF SealInv, ExpiryInv
<1>12. MergeInv'
  BY <1>1, <1>3, <1>4, MergeStays
<1>13. UNCHANGED <<disk, segments, upkeep>>
  BY <1>1, <1>4
<1>14. DiskInv'
  BY <1>3, <1>5, <1>13, DiskStays
<1> QED BY <1>4, <1>7, <1>8, <1>10, <1>11, <1>12, <1>14 DEF CompactionInv, UpInv

\* The drained segment is the newest, so publishing it changes no other's rank.
LEMMA DrainedRestores ==
    ASSUME SealInv, sealPc \in {"write", "publish"}, Restores(segments)
    PROVE  Restores(segments \cup {drained})
<1>1. Genuine(drained) /\ drained \in Segment /\ drained.at \in Nat
      /\ \A s \in segments : s.at < drained.at
      /\ \A t \in segments \ {drained} :
             \A k \in Keys : drained.row[k] = 0 \/ t.row[k] <= drained.row[k]
  BY DEF SealInv, Genuine, Segment
<1>2. \A s \in segments : s.at \in Nat /\ Genuine(s) /\ s # drained
  BY <1>1 DEF Restores, Sound, Genuine, Segment
<1>3. Orderly(segments \cup {drained})
  <2> SUFFICES ASSUME NEW p \in segments \cup {drained}, NEW q \in segments \cup {drained}
               PROVE  /\ p.at = q.at => p = q
                      /\ p.at < q.at => \A k \in Keys : q.row[k] = 0 \/ p.row[k] <= q.row[k]
    BY DEF Orderly
  <2>1. CASE p \in segments /\ q \in segments
    BY <2>1 DEF Restores, Sound, Orderly
  <2>2. CASE p \in segments /\ q = drained
    BY <1>1, <1>2, <2>2
  <2>3. CASE p = drained /\ q \in segments
    BY <1>1, <1>2, <2>3
  <2>4. CASE p = drained /\ q = drained
    BY <1>1, <2>4
  <2> QED BY <2>1, <2>2, <2>3, <2>4
<1>4. \A k \in Keys : Holds(segments \cup {drained}, k)
  BY DEF Restores, Holds
<1> QED BY <1>1, <1>2, <1>3, <1>4 DEF Restores, Sound

\* The segment of a seal is durable, with whatever else the directory shows.
LEMMA WriteSegmentKeeps == ASSUME CompactionInv, WriteSegment PROVE CompactionInv'
<1>1. /\ sealPc = "write" /\ sealPc' = "publish" /\ files' = files \cup {drained}
      /\ UNCHANGED <<journals, memory, permit, drained, upkeep, status, ghost, faults>>
      /\ synced' = [files |-> files', journals |-> journals']
  BY DEF WriteSegment, SyncDirectory
<1>2. status = "up"
  BY <1>1 DEF CompactionInv, OpenInv, Kinds
<1>3. Kinds /\ LogInv /\ Restores(Live) /\ BufferInv /\ SealInv /\ ExpiryInv /\ MergeInv /\ DiskInv
  BY <1>2 DEF CompactionInv, UpInv
<1>4. UNCHANGED ledger /\ pc' = pc /\ segments' = segments /\ buffer' = buffer /\ status' = "up"
      /\ nextSegment' = nextSegment /\ nextSegment \in Nat /\ merge' = merge /\ doomed' = doomed
      /\ drained' = drained /\ permit' = permit /\ journals' = journals
  BY <1>1, <1>2, <1>3 DEF ledger, ghost, upkeep, memory, Kinds
<1>5. Live = segments /\ Live' = segments \cup {drained}
  BY <1>1, <1>4 DEF Live
<1>6. pc \notin {"retire", "replace"}
  BY <1>1, <1>3 DEF SealInv
<1>7. Kinds' /\ LogInv'
  BY <1>1, <1>3, <1>4, LogStays DEF Kinds, ghost
<1>8. Restores(Live)'
  <2>1. PICK l : l = segments \cup {drained} /\ l = Live'
    BY <1>5
  <2>2. Restores(l)
    BY <1>1, <1>3, <1>5, <2>1, DrainedRestores
  <2>3. Restores(l)'
    BY <1>4, <2>2, RestoresStays
  <2> QED BY <2>1, <2>3 DEF Restores, Sound, Orderly, Holds
<1>9. Replayed' = Replayed /\ \A k \in Keys : Known(k)' = Known(k)
  BY <1>4 DEF Replayed, Known, ledger
<1>10. BufferInv'
  BY <1>3, <1>4, <1>9 DEF BufferInv, Due, ledger
<1>11. SealInv' /\ ExpiryInv'
  <2>1. Genuine(drained)'
    <3>1. Genuine(drained)
      BY <1>1, <1>3 DEF SealInv
    <3> QED BY <1>4, <1>9, <3>1 DEF Genuine, Gone, ledger, Segment
  <2> QED BY <1>1, <1>3, <1>4, <1>6, <2>1 DEF SealInv, ExpiryInv
<1>12. MergeInv'
  BY <1>1, <1>3, <1>4, MergeStays
<1>13. Count' = Count /\ Pinned' = Pinned /\ Outs' = Outs /\ Written' = Written
       /\ Unpublished' = Unpublished /\ Published' = Published
  BY <1>4, SameMergeIs DEF SameMerge, Unpublished, Published, Written, Output, Ids
<1>14. /\ synced'.files = files' /\ synced'.journals = journals
       /\ Live' = Live \cup {drained} /\ files' = files \cup {drained}
       /\ Ids(files \ Live)' \subseteq Ids(files \ Live)
       /\ Ids(synced.files \ Live)' \subseteq Ids(files \ Live)
  <2>1. synced'.files = files' /\ synced'.journals = journals
        /\ Live' = Live \cup {drained} /\ files' = files \cup {drained}
    BY <1>1, <1>4, <1>5
  <2>2. files' \ Live' \subseteq files \ Live
    BY <2>1
  <2> QED BY <2>1, <2>2 DEF Ids
<1>15. DiskInv'
  <2>1. CASE pc \in {"idle", "journal"}
    BY <1>1, <1>3, <1>4, <1>13, <1>14, <2>1 DEF DiskInv, Shows
  <2>2. CASE pc = "write"
    <3>1. /\ Unpublished /\ merge.written < Count
          /\ files = Live \cup Written /\ journals = {merge.journal}
      BY <1>3, <2>2 DEF DiskInv, Shows
    <3>2. files' = Live' \cup Written'
      BY <1>13, <1>14, <3>1
    <3> QED BY <1>1, <1>4, <1>13, <2>2, <3>1, <3>2 DEF DiskInv, Shows
  <2>3. CASE pc = "publish"
    <3>1. Unpublished /\ files = Live \cup Outs /\ journals = {merge.journal}
      BY <1>3, <2>3 DEF DiskInv, Shows
    <3>2. files' = Live' \cup Outs'
      BY <1>13, <1>14, <3>1
    <3> QED BY <1>1, <1>4, <1>13, <2>3, <3>1, <3>2 DEF DiskInv, Shows
  <2>4. CASE pc = "unlink"
    <3>1. /\ journals = {merge.journal} /\ Ids(files \ Live) \subseteq doomed
          /\ \/ /\ Unpublished /\ doomed \subseteq merge.journal.outputs
                /\ Live \subseteq files /\ files \subseteq Live \cup Outs
             \/ /\ Published /\ doomed \subseteq merge.journal.inputs
                /\ Live \subseteq files /\ Ids(files \ Live) \subseteq merge.journal.inputs
      BY <1>3, <2>4 DEF DiskInv
    <3>2. /\ Live' \subseteq files'
          /\ files \subseteq Live \cup Outs => files' \subseteq Live' \cup Outs'
      BY <1>13, <1>14, <3>1
    <3> QED BY <1>4, <1>13, <1>14, <2>4, <3>1, <3>2 DEF DiskInv
  <2>5. CASE pc \in {"unjournal", "resync"}
    BY <1>1, <1>3, <1>4, <1>13, <1>14, <2>5 DEF DiskInv, Shows
  <2> QED BY <1>3, <1>6, <2>1, <2>2, <2>3, <2>4, <2>5 DEF Kinds
<1> QED BY <1>4, <1>7, <1>8, <1>10, <1>11, <1>12, <1>15 DEF CompactionInv, UpInv

\* A seal published during a merge comes after its outputs.
LEMMA PublishSealKeeps == ASSUME CompactionInv, PublishSeal PROVE CompactionInv'
<1>1. /\ sealPc = "publish" /\ sealPc' = "reconcile" /\ segments' = segments \cup {drained}
      /\ UNCHANGED <<disk, log, buffer, nextSegment, permit, drained, upkeep, status, ghost,
                     faults>>
  BY DEF PublishSeal
<1>2. status = "up"
  BY <1>1 DEF CompactionInv, OpenInv, Kinds
<1>3. Kinds /\ LogInv /\ Restores(Live) /\ BufferInv /\ SealInv /\ ExpiryInv /\ MergeInv /\ DiskInv
  BY <1>2 DEF CompactionInv, UpInv
<1>4. UNCHANGED ledger /\ pc' = pc /\ buffer' = buffer /\ status' = "up"
      /\ nextSegment' = nextSegment /\ nextSegment \in Nat /\ merge' = merge /\ doomed' = doomed
      /\ drained' = drained /\ permit' = permit /\ journals' = journals /\ files' = files
      /\ synced' = synced
  BY <1>1, <1>2, <1>3 DEF ledger, ghost, upkeep, Kinds, disk
<1>5. Live = segments \cup {drained} /\ Live' = Live
  BY <1>1, <1>4 DEF Live
<1>6. pc \notin {"retire", "replace"} /\ Genuine(drained) /\ drained \in Segment
      /\ \A s \in segments : s.at < drained.at
  BY <1>1, <1>3 DEF SealInv, Genuine
<1>7. Kinds' /\ LogInv'
  BY <1>1, <1>3, <1>4, <1>6, LogStays DEF Kinds, ghost
<1>8. Restores(Live)'
  BY <1>3, <1>4, <1>5, RestoresSame
<1>9. Replayed' = Replayed /\ \A k \in Keys : Known(k)' = Known(k)
  BY <1>4 DEF Replayed, Known, ledger
<1>10. BufferInv'
  BY <1>1, <1>3, <1>4, <1>9 DEF BufferInv, Due, ledger
<1>11. SealInv' /\ ExpiryInv'
  <2>1. Genuine(drained)'
    BY <1>4, <1>6, <1>9 DEF Genuine, Gone, ledger, Segment
  <2> QED BY <1>1, <1>3, <1>4, <1>6, <2>1 DEF SealInv, ExpiryInv
<1>12. MergeInv'
  BY <1>1, <1>3, <1>4, MergeStays
<1>13. Count' = Count /\ Pinned' = Pinned /\ Outs' = Outs /\ Written' = Written
  BY <1>4, SameMergeIs DEF SameMerge, Written, Output
<1>14. ASSUME pc \in Merging PROVE (Unpublished => Unpublished') /\ (Published => Published')
  <2>1. MergeIs /\ merge.first + Count <= drained.at /\ drained.at \in Nat /\ merge.first \in Nat
        /\ Count \in Nat
    BY <1>1, <1>3, <1>6, <1>14, PinnedIs DEF MergeInv, MergeIs, Segment
  <2>2. drained.at \notin merge.journal.inputs
    <3>1. \A p \in Pinned : p.at \in Nat /\ p.at # drained.at
      BY <2>1, PinnedIs DEF MergeIs, Segment
    <3> QED BY <2>1, <3>1 DEF MergeIs, Ids
  <2>3. Unpublished => Unpublished'
    BY <1>1, <1>4, <1>13, <2>1 DEF Unpublished
  <2>4. Published => Published'
    BY <1>1, <1>4, <2>2 DEF Published, Ids
  <2> QED BY <2>3, <2>4
<1>15. /\ Ids(files \ Live)' = Ids(files \ Live)
       /\ Ids(synced.files \ Live)' = Ids(synced.files \ Live)
  BY <1>4, <1>5 DEF Ids
<1>16. DiskInv'
  BY <1>3, <1>4, <1>5, <1>6, <1>13, <1>14, <1>15 DEF DiskInv, Shows, Merging
<1> QED BY <1>4, <1>7, <1>8, <1>10, <1>11, <1>12, <1>16 DEF CompactionInv, UpInv

\* What leaves the buffer and the log is in the segment just published.
LEMMA ReconcileKeeps == ASSUME CompactionInv, Reconcile PROVE CompactionInv'
<1>1. /\ sealPc = "reconcile" /\ sealPc' = "idle" /\ permit' = Free
      /\ buffer' = [k \in Keys |-> IF buffer[k] = drained.row[k] THEN 0 ELSE buffer[k]]
      /\ \/ log' = Logged(buffer')
         \/ ~ReclaimOnSeal /\ log' = log
      /\ UNCHANGED <<disk, segments, nextSegment, upkeep, status, ghost, faults>>
  BY DEF Reconcile, EndSeal
<1>2. status = "up"
  BY <1>1 DEF CompactionInv, OpenInv, Kinds
<1>3. Kinds /\ LogInv /\ Restores(Live) /\ BufferInv /\ SealInv /\ ExpiryInv /\ MergeInv /\ DiskInv
  BY <1>2 DEF CompactionInv, UpInv
<1>4. pc' = pc /\ status' = "up" /\ segments' = segments
      /\ nextSegment' = nextSegment /\ nextSegment \in Nat /\ batches' = batches
      /\ reached' = reached /\ retired' = retired
  BY <1>1, <1>2, <1>3 DEF ghost, upkeep, Kinds
<1>5. drained \in segments /\ pc \notin {"retire", "replace"} /\ Live = segments /\ Live' = segments
  BY <1>1, <1>3, <1>4 DEF Live, SealInv
<1>6. \A k \in Keys : Known(k)' = Known(k)
  BY <1>4 DEF Known
<1>7. ASSUME NEW k \in Keys
      PROVE  /\ Replayed[k] \in Nat /\ Known(k) \in Nat /\ buffer[k] \in {0, Replayed[k]}
             /\ buffer'[k] \in {0, Replayed[k]} /\ buffer'[k] \in {0, buffer[k]}
             /\ buffer'[k] # buffer[k] => buffer[k] = drained.row[k]
  BY <1>1, <1>3, ReplayedIsNumber, KnownIs DEF BufferInv, Kinds
<1>8. buffer' \in Row
  <2>1. buffer' = [k \in Keys |-> buffer'[k]]
    BY <1>1
  <2> QED BY <1>7, <2>1 DEF Row
<1>9. Kinds'
  BY <1>1, <1>3, <1>4, <1>8 DEF Kinds
<1>10. /\ log' \in Seq(Row)
       /\ \A k \in Keys : /\ Replayed'[k] \in {Replayed[k], buffer'[k]}
                          /\ ReclaimOnSeal => Replayed'[k] = buffer'[k]
                          /\ buffer'[k] \in {0, Replayed'[k]}
  <2>1. CASE log' = log /\ ~ReclaimOnSeal
    <3>1. Replayed' = Replayed
      BY <2>1 DEF Replayed
    <3> QED BY <1>3, <1>7, <2>1, <3>1 DEF LogInv
  <2>2. CASE log' = Logged(buffer')
    <3>1. PICK row \in Row : row = buffer'
      BY <1>8
    <3>2. log' = Logged(row)
      BY <2>2, <3>1
    <3>3. Logged(row) \in Seq(Row) /\ \A k \in Keys : Resolve(Frames(Logged(row)))[k] = row[k]
      <4>1. \A k \in Keys : Logged(row) \in Seq(Row) /\ Resolve(Frames(Logged(row)))[k] = row[k]
        BY ReplayOfOne
      <4>2. Logged(row) \in Seq(Row)
        <5>1. <<>> \in Seq(Row) /\ <<row>> \in Seq(Row)
          OBVIOUS
        <5> QED BY <5>1 DEF Logged
      <4> QED BY <4>1, <4>2
    <3>4. Replayed' = Resolve(Frames(Logged(row)))
      BY <3>2 DEF Replayed, Frames, Resolve
    <3> QED BY <3>1, <3>2, <3>3, <3>4
  <2> QED BY <1>1, <2>1, <2>2
<1>11. LogInv'
  <2> SUFFICES ASSUME NEW k \in Keys
               PROVE  Replayed'[k] <= Known(k)' /\ (ReclaimOnSeal => ~Gone(Replayed[k])')
    BY <1>10 DEF LogInv
  <2>1. Replayed[k] <= Known(k) /\ (ReclaimOnSeal => ~Gone(Replayed[k])) /\ ~Gone(0)
    BY <1>3, StaleAssumption DEF LogInv, Gone, Expired
  <2> QED BY <1>4, <1>6, <1>7, <1>10, <2>1 DEF Gone
\* Where the log has let a key go, the segment just published has it.
<1>12. ASSUME NEW k \in Keys
       PROVE  Due(Known(k)) \/ Known(k) = 0 \/ buffer'[k] = Known(k)
                  \/ \E p \in segments : p.row[k] = Known(k)
  BY <1>3, <1>5, <1>7 DEF BufferInv
<1>13. Restores(Live)'
  <2>1. PICK l : l = segments /\ l = Live'
    BY <1>5
  <2>2. Restores(l)
    BY <1>3, <1>5, <2>1
  <2>3. ASSUME NEW p \in l PROVE Genuine(p)'
    <3>1. Genuine(p) /\ p \in Segment
      BY <2>2 DEF Restores, Sound, Genuine
    <3>2. ASSUME NEW k \in Keys PROVE Replayed'[k] = 0 \/ p.row[k] <= Replayed'[k]
      BY <1>7, <1>10, <3>1 DEF Genuine
    <3> QED BY <1>4, <1>6, <3>1, <3>2 DEF Genuine, Gone, Segment
  <2>4. ASSUME NEW k \in Keys PROVE Holds(l, k)'
    <3>1. CASE buffer'[k] = Known(k) /\ Known(k) # 0
      BY <1>6, <1>7, <1>10, <3>1 DEF Holds
    <3> QED BY <1>4, <1>6, <1>12, <2>1, <3>1 DEF Holds, Due
  <2> QED BY <2>1, <2>2, <2>3, <2>4 DEF Restores, Sound, Orderly, Holds
<1>14. BufferInv'
  BY <1>4, <1>6, <1>10, <1>12 DEF BufferInv, Due
<1>15. SealInv' /\ ExpiryInv'
  BY <1>1, <1>4, <1>5 DEF SealInv, ExpiryInv
<1>16. MergeInv'
  BY <1>1, <1>3, <1>4, MergeStays
<1>17. DiskInv'
  BY <1>1, <1>3, <1>5, DiskStays
<1> QED BY <1>4, <1>9, <1>11, <1>13, <1>14, <1>15, <1>16, <1>17 DEF CompactionInv, UpInv

----------------------------------------------------------------------------
(* The live list and a merge.                                              *)

\* The outputs take the place of the run.
LEMMA PublishMergeKeeps ==
    ASSUME CompactionInv, status = "up", PublishMerge PROVE CompactionInv'
<1>1. /\ pc = "publish" /\ pc' = "unlink" /\ doomed' = merge.journal.inputs
      /\ segments' = (segments \ Pinned) \cup Outs
      /\ UNCHANGED <<disk, log, buffer, nextSegment, permit, seal, merge, todo, status, ghost,
                     faults>>
  BY DEF PublishMerge, Outs
<1>2. Kinds /\ LogInv /\ Restores(Live) /\ BufferInv /\ SealInv /\ MergeIs /\ DiskInv
  BY <1>1 DEF CompactionInv, UpInv, MergeInv, Merging
<1>3. UNCHANGED ledger /\ buffer' = buffer /\ status' = "up" /\ nextSegment' = nextSegment
      /\ nextSegment \in Nat /\ merge' = merge /\ sealPc' = sealPc /\ drained' = drained
      /\ permit' = permit /\ journals' = journals /\ files' = files /\ synced' = synced
  BY <1>1, <1>2 DEF ledger, ghost, seal, disk, Kinds
<1>4. /\ Unpublished /\ files = Live \cup Outs /\ journals = {merge.journal}
      /\ "power" \in Faults => synced = [files |-> files, journals |-> journals]
  BY <1>1, <1>2 DEF DiskInv, Shows
<1>5. /\ Count \in Nat \ {0} /\ merge.first \in Nat /\ DOMAIN merge.groups = 1 .. Count
      /\ Pinned \subseteq Segment /\ Pinned \subseteq segments
      /\ \A p \in Pinned : p.at \in Nat /\ p.at < merge.first
  BY <1>2, <1>4, PinnedIs DEF MergeIs, Unpublished, Segment
<1>6. sealPc # "idle" => /\ merge.first + Count <= drained.at /\ drained.at \in Nat
                         /\ drained \notin Pinned
  <2>1. sealPc # "idle" => merge.first + Count <= drained.at /\ drained \in Segment
    BY <1>2 DEF MergeIs, SealInv, Genuine
  <2> QED BY <1>5, <2>1 DEF Segment
<1>7. Live' = (Live \ Pinned) \cup Outs /\ segments \subseteq Live
  <2>1. sealPc = "publish" => drained \notin Pinned
    BY <1>6
  <2> QED BY <1>1, <1>3, <2>1 DEF Live
<1>8. Unreplaced(Live)
  BY <1>2, <1>4, LiveIsUnreplaced
<1>9. Restores(Live)'
  <2>1. PICK l : l = (Live \ Pinned) \cup Outs
    OBVIOUS
  <2>2. Restores(l)
    BY <1>2, <1>8, <2>1, MergeRestores
  <2>3. Restores(l)'
    BY <1>3, <2>2, RestoresStays
  <2> QED BY <1>7, <2>1, <2>3 DEF Restores, Sound, Orderly, Holds
<1>10. ASSUME NEW i \in 1 .. Count
       PROVE  /\ Output(i).at = merge.first + i - 1 /\ Output(i) \in Segment
              /\ \A k \in Keys :
                     /\ Output(i).row[k] \in Nat /\ Output(i).row[k] <= Known(k)
                     /\ \A p \in merge.groups[i] : p.row[k] <= Output(i).row[k]
                     /\ Output(i).row[k] = 0
                            \/ \E p \in merge.groups[i] : p.row[k] = Output(i).row[k]
  <2>1. PICK l : l = Live
    OBVIOUS
  <2>2. Restores(l) /\ Pinned \subseteq l
    BY <1>2, <1>5, <1>7, <2>1
  <2>3. Genuine(Output(i)) /\ Output(i) \in Segment
    BY <1>2, <2>2, OutputIs DEF Genuine
  <2> QED BY <1>2, <2>2, <2>3, OutputIs, RowIsNumbers DEF Genuine
<1>11. segments' \subseteq Segment /\ \A o \in Outs : \E i \in 1 .. Count : o = Output(i)
  BY <1>1, <1>2, <1>5, <1>10 DEF Kinds, Outs
<1>12. Kinds'
  BY <1>1, <1>2, <1>3, <1>11 DEF Kinds, ghost
<1>13. LogInv'
  BY <1>2, <1>3, LogStays
<1>14. Replayed' = Replayed /\ \A k \in Keys : Known(k)' = Known(k)
  BY <1>3 DEF Replayed, Known, ledger
<1>15. BufferInv'
  <2> SUFFICES ASSUME NEW k \in Keys, NEW p \in segments, p.row[k] = Known(k)
               PROVE  \E q \in segments' : q.row[k] = Known(k)
    BY <1>2, <1>3, <1>14 DEF BufferInv, Due, ledger
  <2>1. CASE p \notin Pinned
    BY <1>1, <2>1
  <2>2. CASE p \in Pinned
    <3>1. PICK i \in 1 .. Count : p \in merge.groups[i]
      BY <1>2, <2>2, PinnedIs
    <3>2. Output(i).row[k] = Known(k)
      <4>1. Known(k) \in Nat
        BY <1>2, KnownIs DEF Kinds
      <4>2. Known(k) <= Output(i).row[k] /\ Output(i).row[k] <= Known(k) /\ Output(i).row[k] \in Nat
        BY <1>10, <3>1
      <4> QED BY <4>1, <4>2
    <3>3. Output(i) \in segments'
      BY <1>1, <1>5 DEF Outs
    <3> QED BY <3>2, <3>3
  <2> QED BY <2>1, <2>2
<1>16. SealInv'
  <2>1. CASE sealPc = "idle"
    BY <1>1, <1>2, <1>3, <2>1 DEF SealInv
  <2>2. CASE sealPc # "idle"
    <3>1. Genuine(drained)'
      BY <1>2, <1>3, <1>14, <2>2 DEF SealInv, Genuine, Gone, ledger, Segment
    <3>2. ASSUME NEW s \in segments' \ {drained}
          PROVE  /\ s.at < drained.at
                 /\ \A k \in Keys : drained.row[k] = 0 \/ s.row[k] <= drained.row[k]
      <4>1. CASE s \in segments
        BY <1>2, <2>2, <3>2, <4>1 DEF SealInv
      <4>2. CASE s \in Outs
        <5>1. PICK i \in 1 .. Count : s = Output(i)
          BY <1>11, <4>2
        <5>2. s.at < drained.at
          BY <1>5, <1>6, <1>10, <2>2, <5>1
        <5>3. ASSUME NEW k \in Keys, drained.row[k] # 0 PROVE s.row[k] <= drained.row[k]
          <6>1. drained.row[k] \in Nat
            BY <1>2, <2>2, RowIsNumbers DEF SealInv, Genuine
          <6>2. CASE s.row[k] = 0
            BY <6>1, <6>2
          <6>3. CASE s.row[k] # 0
            <7>1. PICK p \in merge.groups[i] : p.row[k] = s.row[k]
              BY <1>10, <5>1, <6>3
            <7>2. p \in segments \ {drained}
              BY <1>2, <1>5, <1>6, <2>2, PinnedIs
            <7> QED BY <1>2, <2>2, <5>3, <7>1, <7>2 DEF SealInv
          <6> QED BY <6>2, <6>3
        <5> QED BY <5>2, <5>3
      <4> QED BY <1>1, <3>2, <4>1, <4>2
    <3>3. sealPc \in {"write", "publish"} => \A s \in segments' : s.at < drained.at
      <4> SUFFICES ASSUME sealPc \in {"write", "publish"}, NEW s \in segments'
                   PROVE  s.at < drained.at
        OBVIOUS
      <4>1. CASE s \in segments
        BY <1>2, <4>1 DEF SealInv
      <4>2. CASE s \notin segments
        <5>1. PICK i \in 1 .. Count : s = Output(i)
          BY <1>1, <1>11, <4>2
        <5> QED BY <1>5, <1>6, <1>10, <2>2, <5>1
      <4> QED BY <4>1, <4>2
    <3>4. sealPc = "reconcile" => drained \in segments'
      BY <1>1, <1>2, <1>6 DEF SealInv
    <3> QED BY <1>1, <1>2, <1>3, <2>2, <3>1, <3>2, <3>3, <3>4 DEF SealInv
  <2> QED BY <2>1, <2>2
<1>17. ExpiryInv'
  BY <1>1 DEF ExpiryInv
<1>18. SameMerge /\ Count' = Count /\ Pinned' = Pinned /\ Outs' = Outs
  BY <1>3, SameMergeIs DEF SameMerge
<1>19. MergeInv'
  BY <1>2, <1>3, <1>18 DEF MergeInv, MergeIs
<1>20. Published'
  <2>1. merge.journal.outputs \subseteq Ids(segments')
    <3> SUFFICES ASSUME NEW n \in merge.first .. merge.first + Count - 1 PROVE n \in Ids(segments')
      BY <1>2 DEF MergeIs
    <3>1. n - merge.first + 1 \in 1 .. Count
      BY <1>5
    <3>2. PICK i \in 1 .. Count : i = n - merge.first + 1
      BY <3>1
    <3>3. Output(i).at = n /\ Output(i) \in segments'
      BY <1>1, <1>5, <1>10, <3>2 DEF Outs
    <3> QED BY <3>3 DEF Ids
  <2>2. ASSUME NEW s \in segments', NEW p \in Pinned PROVE s.at # p.at
    <3>1. CASE s \in segments \ Pinned
      BY <1>2, <1>5, <1>7, <3>1 DEF Restores, Sound, Orderly
    <3>2. CASE s \in Outs
      BY <1>5, <1>10, <1>11, <3>2
    <3> QED BY <1>1, <3>1, <3>2
  <2>3. Ids(segments') \cap merge.journal.inputs = {}
    BY <1>2, <2>2 DEF MergeIs, Ids
  <2> QED BY <1>3, <2>1, <2>3 DEF Published, Ids
<1>21. /\ Live' \subseteq files /\ files \ Live' \subseteq Pinned
       /\ Ids(files \ Live)' \subseteq merge.journal.inputs
       /\ ("power" \in Faults => synced'.files = files /\ synced'.journals = journals)
  <2>1. Live' \subseteq files /\ files \ Live' \subseteq Pinned
    BY <1>4, <1>7
  <2>2. Ids(files \ Live)' \subseteq merge.journal.inputs
    BY <1>2, <1>3, <2>1 DEF MergeIs, Ids
  <2> QED BY <1>3, <1>4, <2>1, <2>2
<1>22. DiskInv'
  <2>1. "power" \in Faults => Ids(synced.files \ Live)' = Ids(files \ Live)'
    BY <1>3, <1>21 DEF Ids
  <2>2. Published' /\ doomed' = merge'.journal.inputs /\ journals' = {merge'.journal}
        /\ files' = files /\ merge' = merge /\ pc' = "unlink"
    BY <1>1, <1>3, <1>4, <1>20
  <2> QED BY <1>4, <1>21, <2>1, <2>2 DEF DiskInv
<1> QED BY <1>3, <1>9, <1>12, <1>13, <1>15, <1>16, <1>17, <1>19, <1>22 DEF CompactionInv, UpInv

----------------------------------------------------------------------------
(* The run a merge takes.                                                  *)

\* Segments with ids of their own below a bound are finitely many.
LEMMA PartsAreFinite ==
    ASSUME NEW parts \in SUBSET Segment, Orderly(parts), NEW n \in Nat, \A p \in parts : p.at <= n
    PROVE  IsFiniteSet(parts)
<1> DEFINE f == [p \in parts |-> p.at]
<1>1. f \in [parts -> 0 .. n]
  BY DEF Segment
<1>2. \A p, q \in parts : f[p] = f[q] => p = q
  BY DEF Orderly
<1>3. f \in Injection(parts, 0 .. n)
  BY <1>1, <1>2 DEF Injection, IsInjective
<1>4. IsFiniteSet(0 .. n)
  BY FS_Interval
<1> HIDE DEF f
<1> QED BY <1>3, <1>4, FS_Injection

\* A set of segments grouped by where it is cut: the groups are the set, and come in
\* the order of the ids.
LEMMA GroupsPartition ==
    ASSUME NEW run \in SUBSET Segment, IsFiniteSet(run), run # {}
    PROVE  /\ Groups(run) \in Seq(SUBSET Segment) /\ Len(Groups(run)) \in Nat \ {0}
           /\ run = UNION {Groups(run)[i] : i \in DOMAIN Groups(run)}
           /\ \A i, j \in DOMAIN Groups(run) :
                  i < j => \A p \in Groups(run)[i], q \in Groups(run)[j] : p.at < q.at
<1> DEFINE n == Cardinality(run)
           starts == MergeChunks(BytesOf(Listed(run)))
           Upto(s) == {i \in starts : i <= Position(s, run)}
           GroupOf(s) == Cardinality(Upto(s))
           m == Cardinality(starts)
<1>1. n \in Nat \ {0}
  BY FS_CardinalityType, FS_EmptySet
<1>2. DOMAIN BytesOf(Listed(run)) = 1 .. n
  BY DEF BytesOf, Listed
<1>3. starts \subseteq 1 .. n /\ 1 \in starts
  BY <1>1, <1>2 DEF MergeChunks
<1> HIDE DEF starts
<1>4. IsFiniteSet(starts)
  <2>1. IsFiniteSet(1 .. n)
    BY <1>1, FS_Interval
  <2> QED BY <1>3, <2>1, FS_Subset
<1>5. m \in Nat \ {0}
  BY <1>3, <1>4, FS_CardinalityType, FS_EmptySet
<1>6. ASSUME NEW s \in run PROVE Position(s, run) \in Nat \ {0}
  <2> DEFINE before == {t \in run : t.at <= s.at}
  <2>1. s \in before
    BY DEF Segment
  <2>2. IsFiniteSet(before)
    BY FS_Subset
  <2>3. Cardinality(before) \in Nat /\ Cardinality(before) # 0
    <3> HIDE DEF before
    <3> QED BY <2>1, <2>2, FS_CardinalityType, FS_EmptySet
  <2> QED BY <2>3 DEF Position
<1>7. ASSUME NEW s \in run PROVE GroupOf(s) \in 1 .. m
  <2>1. Upto(s) \in SUBSET starts
    OBVIOUS
  <2>2. 1 \in Upto(s)
    BY <1>3, <1>6
  <2> HIDE DEF Upto
  <2>3. IsFiniteSet(Upto(s)) /\ Cardinality(Upto(s)) <= m
    BY <1>4, <2>1, FS_Subset
  <2>4. Cardinality(Upto(s)) \in Nat /\ Cardinality(Upto(s)) # 0
    BY <2>2, <2>3, FS_CardinalityType, FS_EmptySet
  <2> QED BY <1>5, <2>3, <2>4
<1>8. ASSUME NEW p \in run, NEW q \in run, q.at <= p.at PROVE GroupOf(q) <= GroupOf(p)
  <2> DEFINE before(s) == {t \in run : t.at <= s.at}
  <2>1. before(q) \in SUBSET before(p)
    BY <1>8 DEF Segment
  <2>2. IsFiniteSet(before(p))
    BY FS_Subset
  <2>3. Position(q, run) = Cardinality(before(q)) /\ Position(p, run) = Cardinality(before(p))
    BY DEF Position
  <2>4. Position(q, run) <= Position(p, run)
    <3> HIDE DEF before
    <3> QED BY <2>1, <2>2, <2>3, FS_Subset
  <2>5. Upto(q) \in SUBSET Upto(p)
    <3>1. Position(p, run) \in Nat /\ Position(q, run) \in Nat
      BY <1>6
    <3>2. ASSUME NEW i \in starts, i <= Position(q, run) PROVE i <= Position(p, run)
      <4>1. i \in Nat
        BY <1>1, <1>3
      <4> QED BY <2>4, <3>1, <3>2, <4>1
    <3> QED BY <3>2
  <2>6. IsFiniteSet(Upto(p))
    <3>1. Upto(p) \in SUBSET starts
      OBVIOUS
    <3> QED BY <1>4, <3>1, FS_Subset
  <2> HIDE DEF Upto
  <2> QED BY <2>5, <2>6, FS_Subset
<1> DEFINE g == Groups(run)
<1>9. g = [i \in 1 .. m |-> {s \in run : GroupOf(s) = i}]
  BY DEF Groups, starts
<1> HIDE DEF g, GroupOf, m
<1>10. g \in [1 .. m -> SUBSET Segment] /\ DOMAIN g = 1 .. m
  BY <1>9
<1>11. g \in Seq(SUBSET Segment) /\ Len(g) = m
  BY <1>5, <1>10
<1>12. run = UNION {g[i] : i \in DOMAIN g}
  <2>1. \A s \in run : s \in g[GroupOf(s)]
    BY <1>7, <1>9
  <2>2. \A i \in 1 .. m : g[i] \subseteq run
    BY <1>9
  <2> QED BY <1>7, <1>10, <2>1, <2>2
<1>13. ASSUME NEW i \in 1 .. m, NEW j \in 1 .. m, i < j, NEW p \in g[i], NEW q \in g[j]
       PROVE  p.at < q.at
  <2>1. p \in run /\ q \in run /\ GroupOf(p) = i /\ GroupOf(q) = j
    BY <1>9, <1>13
  <2>2. p.at \in Nat /\ q.at \in Nat
    BY <2>1 DEF Segment
  <2>3. ~(q.at <= p.at)
    BY <1>5, <1>8, <1>13, <2>1
  <2> QED BY <2>2, <2>3
<1> QED BY <1>5, <1>10, <1>11, <1>12, <1>13 DEF g

\* The last segments are a set of their own, and later than the others.
LEMMA LastSegmentsAre ==
    ASSUME segments \in SUBSET Segment, Orderly(segments), IsFiniteSet(segments), segments # {},
           NEW n \in Nat \ {0}, NEW bound \in Nat, \A s \in segments : s.at <= bound
    PROVE  /\ LastSegments(n) \subseteq segments /\ LastSegments(n) # {}
           /\ \A s \in segments \ LastSegments(n), p \in LastSegments(n) : s.at < p.at
<1> DEFINE after(s) == {t \in segments : s.at <= t.at}
<1>1. \A s \in segments : IsFiniteSet(after(s))
  BY FS_Subset
<1>2. \A s \in segments : s.at \in Nat
  BY DEF Segment
<1>3. LastSegments(n) = {s \in segments : Cardinality(after(s)) <= n}
  BY DEF LastSegments
<1>4. LastSegments(n) # {}
  <2>1. Ids(segments) \in SUBSET Nat /\ Ids(segments) # {} /\ \A i \in Ids(segments) : i <= bound
    BY <1>2 DEF Ids
  <2>2. PICK i \in Ids(segments) : \A e \in Ids(segments) : e <= i
    BY <2>1, HasGreatest
  <2>3. PICK s \in segments : \A t \in segments : t.at <= s.at
    BY <2>2 DEF Ids
  <2>4. after(s) = {s}
    BY <1>2, <2>3 DEF Orderly
  <2>5. Cardinality(after(s)) = 1
    BY <2>4, FS_Singleton
  <2> QED BY <1>3, <2>5
<1>5. ASSUME NEW s \in segments \ LastSegments(n), NEW p \in LastSegments(n) PROVE s.at < p.at
  <2>1. CASE p.at <= s.at
    <3>1. after(s) \in SUBSET after(p) /\ p \in segments
      BY <1>2, <1>3, <2>1
    <3>2. Cardinality(after(s)) <= Cardinality(after(p)) /\ Cardinality(after(p)) \in Nat
          /\ Cardinality(after(s)) \in Nat
      <4>1. IsFiniteSet(after(p)) /\ IsFiniteSet(after(s))
        BY <1>1, <3>1
      <4> HIDE DEF after
      <4> QED BY <3>1, <4>1, FS_Subset, FS_CardinalityType
    <3>3. Cardinality(after(p)) <= n /\ ~(Cardinality(after(s)) <= n)
      BY <1>3
    <3> QED BY <3>2, <3>3
  <2>2. p \in segments
    BY <1>3
  <2> QED BY <1>2, <2>1, <2>2
<1> QED BY <1>3, <1>4, <1>5

\* The run is the last segments, and its outputs get the next ids.
LEMMA PinRunKeeps == ASSUME CompactionInv, NEW n, PinRun(n) PROVE CompactionInv'
<1> DEFINE run == LastSegments(n)
           groups == Groups(run)
           pinned == UNION {groups[i] : i \in DOMAIN groups}
           last == nextSegment + Len(groups)
<1>1. /\ status = "up" /\ pc = "idle" /\ permit = Free /\ n \in Selected
      /\ nextSegment' = last /\ pc' = "journal"
      /\ merge' = [groups |-> groups, first |-> nextSegment, written |-> 0,
                   journal |-> [inputs |-> Ids(pinned), outputs |-> nextSegment .. last - 1]]
      /\ UNCHANGED <<disk, log, buffer, segments, permit, seal, doomed, todo, status, ghost,
                     faults>>
  BY DEF PinRun, SealOutstanding
<1>2. Kinds /\ LogInv /\ Restores(Live) /\ BufferInv /\ SealInv /\ DiskInv
  BY <1>1 DEF CompactionInv, UpInv
<1>3. UNCHANGED ledger /\ buffer' = buffer /\ status' = "up" /\ segments' = segments
      /\ nextSegment \in Nat /\ sealPc' = sealPc /\ drained' = drained
      /\ permit' = permit /\ journals' = journals /\ files' = files /\ synced' = synced
  BY <1>1, <1>2 DEF ledger, ghost, seal, disk, Kinds
<1>4. sealPc = "idle" /\ Live = segments /\ Live' = segments
  <2>1. sealPc = "idle"
    BY <1>1, <1>2 DEF SealInv, Free
  <2> QED BY <1>3, <2>1 DEF Live
<1>5. /\ segments \in SUBSET Segment /\ Orderly(segments)
      /\ \A s \in segments : s.at \in Nat /\ s.at < nextSegment /\ s.at <= nextSegment
  BY <1>2, <1>3, <1>4 DEF Restores, Sound, Genuine, Segment
<1>6. IsFiniteSet(segments)
  <2>1. PICK parts, bound : parts = segments /\ bound = nextSegment
    OBVIOUS
  <2> QED BY <1>3, <1>5, <2>1, PartsAreFinite
<1>7. n \in Nat \ {0} /\ segments # {}
  <2>1. Cardinality(segments) \in Nat /\ (Cardinality(segments) = 0 <=> segments = {})
    BY <1>6, FS_CardinalityType, FS_EmptySet
  <2>2. Len(Listed(segments)) = Cardinality(segments)
    BY <2>1 DEF Listed
  <2>3. n \in 1 .. Len(Listed(segments))
    BY <1>1 DEF Selected
  <2> QED BY <2>1, <2>2, <2>3
<1>8. /\ run \subseteq segments /\ run # {}
      /\ \A s \in segments \ run, p \in run : s.at < p.at
  BY <1>3, <1>5, <1>6, <1>7, LastSegmentsAre
<1>9. /\ groups \in Seq(SUBSET Segment) /\ Len(groups) \in Nat \ {0} /\ run = pinned
      /\ \A i, j \in DOMAIN groups :
             i < j => \A p \in groups[i], q \in groups[j] : p.at < q.at
  <2>1. run \in SUBSET Segment /\ IsFiniteSet(run)
    BY <1>5, <1>6, <1>8, FS_Subset
  <2>2. PICK r : r = run
    OBVIOUS
  <2> QED BY <1>8, <2>1, <2>2, GroupsPartition
<1> HIDE DEF run, groups, last
<1>10. /\ merge'.groups = groups /\ merge'.first = nextSegment /\ merge'.written = 0
       /\ merge'.journal = [inputs |-> Ids(pinned), outputs |-> nextSegment .. last - 1]
       /\ Count' = Len(groups) /\ Pinned' = pinned
  BY <1>1 DEF Count, Pinned
<1>11. last \in Nat /\ nextSegment < last /\ last = nextSegment + Len(groups)
  BY <1>3, <1>9 DEF last
<1>12. Kinds' /\ LogInv'
  BY <1>1, <1>2, <1>3, <1>11, LogStays DEF Kinds, ghost
<1>13. Restores(Live)'
  BY <1>1, <1>2, <1>3, <1>4, <1>11, RestoresSame
<1>14. Replayed' = Replayed /\ \A k \in Keys : Known(k)' = Known(k)
  BY <1>3 DEF Replayed, Known, ledger
<1>15. BufferInv'
  BY <1>2, <1>3, <1>14 DEF BufferInv, Due, ledger
<1>16. SealInv' /\ ExpiryInv'
  BY <1>1, <1>3, <1>4 DEF SealInv, ExpiryInv
<1>17. MergeIs'
  <2>1. /\ merge'.groups \in Seq(SUBSET Segment) /\ merge'.first \in Nat
        /\ merge'.written \in 0 .. Count' /\ Count' > 0
        /\ merge'.first + Count' <= nextSegment'
    BY <1>1, <1>3, <1>9, <1>10, <1>11
  <2>2. merge'.journal = [inputs |-> Ids(Pinned'),
                          outputs |-> merge'.first .. merge'.first + Count' - 1]
    <3>1. Ids(Pinned') = Ids(pinned)
      BY <1>10
    <3>2. merge'.first + Count' - 1 = last - 1
      <4>1. merge'.first = nextSegment /\ Count' = Len(groups)
        BY <1>10
      <4>2. nextSegment \in Nat /\ Len(groups) \in Nat
        BY <1>3, <1>9
      <4> QED BY <1>11, <4>1, <4>2
    <3> QED BY <1>10, <3>1, <3>2
  <2>3. \A p \in Pinned' : p.at < merge'.first
    BY <1>5, <1>8, <1>9, <1>10
  <2>4. Segment' = Segment /\ Ids(Pinned)' = Ids(Pinned')
    BY DEF Segment, Ids
  <2> QED BY <1>3, <1>4, <1>9, <1>10, <2>1, <2>2, <2>3, <2>4 DEF MergeIs
<1>18. Unpublished'
  BY <1>3, <1>5, <1>8, <1>9, <1>10 DEF Unpublished
<1>19. DiskInv'
  <2>1. Shows(Live, {})
    BY <1>1, <1>2 DEF DiskInv
  <2> QED BY <1>1, <1>3, <1>4, <1>10, <1>18, <2>1 DEF DiskInv, Shows
<1> QED BY <1>1, <1>3, <1>12, <1>13, <1>15, <1>16, <1>17, <1>19
        DEF CompactionInv, UpInv, MergeInv

----------------------------------------------------------------------------
(* Retention.                                                              *)

\* What a pass takes from the log and the buffer is due, or newer in a segment.
LEMMA BeginExpiryKeeps == ASSUME CompactionInv, BeginExpiry PROVE CompactionInv'
<1>1. /\ status = "up" /\ pc = "idle" /\ permit = Free /\ permit' = "expiry" /\ pc' = "retire"
      /\ log' = LogAfterExpiry /\ buffer' = Kept(buffer)
      /\ todo' = {s \in segments : Kept(s.row) # s.row}
      /\ reached' = Len(batches)
      /\ UNCHANGED <<disk, segments, nextSegment, seal, merge, doomed, status, batches,
                     retired, faults>>
  BY DEF BeginExpiry
<1>2. Kinds /\ LogInv /\ Restores(Live) /\ BufferInv /\ SealInv /\ DiskInv
  BY <1>1 DEF CompactionInv, UpInv
<1>3. sealPc = "idle" /\ sealPc' = "idle" /\ Live = segments /\ Live' = segments /\ status' = "up"
      /\ segments' = segments /\ nextSegment' = nextSegment /\ nextSegment \in Nat
      /\ batches' = batches /\ retired' = retired
  <2>1. sealPc = "idle"
    BY <1>1, <1>2 DEF SealInv, Free
  <2> QED BY <1>1, <1>2, <2>1 DEF Live, seal, Kinds
<1>4. /\ Len(batches) \in Nat /\ reached \in 0 .. Len(batches) /\ retired \in 0 .. reached
      /\ reached' \in Nat /\ reached <= reached' /\ retired \in Nat /\ retired <= reached'
  BY <1>1, <1>2 DEF Kinds
<1>5. \A k \in Keys : Known(k)' = Known(k)
  BY <1>3 DEF Known
<1>6. ASSUME NEW k \in Keys
      PROVE  /\ Replayed[k] \in Nat /\ Known(k) \in 0 .. Len(batches)
             /\ buffer[k] \in {0, Replayed[k]}
             /\ buffer'[k] = (IF Expired(buffer[k]) THEN 0 ELSE buffer[k])
             /\ buffer'[k] \in {0, Replayed[k]}
  BY <1>1, <1>2, ReplayedIsNumber, KnownIs DEF BufferInv, Kinds, Kept
<1>7. buffer' \in Row
  <2>1. buffer' = [k \in Keys |-> buffer'[k]]
    BY <1>1 DEF Kept
  <2> QED BY <1>6, <2>1 DEF Row
<1>8. Kinds'
  BY <1>1, <1>2, <1>3, <1>4, <1>7 DEF Kinds
\* Either nothing in the buffer expired, or the log holds just what is kept of it.
<1>9. /\ log' \in Seq(Row)
      /\ \/ Replayed' = Replayed /\ buffer' = buffer
         \/ \A k \in Keys : Replayed'[k] = buffer'[k]
  <2>1. CASE Kept(buffer) = buffer
    <3>1. log' = log /\ Replayed' = Replayed
      BY <1>1, <2>1 DEF LogAfterExpiry, Replayed
    <3> QED BY <1>1, <1>2, <2>1, <3>1 DEF LogInv
  <2>2. CASE Kept(buffer) # buffer
    <3>1. PICK row \in Row : row = buffer'
      BY <1>7
    <3>2. log' = Logged(row)
      BY <1>1, <2>2, <3>1 DEF LogAfterExpiry
    <3>3. Logged(row) \in Seq(Row)
      <4>1. <<>> \in Seq(Row) /\ <<row>> \in Seq(Row)
        OBVIOUS
      <4> QED BY <4>1 DEF Logged
    <3>4. \A k \in Keys : Resolve(Frames(Logged(row)))[k] = row[k]
      BY ReplayOfOne
    <3>5. Replayed' = Resolve(Frames(Logged(row)))
      BY <3>2 DEF Replayed, Frames, Resolve
    <3> QED BY <3>1, <3>2, <3>3, <3>4, <3>5
  <2> QED BY <2>1, <2>2
<1>10. ASSUME NEW k \in Keys
       PROVE  /\ Replayed'[k] \in {0, Replayed[k]} /\ buffer'[k] \in {0, Replayed'[k]}
              /\ ReclaimOnSeal => buffer'[k] = Replayed'[k]
              /\ Due(Known(k)) => Due(Known(k))'
              /\ Replayed'[k] # Replayed[k] => Replayed'[k] = buffer'[k]
  <2>1. buffer'[k] \in {0, Replayed'[k]} /\ (ReclaimOnSeal => buffer'[k] = Replayed'[k])
    BY <1>2, <1>6, <1>9 DEF BufferInv
  <2>2. Due(Known(k)) => Due(Known(k))'
    BY <1>4, <1>5, <1>6 DEF Due
  <2> QED BY <1>6, <1>9, <2>1, <2>2
<1>11. LogInv'
  <2> SUFFICES ASSUME NEW k \in Keys
               PROVE  Replayed'[k] <= Known(k)' /\ (ReclaimOnSeal => ~Gone(Replayed[k])')
    BY <1>9 DEF LogInv
  <2>1. Replayed[k] <= Known(k) /\ (ReclaimOnSeal => ~Gone(Replayed[k])) /\ ~Gone(0)
    BY <1>2, StaleAssumption DEF LogInv, Gone, Expired
  <2> QED BY <1>3, <1>5, <1>6, <1>10, <2>1 DEF Gone
<1>12. ASSUME NEW k \in Keys
       PROVE  \/ Due(Known(k))' \/ Known(k) = 0 \/ buffer'[k] = Known(k)
              \/ \E p \in segments : p.row[k] = Known(k)
  <2>1. CASE buffer[k] = Known(k)
    BY <1>1, <1>5, <1>6, <2>1 DEF Due
  <2>2. CASE buffer[k] # Known(k)
    BY <1>2, <1>10, <2>2 DEF BufferInv
  <2> QED BY <2>1, <2>2
<1>13. Restores(Live)'
  <2>1. PICK l : l = segments /\ l = Live'
    BY <1>3
  <2>2. Restores(l)
    BY <1>2, <1>3, <2>1
  <2>3. ASSUME NEW p \in l PROVE Genuine(p)'
    <3>1. Genuine(p) /\ p \in Segment
      BY <2>2 DEF Restores, Sound, Genuine
    <3>2. ASSUME NEW k \in Keys PROVE Replayed'[k] = 0 \/ p.row[k] <= Replayed'[k]
      BY <1>10, <3>1 DEF Genuine
    <3> QED BY <1>3, <1>5, <3>1, <3>2 DEF Genuine, Gone, Segment
  <2>4. ASSUME NEW k \in Keys PROVE Holds(l, k)'
    <3>1. CASE buffer'[k] = Known(k) /\ Known(k) # 0
      BY <1>5, <1>10, <3>1 DEF Holds
    <3> QED BY <1>5, <1>12, <2>1, <3>1 DEF Holds
  <2> QED BY <2>1, <2>2, <2>3, <2>4 DEF Restores, Sound, Orderly, Holds
<1>14. BufferInv'
  BY <1>3, <1>5, <1>10, <1>12 DEF BufferInv
<1>15. SealInv' /\ MergeInv'
  BY <1>1, <1>3 DEF SealInv, MergeInv, Merging
<1>16. ExpiryInv'
  <2>1. ASSUME NEW s \in segments, NEW k \in Keys PROVE s.row[k] <= reached'
    <3>1. s.row[k] \in Nat /\ s.row[k] <= Known(k)
      BY <1>2, <1>3, RowIsNumbers DEF Restores, Sound, Genuine
    <3> QED BY <1>1, <1>4, <1>6, <3>1
  <2>2. \A k \in Keys : ~Due(buffer[k])'
    BY <1>6, StaleAssumption DEF Due, Expired
  <2>3. \A r : Kept(r)' = Kept(r)
    BY DEF Kept, Expired
  <2> QED BY <1>1, <1>3, <2>1, <2>2, <2>3 DEF ExpiryInv
<1>17. DiskInv'
  <2>1. Shows(Live, {})
    BY <1>1, <1>2 DEF DiskInv
  <2> QED BY <1>1, <1>3, <2>1 DEF DiskInv, Shows, disk
<1> QED BY <1>3, <1>8, <1>11, <1>13, <1>14, <1>15, <1>16, <1>17 DEF CompactionInv, UpInv

\* A segment is replaced on disk before it is in memory.
LEMMA RetireOnDiskKeeps == ASSUME CompactionInv, RetireOnDisk PROVE CompactionInv'
<1>1. /\ pc = "retire" /\ todo # {} /\ pc' = "replace"
      /\ files' = {f \in files : f.at # Oldest.at} \cup Survivors(Oldest)
      /\ journals' = journals
      /\ IF Survivors(Oldest) = {} THEN synced' = synced
         ELSE synced' = [files |-> files', journals |-> journals']
      /\ UNCHANGED <<memory, permit, seal, merge, doomed, todo, status, ghost, faults>>
  BY DEF RetireOnDisk, SyncDirectory
<1>2. status = "up"
  BY <1>1 DEF CompactionInv, OpenInv, Kinds
<1>3. Kinds /\ LogInv /\ Restores(Live) /\ BufferInv /\ SealInv /\ ExpiryInv /\ DiskInv
  BY <1>2 DEF CompactionInv, UpInv
<1>4. UNCHANGED ledger /\ segments' = segments /\ buffer' = buffer /\ status' = "up"
      /\ nextSegment' = nextSegment /\ nextSegment \in Nat /\ todo' = todo /\ sealPc' = sealPc
      /\ permit' = permit /\ reached' = reached
  BY <1>1, <1>2, <1>3 DEF ledger, ghost, memory, seal, Kinds
<1>5. sealPc = "idle" /\ Live = segments /\ Live' = segments /\ permit = "expiry"
  <2>1. sealPc = "idle"
    BY <1>1, <1>3 DEF SealInv
  <2> QED BY <1>1, <1>3, <1>4, <2>1 DEF Live, SealInv
<1>6. Kinds' /\ LogInv'
  BY <1>1, <1>3, <1>4, LogStays DEF Kinds, ghost, seal, memory
<1>7. Restores(Live)'
  BY <1>3, <1>4, <1>5, RestoresSame
<1>8. Replayed' = Replayed /\ \A k \in Keys : Known(k)' = Known(k)
  BY <1>4 DEF Replayed, Known, ledger
<1>9. BufferInv'
  BY <1>3, <1>4, <1>8 DEF BufferInv, Due, ledger
<1>10. SealInv' /\ MergeInv'
  BY <1>1, <1>4, <1>5 DEF SealInv, MergeInv, Merging
<1>11. ExpiryInv'
  BY <1>1, <1>3, <1>4 DEF ExpiryInv, Due, Kept, Expired
<1>12. Oldest \in todo /\ Oldest \in segments /\ Oldest' = Oldest
       /\ Survivors(Oldest)' = Survivors(Oldest)
  <2>1. todo \subseteq segments /\ segments \subseteq Segment
    BY <1>1, <1>3 DEF ExpiryInv, Kinds
  <2>2. Oldest \in todo
    BY <1>1, <2>1, OldestIs
  <2>3. Oldest' = Oldest
    BY <1>4 DEF Oldest
  <2> QED BY <2>1, <2>2, <2>3 DEF Survivors, Kept, Expired
<1>13. /\ files = segments /\ journals = {}
       /\ "power" \in Faults => synced = [files |-> segments, journals |-> {}]
  BY <1>1, <1>3, <1>5 DEF DiskInv, Shows
<1>14. files' = (segments \ {Oldest}) \cup Survivors(Oldest)
  <2>1. \A s \in segments : s.at = Oldest.at <=> s = Oldest
    BY <1>3, <1>5, <1>12 DEF Restores, Sound, Orderly
  <2> QED BY <1>1, <1>13, <2>1
<1>15. DiskInv'
  <2>1. CASE Survivors(Oldest) = {}
    <3>1. files' \cup {Oldest} = segments
      BY <1>12, <1>14, <2>1
    <3> QED BY <1>1, <1>4, <1>12, <1>13, <1>14, <2>1, <3>1 DEF DiskInv
  <2>2. CASE Survivors(Oldest) # {}
    BY <1>1, <1>4, <1>12, <1>13, <1>14, <2>2 DEF DiskInv
  <2> QED BY <2>1, <2>2
<1> QED BY <1>4, <1>6, <1>7, <1>9, <1>10, <1>11, <1>15 DEF CompactionInv, UpInv

\* Nothing expired is left in what was kept.
LEMMA KeptIs == ASSUME NEW row PROVE Kept(Kept(row)) = Kept(row)
BY StaleAssumption DEF Kept, Expired

\* The live list follows the directory.
LEMMA RetireInMemoryKeeps == ASSUME CompactionInv, RetireInMemory PROVE CompactionInv'
<1>1. /\ pc = "replace" /\ pc' = "retire"
      /\ segments' = (segments \ {Oldest}) \cup Survivors(Oldest)
      /\ todo' = todo \ {Oldest}
      /\ UNCHANGED <<files, journals, log, buffer, nextSegment, permit, seal, merge, doomed,
                     status, ghost, faults>>
      /\ synced' = [files |-> files', journals |-> journals']
  BY DEF RetireInMemory, SyncDirectory
<1>2. status = "up"
  BY <1>1 DEF CompactionInv, OpenInv, Kinds
<1>3. Kinds /\ LogInv /\ Restores(Live) /\ BufferInv /\ SealInv /\ ExpiryInv /\ DiskInv
  BY <1>2 DEF CompactionInv, UpInv
<1>4. UNCHANGED ledger /\ buffer' = buffer /\ status' = "up"
      /\ nextSegment' = nextSegment /\ nextSegment \in Nat /\ sealPc' = sealPc
      /\ permit' = permit /\ reached' = reached
  BY <1>1, <1>2, <1>3 DEF ledger, ghost, seal, Kinds
<1>5. sealPc = "idle" /\ Live = segments /\ Live' = segments' /\ permit = "expiry"
  <2>1. sealPc = "idle"
    BY <1>1, <1>3 DEF SealInv
  <2> QED BY <1>1, <1>3, <1>4, <2>1 DEF Live, SealInv
<1>6. /\ todo \subseteq segments /\ segments \subseteq Segment /\ todo # {}
      /\ \A s \in segments : /\ s \notin todo => Kept(s.row) = s.row
                             /\ \A k \in Keys : s.row[k] <= reached
      /\ \A k \in Keys : ~Due(buffer[k])
  BY <1>1, <1>3 DEF ExpiryInv, Kinds
<1>7. PICK old : old = Oldest /\ old \in todo /\ old \in segments
  BY <1>6, OldestIs
<1>8. PICK l : l = (segments \ {old}) \cup Survivors(old) /\ l = segments'
  BY <1>1, <1>7
<1>9. Restores(l)
  <2>1. PICK parts : parts = segments
    OBVIOUS
  <2>2. Restores(parts) /\ old \in parts /\ \A k \in Keys : old.row[k] <= reached
    BY <1>3, <1>5, <1>6, <1>7, <2>1
  <2> QED BY <1>3, <1>8, <2>1, <2>2, RetireRestores
<1>10. Restores(Live)'
  <2>1. Restores(l)'
    BY <1>4, <1>9, RestoresStays
  <2> QED BY <1>5, <1>8, <2>1 DEF Restores, Sound, Orderly, Holds
<1>11. segments' \subseteq Segment
  BY <1>8, <1>9 DEF Restores, Sound, Genuine
<1>12. Kinds' /\ LogInv'
  BY <1>1, <1>3, <1>4, <1>11, LogStays DEF Kinds, ghost, seal
<1>13. Replayed' = Replayed /\ \A k \in Keys : Known(k)' = Known(k)
  BY <1>4 DEF Replayed, Known, ledger
<1>14. ASSUME NEW s \in Survivors(old)
       PROVE  s.row = Kept(old.row) /\ s.at = old.at
  BY <1>6, <1>7 DEF Survivors, Segment
<1>15. BufferInv'
  <2> SUFFICES ASSUME NEW k \in Keys, NEW p \in segments, p.row[k] = Known(k),
                      ~Due(Known(k)), Known(k) # 0
               PROVE  \E q \in segments' : q.row[k] = Known(k)
    BY <1>3, <1>4, <1>13 DEF BufferInv, Due, ledger
  <2>1. CASE p # old
    BY <1>8, <2>1
  <2>2. CASE p = old
    <3>1. ~Expired(Known(k))
      BY <1>6 DEF Due
    <3>2. Kept(old.row)[k] = Known(k)
      BY <2>2, <3>1 DEF Kept
    <3>3. Kept(old.row) # Empty
      BY <3>2 DEF Empty
    <3>4. Survivors(old) # {}
      BY <3>3 DEF Survivors
    <3> QED BY <1>8, <1>14, <3>2, <3>4
  <2> QED BY <2>1, <2>2
<1>16. SealInv' /\ MergeInv'
  BY <1>1, <1>4, <1>5 DEF SealInv, MergeInv, Merging
<1>17. ExpiryInv'
  <2>1. todo' \subseteq segments'
    BY <1>1, <1>6, <1>7, <1>8
  <2>2. ASSUME NEW s \in segments'
        PROVE  /\ s \notin todo' => Kept(s.row) = s.row
               /\ \A k \in Keys : s.row[k] <= reached
    <3>1. CASE s \in segments \ {old}
      BY <1>1, <1>6, <1>7, <3>1
    <3>2. CASE s \in Survivors(old)
      <4>1. \A k \in Keys : s.row[k] \in {0, old.row[k]}
        BY <1>14, <3>2 DEF Kept
      <4>2. reached \in Nat
        BY <1>3 DEF Kinds
      <4>3. Kept(s.row) = s.row
        BY <1>14, <3>2, KeptIs
      <4> QED BY <1>6, <1>7, <4>1, <4>2, <4>3
    <3> QED BY <1>8, <3>1, <3>2
  <2>3. \A k \in Keys : ~Due(buffer[k])'
    BY <1>4, <1>6 DEF Due
  <2>4. \A r : Kept(r)' = Kept(r)
    BY DEF Kept, Expired
  <2> QED BY <1>1, <1>4, <2>1, <2>2, <2>3, <2>4 DEF ExpiryInv
<1>18. DiskInv'
  <2>1. files' = segments' /\ journals' = {}
    BY <1>1, <1>3 DEF DiskInv
  <2> QED BY <1>1, <1>5, <2>1 DEF DiskInv, Shows
<1> QED BY <1>4, <1>10, <1>12, <1>15, <1>16, <1>17, <1>18 DEF CompactionInv, UpInv

\* The pass leaves nothing it covers: it may now be called done.
LEMMA EndExpiryKeeps == ASSUME CompactionInv, EndExpiry PROVE CompactionInv'
<1>1. /\ pc = "retire" /\ todo = {} /\ pc' = "idle" /\ permit' = Free /\ retired' = reached
      /\ UNCHANGED <<disk, memory, seal, merge, doomed, todo, status, batches, reached, faults>>
  BY DEF EndExpiry
<1>2. status = "up"
  BY <1>1 DEF CompactionInv, OpenInv, Kinds
<1>3. Kinds /\ LogInv /\ Restores(Live) /\ BufferInv /\ SealInv /\ ExpiryInv /\ DiskInv
  BY <1>2 DEF CompactionInv, UpInv
<1>4. /\ log' = log /\ buffer' = buffer /\ segments' = segments /\ nextSegment' = nextSegment
      /\ status' = "up" /\ sealPc' = sealPc /\ reached' = reached /\ batches' = batches
  BY <1>1, <1>2 DEF memory, seal
<1>5. sealPc = "idle" /\ Live = segments /\ Live' = segments
  <2>1. sealPc = "idle"
    BY <1>1, <1>3 DEF SealInv
  <2> QED BY <1>4, <2>1 DEF Live
<1>6. reached \in Nat /\ retired \in 0 .. reached /\ 0 \notin Stale
  BY <1>3, StaleAssumption DEF Kinds
<1>7. Kinds'
  BY <1>1, <1>3, <1>4, <1>6 DEF Kinds
<1>8. Replayed' = Replayed /\ \A k \in Keys : Known(k)' = Known(k)
  BY <1>4 DEF Replayed, Known
<1>9. \A v : Gone(v)' <=> Due(v)
  BY <1>1 DEF Gone, Due
<1>10. \A v : Due(v)' <=> Due(v)
  BY <1>4 DEF Due
<1>11. LogInv'
  <2>1. ASSUME ReclaimOnSeal, NEW k \in Keys PROVE ~Gone(Replayed[k])'
    <3>1. ~Due(Replayed[k])
      BY <1>1, <1>3, <2>1 DEF ExpiryInv, BufferInv
    <3> QED BY <1>1, <1>8, <3>1 DEF Gone, Due
  <2> QED BY <1>3, <1>4, <1>8, <2>1 DEF LogInv
<1>12. Restores(Live)'
  <2>1. PICK l : l = segments /\ l = Live'
    BY <1>5
  <2>2. Restores(l)
    BY <1>3, <1>5, <2>1
  <2>3. ASSUME NEW p \in l PROVE Genuine(p)'
    <3>1. Genuine(p) /\ p \in Segment /\ Kept(p.row) = p.row
      BY <1>1, <1>3, <2>1, <2>2 DEF Restores, Sound, Genuine, ExpiryInv
    <3>2. ASSUME NEW k \in Keys PROVE ~Due(p.row[k])
      <4>1. Kept(p.row)[k] = p.row[k]
        BY <3>1
      <4>2. Kept(p.row)[k] = IF Expired(p.row[k]) THEN 0 ELSE p.row[k]
        BY DEF Kept
      <4> QED BY <1>6, <4>1, <4>2 DEF Due, Expired
    <3>3. \A k \in Keys : ~Gone(p.row[k])'
      BY <1>1, <3>2 DEF Gone, Due
    <3> QED BY <1>4, <1>8, <3>1, <3>3 DEF Genuine, Segment
  <2>4. \A k \in Keys : Holds(l, k)'
    BY <1>4, <1>8, <2>2 DEF Restores, Holds, Due
  <2> QED BY <2>1, <2>2, <2>3, <2>4 DEF Restores, Sound, Orderly, Holds
<1>13. BufferInv'
  BY <1>3, <1>4, <1>8 DEF BufferInv, Due
<1>14. SealInv' /\ MergeInv' /\ ExpiryInv'
  BY <1>1, <1>4, <1>5 DEF SealInv, MergeInv, Merging, ExpiryInv
<1>15. DiskInv'
  BY <1>1, <1>3, <1>5 DEF DiskInv, Shows, disk
<1> QED BY <1>4, <1>7, <1>11, <1>12, <1>13, <1>14, <1>15 DEF CompactionInv, UpInv

\* A pass that fails has retired what it had come to, and covers nothing more.
LEMMA ExpiryFailsKeeps == ASSUME CompactionInv, ExpiryFails PROVE CompactionInv'
<1>1. /\ pc = "retire" /\ pc' = "idle" /\ permit' = Free
      /\ UNCHANGED <<disk, memory, seal, merge, doomed, status, ghost>>
  BY DEF ExpiryFails
<1>2. status = "up"
  BY <1>1 DEF CompactionInv, OpenInv, Kinds
<1>3. Kinds /\ LogInv /\ Restores(Live) /\ BufferInv /\ SealInv /\ DiskInv
  BY <1>2 DEF CompactionInv, UpInv
<1>4. UNCHANGED ledger /\ buffer' = buffer /\ status' = "up" /\ segments' = segments
      /\ nextSegment' = nextSegment /\ nextSegment \in Nat /\ sealPc' = sealPc
  BY <1>1, <1>2, <1>3 DEF ledger, ghost, memory, seal, Kinds
<1>5. sealPc = "idle" /\ Live = segments /\ Live' = segments
  <2>1. sealPc = "idle"
    BY <1>1, <1>3 DEF SealInv
  <2> QED BY <1>4, <2>1 DEF Live
<1>6. Kinds' /\ LogInv'
  BY <1>1, <1>3, <1>4, LogStays DEF Kinds, ghost
<1>7. Restores(Live)'
  BY <1>3, <1>4, <1>5, RestoresSame
<1>8. Replayed' = Replayed /\ \A k \in Keys : Known(k)' = Known(k)
  BY <1>4 DEF Replayed, Known, ledger
<1>9. BufferInv'
  BY <1>3, <1>4, <1>8 DEF BufferInv, Due, ledger
<1>10. SealInv' /\ MergeInv' /\ ExpiryInv'
  BY <1>1, <1>4, <1>5 DEF SealInv, MergeInv, Merging, ExpiryInv
<1>11. DiskInv'
  BY <1>1, <1>3, <1>5 DEF DiskInv, Shows, disk
<1> QED BY <1>4, <1>6, <1>7, <1>9, <1>10, <1>11 DEF CompactionInv, UpInv

----------------------------------------------------------------------------
(* The theorems.                                                           *)

\* Nothing changes.
LEMMA StutterKeeps == ASSUME CompactionInv, UNCHANGED vars PROVE CompactionInv'
<1>1. UNCHANGED <<files, journals, synced, log, buffer, segments, nextSegment, permit, sealPc,
                  drained, pc, merge, doomed, todo, status, batches, reached, retired, faults>>
  BY DEF vars, disk, memory, seal, upkeep, ghost
<1>2. Kinds' /\ Kinds /\ LogInv
  BY <1>1 DEF CompactionInv, Kinds
<1>3. UNCHANGED ledger /\ nextSegment \in Nat /\ nextSegment' = nextSegment
  BY <1>1, <1>2 DEF ledger, Kinds
<1>4. LogInv'
  BY <1>2, <1>3, LogStays
<1>5. Replayed' = Replayed /\ \A k \in Keys : Known(k)' = Known(k)
  BY <1>3 DEF Replayed, Known, ledger
<1>6. CASE status = "up"
  <2>1. Restores(Live) /\ BufferInv /\ SealInv /\ ExpiryInv /\ MergeInv /\ DiskInv
    BY <1>6 DEF CompactionInv, UpInv
  <2>2. Live' = Live
    BY <1>1 DEF Live
  <2>3. Restores(Live)'
    BY <1>3, <2>1, <2>2, RestoresSame
  <2>4. BufferInv'
    BY <1>1, <1>5, <2>1 DEF BufferInv, Due
  <2>5. SealInv'
    BY <1>1, <1>5, <2>1 DEF SealInv, Genuine, Gone, Segment
  <2>6. ExpiryInv'
    BY <1>1, <2>1 DEF ExpiryInv, Due, Kept, Expired
  <2>7. MergeInv'
    BY <1>1, <1>3, <2>1, MergeStays DEF upkeep
  <2>8. DiskInv'
    BY <1>1, <2>1, <2>2, DiskStays DEF upkeep, disk
  <2> QED BY <1>1, <1>2, <1>4, <1>6, <2>3, <2>4, <2>5, <2>6, <2>7, <2>8 DEF CompactionInv, UpInv
<1>7. CASE status = "opening"
  <2>1. OpenInv
    BY <1>7 DEF CompactionInv
  <2>2. PICK dir, was, j : dir = files /\ was = synced.files /\ j = merge.journal
    OBVIOUS
  <2>3. \A i : /\ WellFormed(i)' = WellFormed(i)
               /\ Recovers(dir, i) => Recovers(dir, i)'
    <3> SUFFICES ASSUME NEW i PROVE /\ WellFormed(i)' = WellFormed(i)
                                    /\ Recovers(dir, i) => Recovers(dir, i)'
      OBVIOUS
    <3>1. WellFormed(i)' = WellFormed(i)
      BY DEF WellFormed, Journal
    <3>2. ASSUME Recovers(dir, i) PROVE Recovers(dir, i)'
      <4>1. PICK rest : rest = Without(dir, Losers(dir, i))
        OBVIOUS
      <4>2. Restores(rest)'
        BY <1>3, <3>2, <4>1, RestoresStays DEF Recovers
      <4>3. rest = Without(dir, Losers(dir, i))'
        BY <4>1 DEF Without, Losers, Forward
      <4> QED BY <4>2, <4>3 DEF Recovers, Restores, Sound, Orderly, Holds
    <3> QED BY <3>1, <3>2
  <2>4. Restores(dir) => Restores(dir)'
    BY <1>3, RestoresStays
  <2>5. files' = dir /\ synced'.files = was /\ merge'.journal = j
    BY <1>1, <2>2
  <2>6. /\ Losers(files, merge.journal)' = Losers(dir, j)
        /\ Losers(synced.files, merge.journal)' = Losers(was, j)
        /\ Ids(files)' = Ids(dir) /\ Ids(synced.files \ files)' = Ids(was \ dir)
    BY <2>5 DEF Losers, Forward, Ids
  <2>7. CASE pc = "idle"
    <3>1. /\ \/ journals = {} /\ Restores(dir)
             \/ \E i \in journals : journals = {i} /\ WellFormed(i) /\ Recovers(dir, i)
      BY <2>1, <2>2, <2>7 DEF OpenInv
    <3>2. \/ journals' = {} /\ Restores(files)'
          \/ \E i \in journals' : journals' = {i} /\ WellFormed(i)' /\ Recovers(files, i)'
      BY <1>1, <2>3, <2>4, <2>5, <3>1
    <3>3. OpenInv'
      BY <1>1, <2>1, <2>7, <3>2 DEF OpenInv
    <3> QED BY <1>1, <1>2, <1>4, <1>7, <3>3 DEF CompactionInv
  <2>8. CASE pc # "idle"
    <3>1. WellFormed(j) /\ Recovers(dir, j)
      BY <2>1, <2>2, <2>8 DEF OpenInv
    <3>2. WellFormed(merge.journal)' /\ Recovers(files, merge.journal)'
      BY <2>3, <2>5, <3>1
    <3>3. OpenInv'
      BY <1>1, <2>1, <2>2, <2>5, <2>6, <2>8, <3>2 DEF OpenInv
    <3> QED BY <1>1, <1>2, <1>4, <1>7, <3>3 DEF CompactionInv
  <2> QED BY <2>7, <2>8
<1> QED BY <1>2, <1>6, <1>7 DEF Kinds

\* An empty store.
LEMMA InitHolds == ASSUME Init PROVE CompactionInv
<1>1. Kinds
  <2>1. buffer \in Row
    BY DEF Init, Empty, Row
  <2>2. batches \in Seq(SUBSET Keys) /\ Len(batches) = 0
    BY DEF Init
  <2> QED BY <2>1, <2>2 DEF Init, Kinds
<1>2. ASSUME NEW k \in Keys PROVE Replayed[k] = 0 /\ Known(k) = 0 /\ buffer[k] = 0
  <2>1. PICK l \in Seq(Row) : l = log /\ Len(l) = 0
    <3>1. log \in Seq(Row) /\ Len(log) = 0
      BY DEF Init
    <3> QED BY <3>1
  <2>2. Resolve(Frames(l))[k] = 0
    <3>1. \A i \in 1 .. Len(l) : FALSE
      BY <2>1
    <3> QED BY <3>1, ReplayIs
  <2>3. Replayed = Resolve(Frames(l))
    BY <2>1 DEF Replayed, Frames, Resolve
  <2>4. Len(batches) = 0
    BY DEF Init
  <2>5. Known(k) = 0
    BY <1>1, <2>4, KnownIs DEF Kinds
  <2> QED BY <2>2, <2>3, <2>5 DEF Init, Empty
<1>3. LogInv
  <2>1. log \in Seq(Row)
    BY DEF Init
  <2> QED BY <1>2, <2>1, StaleAssumption DEF LogInv, Gone, Expired
<1>4. Live = {} /\ pc = "idle" /\ sealPc = "idle" /\ permit = Free /\ status = "up"
      /\ files = {} /\ journals = {} /\ synced = [files |-> {}, journals |-> {}]
  BY DEF Init, Live
<1>5. Restores(Live)
  BY <1>2, <1>4 DEF Restores, Sound, Orderly, Holds
<1>6. BufferInv
  BY <1>2 DEF BufferInv
<1>7. SealInv /\ ExpiryInv /\ MergeInv
  BY <1>4 DEF SealInv, ExpiryInv, MergeInv, Merging
<1>8. DiskInv
  BY <1>4 DEF DiskInv, Shows
<1> QED BY <1>1, <1>3, <1>4, <1>5, <1>6, <1>7, <1>8 DEF CompactionInv, UpInv

\* Every step keeps the invariant.
LEMMA NextKeeps == ASSUME OneKindOfCrash, CompactionInv, [Next]_vars PROVE CompactionInv'
<1>1. status \in {"up", "opening"} /\ (status = "opening" => OpenInv)
  BY DEF CompactionInv, Kinds
<1>2. status = "opening" => pc \in {"idle", "unlink", "unjournal", "resync"}
  BY <1>1 DEF OpenInv
<1>3. CASE \E ks \in (SUBSET Keys) \ {{}} : Ingest(ks)
  BY <1>3, IngestKeeps
<1>4. CASE Seal
  BY <1>4, DrainKeeps, WriteSegmentKeeps, SealFailsKeeps, PublishSealKeeps, ReconcileKeeps DEF Seal
<1>5. CASE Merge
  <2>1. CASE \E n \in 1 .. MaxSegments : PinRun(n)
    BY <2>1, PinRunKeeps
  <2>2. CASE WriteJournal
    <3>1. status = "up"
      BY <1>1, <1>2, <2>2 DEF WriteJournal
    <3> QED BY <2>2, <3>1, WriteJournalKeeps
  <2>3. CASE WriteOutput
    <3>1. status = "up"
      BY <1>1, <1>2, <2>3 DEF WriteOutput
    <3> QED BY <2>3, <3>1, WriteOutputKeeps
  <2>4. CASE WriteFails
    <3>1. status = "up"
      BY <1>1, <1>2, <2>4 DEF WriteFails
    <3> QED BY <2>4, <3>1, WriteFailsKeeps
  <2>5. CASE PublishMerge
    <3>1. status = "up"
      BY <1>1, <1>2, <2>5 DEF PublishMerge
    <3> QED BY <2>5, <3>1, PublishMergeKeeps
  <2>6. CASE Unlink
    BY <1>1, <2>6, UnlinkKeeps, RecoveryUnlinks
  <2>7. CASE SyncUnlinks
    BY <1>1, <2>7, SyncUnlinksKeeps, RecoverySyncs
  <2>8. CASE RemoveJournal
    BY <1>1, <2>8, RemoveJournalKeeps, RecoveryForgets
  <2>9. CASE SyncRemoval
    BY <1>1, <2>9, SyncRemovalKeeps, RecoveryEnds
  <2> QED BY <1>5, <2>1, <2>2, <2>3, <2>4, <2>5, <2>6, <2>7, <2>8, <2>9 DEF Merge
<1>6. CASE Expire
  BY <1>6, BeginExpiryKeeps, RetireOnDiskKeeps, RetireInMemoryKeeps, EndExpiryKeeps,
     ExpiryFailsKeeps DEF Expire
<1>7. CASE Kill
  BY <1>7, KillKeeps
<1>8. CASE Power
  BY <1>8, PowerKeeps
<1>9. CASE RecoverMerge
  BY <1>9, RecoverMergeKeeps
<1>10. CASE Open
  BY <1>10, OpenKeeps
<1>11. CASE UNCHANGED vars
  BY <1>11, StutterKeeps
<1> QED BY <1>3, <1>4, <1>5, <1>6, <1>7, <1>8, <1>9, <1>10, <1>11 DEF Next

\* The invariant holds throughout.
LEMMA CompactionInvHolds == ASSUME OneKindOfCrash PROVE Spec => []CompactionInv
<1>1. Init => CompactionInv
  BY InitHolds
<1>2. CompactionInv /\ [Next]_vars => CompactionInv'
  BY NextKeeps
<1> QED BY <1>1, <1>2, PTL DEF Spec

\* What is visible of a key: the buffered version, or the newest of the segments.
LEMMA VisibleIs ==
    ASSUME CompactionInv, status = "up", NEW k \in Keys
    PROVE  /\ Visible[k] \in Nat
           /\ \/ Due(Known(k)) \/ Visible[k] = Known(k)
           /\ ReclaimOnSeal => ~Gone(Visible[k])
<1>1. Kinds /\ LogInv /\ Restores(Live) /\ BufferInv
  BY DEF CompactionInv, UpInv
<1>2. \A p \in segments : Genuine(p) /\ p \in Segment /\ p.at <= nextSegment
  BY <1>1 DEF Live, Restores, Sound, Genuine, Segment, Kinds
<1>3. segments \in SUBSET Segment /\ Orderly(segments) /\ nextSegment \in Nat
  BY <1>1 DEF Live, Restores, Sound, Orderly, Kinds
<1> DEFINE seen == Resolve(segments)[k]
<1>4. /\ seen \in Nat /\ \A p \in segments : p.row[k] <= seen
      /\ seen = 0 \/ \E p \in segments : p.row[k] = seen
  <2>1. PICK parts, n : parts = segments /\ n = nextSegment
    OBVIOUS
  <2>2. /\ Resolve(parts) \in Row
        /\ \A p \in parts : p.row[k] <= Resolve(parts)[k]
        /\ Resolve(parts)[k] = 0 \/ \E p \in parts : p.row[k] = Resolve(parts)[k]
    BY <1>2, <1>3, <2>1, ResolvedIsNewest
  <2> QED BY <2>1, <2>2 DEF Row
<1> HIDE DEF seen
<1>5. Visible[k] = IF buffer[k] # 0 THEN buffer[k] ELSE seen
  BY DEF Visible, Over, seen
<1>6. /\ Replayed[k] \in Nat /\ Known(k) \in Nat /\ Replayed[k] <= Known(k)
      /\ buffer[k] \in {0, Replayed[k]} /\ ~Gone(0)
      /\ ReclaimOnSeal => ~Gone(Replayed[k])
      /\ Due(Known(k)) \/ Known(k) = 0 \/ buffer[k] = Known(k)
             \/ \E p \in segments : p.row[k] = Known(k)
  BY <1>1, ReplayedIsNumber, KnownIs, StaleAssumption
     DEF Kinds, LogInv, BufferInv, Gone, Expired
<1>7. \A p \in segments : /\ p.row[k] <= Known(k) /\ p.row[k] \in Nat
                          /\ Replayed[k] = 0 \/ p.row[k] <= Replayed[k]
                          /\ ReclaimOnSeal => ~Gone(p.row[k])
  BY <1>2, RowIsNumbers DEF Genuine
<1>8. CASE buffer[k] # 0
  BY <1>5, <1>6, <1>7, <1>8
<1>9. CASE buffer[k] = 0
  BY <1>4, <1>5, <1>6, <1>7, <1>9
<1> QED BY <1>8, <1>9

\* If processes are killed or the machine loses power, but not both in one history, no
\* merge, retention pass, crash or recovery, in any order, loses the newest version of
\* a key or lets an older one win (lib.rs merge_run, expire_by_policy_locked,
\* recover_supersede_markers).
THEOREM ReadsAreNewest == ASSUME OneKindOfCrash PROVE Spec => []ReadsNewest
<1>1. CompactionInv => ReadsNewest
  BY VisibleIs DEF ReadsNewest, Due, Known
<1> QED BY <1>1, CompactionInvHolds, PTL

\* If besides every seal rewrites the log, what a completed retention pass removed never
\* shows again, through any later merge, crash and recovery (lib.rs
\* expire_by_policy_locked).
THEOREM ExpiredIsGone ==
    ASSUME OneKindOfCrash, ReclaimOnSeal PROVE Spec => []ExpiredStaysGone
<1>1. CompactionInv => ExpiredStaysGone
  BY VisibleIs DEF ExpiredStaysGone, Gone
<1> QED BY <1>1, CompactionInvHolds, PTL

\* Whenever maintenance is idle the directory holds the published segments and no
\* journal: whatever failed or was interrupted has left nothing a restart would load or
\* act on (lib.rs merge_run, recover_supersede_markers).
THEOREM NoTraceIsLeft == ASSUME OneKindOfCrash PROVE Spec => []IdleLeavesNoTrace
<1>1. CompactionInv => IdleLeavesNoTrace
  BY DEF CompactionInv, UpInv, DiskInv, Shows, Live, IdleLeavesNoTrace
<1> QED BY <1>1, CompactionInvHolds, PTL
=============================================================================

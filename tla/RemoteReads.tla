---------------------------- MODULE RemoteReads ----------------------------
(***************************************************************************)
(* What the archive of a pin is made of, byte by byte, and the way back:   *)
(* files are cut into packs and chunk tables by a publisher                *)
(* (object_storage/publish.rs), described by a manifest (manifest.rs), and *)
(* read back through a shared chunk cache (snapshot.rs) by queries, by a   *)
(* verification (admin.rs) and by a restore (restore.rs), while the bucket *)
(* rots, loses objects and has its id retired.                             *)
(*                                                                         *)
(* Archive.tla has the order of the requests that publish and delete; here *)
(* the id has one publisher, whose marker and fences are left out.  A byte *)
(* is a value of its own and a digest is the content it was taken of.  The *)
(* framing of a payload and the reading of a segment are left to a range   *)
(* read of the file (SegmentFile.tla has the segment).  A restore that     *)
(* dies leaves a staging directory whose name is never used again.         *)
(***************************************************************************)
EXTENDS Naturals, SequencesExt

CONSTANTS
    PublishedPins,  \* the pins that may be published
    Crews,          \* which jobs the threads of a reading process run
    ChunkBytes, PackTarget, PartBytes, CacheBudget,
    Rot, Gone, Foreign, None,
    MaxFaults, MaxJobs      \* bounds

VARIABLES
    pin,        \* the pin: its files in path order, what its directory names, and
                \* whether it declares its format and has an erasure pending
    local,      \* the bytes its directory holds, file by file
    upload,     \* where the publisher is, and the manifest it has so far
    retired,    \* is there a tombstone?
    listing,    \* the remote manifest, or None
    packs,      \* the pack objects, each its bytes, or Gone
    handle,     \* the open snapshot: its manifest and its chunk cache
    crew, threads,
    staging,    \* the files a restore has written so far, or None
    target,     \* the directory it is for: its files, Foreign, or None
    faults, jobs

bucket == <<retired, listing, packs>>
publisher == <<pin, local, upload>>
disk == <<staging, target>>
remoteVars == <<publisher, bucket, handle, crew, threads, disk, faults, jobs>>

Smaller(a, b) == IF a < b THEN a ELSE b

\* Bytes a to b of a sequence, b excluded, counted from nought as the code does.
Slice(bytes, a, b) == SubSeq(bytes, a + 1, b)

Files == DOMAIN pin.files
Content(path) == pin.files[CHOOSE i \in Files : pin.files[i].path = path].bytes

\* The generation manifest in the pin: its state file, and what that lists.
StatePath == "state-manifest.json"
Named(files) == {[path |-> files[i].path, bytes |-> files[i].bytes] :
                    i \in {j \in DOMAIN files : files[j].path # StatePath}}
Parse(bytes) == IF bytes = Content(StatePath) THEN Named(pin.files) ELSE None

\* classify_archive_path: the names a pin has files under.
ArchivePaths == {"annotations.jsonl", "evals.jsonl", "tombstones.jsonl", StatePath,
                 "payloads/ab/abc.bin", "segment-1.seg", "segment-2.seg"}

-----------------------------------------------------------------------------
(* publish.rs.                                                              *)

\* Greedy, in path order: a file that would cross the target starts a pack,
\* and one that is larger than the target is a pack of its own.
Plan ==
    LET size(i) == Len(pin.files[i].bytes)
        total(pack) == FoldLeft(LAMBDA sum, i : sum + size(i), 0, pack)
        flushed(plan) == IF plan.open = <<>> THEN plan.packs ELSE Append(plan.packs, plan.open)
        place(plan, i) ==
            IF size(i) > PackTarget
            THEN [packs |-> Append(flushed(plan), <<i>>), open |-> <<>>]
            ELSE IF total(plan.open) + size(i) > PackTarget
            THEN [packs |-> flushed(plan), open |-> <<i>>]
            ELSE [plan EXCEPT !.open = Append(@, i)]
    IN  flushed(FoldLeft(place, [packs |-> <<>>, open |-> <<>>], [i \in Files |-> i]))

\* The digests of the successive pieces of that size, the last one short.
Pieces(bytes, size) ==
    [n \in 1 .. (Len(bytes) + size - 1) \div size |->
        Slice(bytes, (n - 1) * size, Smaller(n * size, Len(bytes)))]

\* A pack in memory is cut into chunks whole, a large file part by part.
ChunkTable(bytes) ==
    IF Len(bytes) > PackTarget
    THEN FlattenSeq([n \in DOMAIN Pieces(bytes, PartBytes) |->
                        Pieces(Pieces(bytes, PartBytes)[n], ChunkBytes)])
    ELSE Pieces(bytes, ChunkBytes)

\* validate_pin_directory: what the directory holds and its manifest does not name.
Strays == pin.directory \ {pin.files[i].path : i \in Files}

\* What a pin must be before a byte of it leaves.
Publishable ==
    /\ pin.declared
    /\ \A i \in Files : pin.files[i].path \in ArchivePaths
    /\ Strays = {}
    /\ ~pin.pending
    /\ \A i \in Files : local[i] = pin.files[i].bytes

ValidatePin ==
    /\ upload.at = "validate"
    /\ upload' = [upload EXCEPT !.at = IF Publishable THEN "pack" ELSE "refused"]
    /\ UNCHANGED <<pin, local, bucket, handle, crew, threads, disk, faults, jobs>>

\* The bytes that go up are digested again as they are read.
Unchanged(pack) == \A n \in DOMAIN pack : local[pack[n]] = pin.files[pack[n]].bytes

UploadPack ==
    /\ upload.at = "pack"
    /\ LET k == Len(upload.objects) + 1
           pack == Plan[k]
           bytes == FlattenSeq([n \in DOMAIN pack |-> local[pack[n]]])
           before(n) == FlattenSeq([m \in 1 .. n - 1 |-> local[pack[m]]])
           placed == [n \in DOMAIN pack |->
                        [path |-> pin.files[pack[n]].path, bytes |-> Len(local[pack[n]]),
                         digest |-> pin.files[pack[n]].bytes, object |-> k,
                         offset |-> Len(before(n))]]
       IN  IF Unchanged(pack)
           THEN /\ upload' = [at |-> "readback", files |-> upload.files \o placed,
                              objects |-> Append(upload.objects,
                                [bytes |-> Len(bytes), digest |-> bytes,
                                 chunks |-> ChunkTable(bytes)])]
                /\ packs' = Append(packs, bytes)
           ELSE upload' = [upload EXCEPT !.at = "refused"] /\ UNCHANGED packs
    /\ UNCHANGED <<pin, local, retired, listing, handle, crew, threads, disk, faults, jobs>>

\* get_verify: the object is read back in full before the manifest may name it.
ReadBack ==
    /\ upload.at = "readback"
    /\ LET k == Len(upload.objects)
       IN  upload' = [upload EXCEPT !.at = IF packs[k] # upload.objects[k].digest THEN "refused"
                                           ELSE IF k < Len(Plan) THEN "pack" ELSE "commit"]
    /\ UNCHANGED <<pin, local, bucket, handle, crew, threads, disk, faults, jobs>>

CommitManifest ==
    /\ upload.at = "commit"
    /\ ~retired
    /\ upload' = [upload EXCEPT !.at = "published"]
    /\ listing' = [files |-> upload.files, objects |-> upload.objects]
    /\ UNCHANGED <<pin, local, retired, packs, handle, crew, threads, disk, faults, jobs>>

-----------------------------------------------------------------------------
(* manifest.rs: what a reader demands of a manifest before it believes it.   *)

Within(file, objects) ==
    /\ file.object \in DOMAIN objects
    /\ file.offset + file.bytes <= objects[file.object].bytes

\* The nonempty files of an object cover each of its bytes exactly once.
Tiled(files, objects) ==
    \A k \in DOMAIN objects : \A b \in 0 .. objects[k].bytes - 1 :
        Cardinality({i \in DOMAIN files : /\ files[i].object = k
                                          /\ files[i].offset <= b
                                          /\ b < files[i].offset + files[i].bytes}) = 1

Validate(m) ==
    /\ \A k \in DOMAIN m.objects :
          Len(m.objects[k].chunks) = (m.objects[k].bytes + ChunkBytes - 1) \div ChunkBytes
    /\ \A i \in DOMAIN m.files : m.files[i].path \in ArchivePaths /\ Within(m.files[i], m.objects)
    /\ \A i, j \in DOMAIN m.files : i # j => m.files[i].path # m.files[j].path
    /\ \E i \in DOMAIN m.files : m.files[i].path = StatePath
    /\ Tiled(m.files, m.objects)

\* Mutant: the file sets are not compared.
CrosscheckGeneration_Off(m, generation) == generation # None

\* The files are exactly those of the generation manifest in the archive.
CrosscheckGeneration(m, generation) ==
    /\ generation # None
    /\ {[path |-> m.files[i].path, bytes |-> m.files[i].digest] :
            i \in {j \in DOMAIN m.files : m.files[j].path # StatePath}} = generation

-----------------------------------------------------------------------------
(* admin.rs and snapshot.rs: opening a snapshot.                             *)

Closed == [at |-> "closed", manifest |-> None, slots |-> <<>>, resident |-> 0]

\* get_range: an object that is gone or too short refuses, and nothing else is
\* noticed here.
GetRange(k, a, b) == IF packs[k] = Gone THEN None
                     ELSE IF Len(packs[k]) < b THEN None ELSE Slice(packs[k], a, b)

\* fetch_archived_file: past the cache, one digest over the whole file.
Archived(m, path) ==
    LET found == {i \in DOMAIN m.files : m.files[i].path = path}
        file == m.files[CHOOSE i \in found : TRUE]
        bytes == GetRange(file.object, file.offset, file.offset + file.bytes)
    IN  IF found = {} \/ bytes # file.digest THEN None ELSE bytes

Opening(next) ==
    /\ handle' = next
    /\ UNCHANGED <<publisher, bucket, crew, threads, disk, faults, jobs>>

Refused == [Closed EXCEPT !.at = "refused"]

Gate ==
    /\ handle.at = "gate"
    /\ Opening(IF retired THEN Refused ELSE [handle EXCEPT !.at = "manifest"])

FetchManifest ==
    /\ handle.at = "manifest"
    /\ Opening(IF listing = None THEN Refused
               ELSE IF ~Validate(listing) THEN Refused
               ELSE [handle EXCEPT !.at = "crosscheck", !.manifest = listing])

\* The tombstone log in the archive must have no erasure pending either.
CrosscheckState ==
    /\ handle.at = "crosscheck"
    /\ LET m == handle.manifest
           state == Archived(m, StatePath)
           log == \E i \in DOMAIN m.files : m.files[i].path = "tombstones.jsonl"
           refused == \/ state = None
                      \/ ~CrosscheckGeneration(m, Parse(state))
                      \/ log /\ (Archived(m, "tombstones.jsonl") = None \/ pin.pending)
       IN  Opening(IF refused THEN Refused ELSE [handle EXCEPT !.at = "open"])

-----------------------------------------------------------------------------
(* snapshot.rs: ranges of files, out of chunks, out of the cache.            *)

Idle == [at |-> "idle"]
Become(t, state) == threads' = [threads EXCEPT ![t] = state]
FileOf(t) == handle.manifest.files[threads[t].file]
EndOf(s) == handle.manifest.files[s.file].offset + s.to

\* The next chunk of the range, or its end.
Onward(s) == [s EXCEPT !.at = IF s.chunk * ChunkBytes < EndOf(s) THEN "get" ELSE "done"]

FileRange(job, i, from, to) ==
    Onward([at |-> "get", job |-> job, file |-> i, from |-> from, to |-> to, got |-> <<>>,
            chunk |-> (handle.manifest.files[i].offset + from) \div ChunkBytes])

\* A failed read: a restore takes its staging directory down with it.
Fail(t) ==
    /\ Become(t, [at |-> "failed"])
    /\ staging' = None
    /\ UNCHANGED target

Expected(t) == handle.manifest.objects[FileOf(t).object].chunks[threads[t].chunk + 1]

\* The part of a chunk the range asks for is appended.
Taken(t, bytes) ==
    LET s == threads[t]
        begin == s.chunk * ChunkBytes
        a == IF FileOf(t).offset + s.from > begin THEN FileOf(t).offset + s.from - begin ELSE 0
        b == Smaller(EndOf(s), begin + Len(bytes)) - begin
    IN  Onward([s EXCEPT !.got = @ \o Slice(bytes, a, b), !.chunk = @ + 1])

Key(t) == <<FileOf(t).object, threads[t].chunk>>
SlotOf(slots, key) == {n \in DOMAIN slots : slots[n].key = key}
Without(slots, key) == SelectSeq(slots, LAMBDA slot : slot.key # key)
Held(slots) == FoldLeft(LAMBDA sum, slot : sum + Len(slot.bytes), 0, slots)

\* ChunkCache::get, and the digest on a hit.  A chunk that fails it is dropped
\* and refused; a miss lets the lock go and asks the bucket.
CacheGet(t) ==
    /\ threads[t].at = "get"
    /\ LET hit == SlotOf(handle.slots, Key(t))
           slot == handle.slots[CHOOSE n \in hit : TRUE]
           rest == Without(handle.slots, Key(t))
       IN  IF hit = {}
           THEN Become(t, [threads[t] EXCEPT !.at = "fetch"]) /\ UNCHANGED <<handle, disk>>
           ELSE IF slot.bytes = Expected(t)
           THEN /\ handle' = [handle EXCEPT !.slots = <<slot>> \o rest]
                /\ Become(t, Taken(t, slot.bytes))
                /\ UNCHANGED disk
           ELSE /\ handle' = [handle EXCEPT !.slots = rest, !.resident = @ - Len(slot.bytes)]
                /\ Fail(t)
    /\ UNCHANGED <<publisher, bucket, crew, faults, jobs>>

\* ChunkCache::insert: the newest first, the oldest out until the bytes fit.
Cached(key, bytes) ==
    LET old == SlotOf(handle.slots, key)
        slots == <<[key |-> key, bytes |-> bytes]>> \o Without(handle.slots, key)
        resident == handle.resident + Len(bytes)
                    - (IF old = {} THEN 0 ELSE Len(handle.slots[CHOOSE n \in old : TRUE].bytes))
        shed[n \in 0 .. Len(slots)] ==
            IF n = 0 THEN 0 ELSE shed[n - 1] + Len(slots[Len(slots) - n + 1].bytes)
        out == CHOOSE n \in 0 .. Len(slots) :
                  /\ resident - shed[n] <= CacheBudget
                  /\ \A m \in 0 .. n - 1 : resident - shed[m] > CacheBudget
    IN  [slots |-> SubSeq(slots, 1, Len(slots) - out), resident |-> resident - shed[out]]

\* A chunk that is larger than the whole budget is served uncached.
FetchChunk(t) ==
    /\ threads[t].at = "fetch"
    /\ LET object == handle.manifest.objects[FileOf(t).object]
           begin == threads[t].chunk * ChunkBytes
           bytes == GetRange(FileOf(t).object, begin, Smaller(begin + ChunkBytes, object.bytes))
           cache == Cached(Key(t), bytes)
       IN  IF bytes # Expected(t)
           THEN Fail(t) /\ UNCHANGED handle
           ELSE /\ handle' = IF Len(bytes) > CacheBudget THEN handle
                             ELSE [handle EXCEPT !.slots = cache.slots, !.resident = cache.resident]
                /\ Become(t, Taken(t, bytes))
                /\ UNCHANGED disk
    /\ UNCHANGED <<publisher, bucket, crew, faults, jobs>>

-----------------------------------------------------------------------------
(* A process opens the snapshot, and its threads read ranges and whole       *)
(* files.                                                                    *)

Runs(t, job) == threads[t].at = "idle" /\ crew[t] = job /\ jobs < MaxJobs
Begin == jobs' = jobs + 1

OpenSnapshot ==
    /\ handle.at \in {"closed", "refused"}
    /\ upload.at \in {"published", "refused"}
    /\ \E t \in DOMAIN threads : Runs(t, "query")
    /\ handle' = [Closed EXCEPT !.at = "gate"]
    /\ UNCHANGED <<publisher, bucket, crew, threads, disk, faults, jobs>>

ReadRange(t) ==
    /\ Runs(t, "query") /\ handle.at = "open" /\ Begin
    /\ \E i \in DOMAIN handle.manifest.files : \E to \in 0 .. handle.manifest.files[i].bytes :
       \E from \in 0 .. to : Become(t, FileRange("range", i, from, to))
    /\ UNCHANGED <<publisher, bucket, handle, crew, disk, faults>>

ReadPayload(t) ==
    /\ Runs(t, "query") /\ handle.at = "open" /\ Begin
    /\ \E i \in DOMAIN handle.manifest.files :
          /\ handle.manifest.files[i].path = "payloads/ab/abc.bin"
          /\ Become(t, FileRange("payload", i, 0, handle.manifest.files[i].bytes))
    /\ UNCHANGED <<publisher, bucket, handle, crew, disk, faults>>

Answer(t) ==
    /\ threads[t].at = "done" /\ threads[t].job # "restore"
    /\ IF threads[t].job = "payload" /\ threads[t].got # FileOf(t).digest
       THEN Fail(t)
       ELSE Become(t, [threads[t] EXCEPT !.at = "answer"]) /\ UNCHANGED disk
    /\ UNCHANGED <<publisher, bucket, handle, crew, faults, jobs>>

Return(t) ==
    /\ threads[t].at \in {"answer", "failed", "verified"}
    /\ Become(t, Idle)
    /\ UNCHANGED <<publisher, bucket, handle, crew, disk, faults, jobs>>

-----------------------------------------------------------------------------
(* restore.rs.                                                               *)

BeginRestore(t) ==
    /\ Runs(t, "restore") /\ Begin
    /\ target = None
    /\ upload.at \in {"published", "refused"}
    /\ Become(t, [at |-> "opening"])
    /\ handle' = [Closed EXCEPT !.at = "gate"]
    /\ UNCHANGED <<publisher, bucket, crew, disk, faults>>

Stage(t) ==
    /\ threads[t].at = "opening" /\ handle.at \in {"open", "refused"}
    /\ IF handle.at = "refused" THEN Fail(t)
       ELSE /\ Become(t, [at |-> "file", file |-> 1])
            /\ staging' = <<<<>>>>
            /\ UNCHANGED target
    /\ UNCHANGED <<publisher, bucket, handle, crew, faults, jobs>>

\* The next piece of the file, in steps of a chunk from the file's own start.
NextPiece(t) ==
    /\ threads[t].at = "file" /\ threads[t].file <= Len(handle.manifest.files)
    /\ LET have == Len(staging[threads[t].file]) IN
       /\ have < FileOf(t).bytes
       /\ Become(t, FileRange("restore", threads[t].file, have,
                              Smaller(have + ChunkBytes, FileOf(t).bytes)))
    /\ UNCHANGED <<publisher, bucket, handle, crew, disk, faults, jobs>>

KeepPiece(t) ==
    /\ threads[t].at = "done" /\ threads[t].job = "restore"
    /\ staging' = [staging EXCEPT ![threads[t].file] = @ \o threads[t].got]
    /\ Become(t, [at |-> "file", file |-> threads[t].file])
    /\ UNCHANGED <<publisher, bucket, handle, crew, target, faults, jobs>>

\* A file that is complete is digested, and synced.
FinishFile(t) ==
    /\ threads[t].at = "file" /\ threads[t].file <= Len(handle.manifest.files)
    /\ LET i == threads[t].file IN
       /\ Len(staging[i]) = FileOf(t).bytes
       /\ IF staging[i] # FileOf(t).digest THEN Fail(t)
          ELSE /\ Become(t, [at |-> "file", file |-> i + 1])
               /\ staging' = IF i < Len(handle.manifest.files) THEN Append(staging, <<>>)
                             ELSE staging
               /\ UNCHANGED target
    /\ UNCHANGED <<publisher, bucket, handle, crew, faults, jobs>>

Staged == {[path |-> handle.manifest.files[i].path, bytes |-> staging[i]] : i \in DOMAIN staging}

\* The staged set against the generation manifest that came with it.
VerifyStaged(t) ==
    /\ threads[t].at = "file" /\ threads[t].file > Len(handle.manifest.files)
    /\ LET generation == {f.bytes : f \in {g \in Staged : g.path = StatePath}}
       IN  IF \E bytes \in generation : Parse(bytes) # None /\ Parse(bytes) \subseteq Staged
           THEN Become(t, [at |-> "recheck"]) /\ UNCHANGED disk
           ELSE Fail(t)
    /\ UNCHANGED <<publisher, bucket, handle, crew, faults, jobs>>

\* The target is looked at once more, as late as it can be.
Recheck(t) ==
    /\ threads[t].at = "recheck"
    /\ IF target # None THEN Fail(t) ELSE Become(t, [at |-> "rename"]) /\ UNCHANGED disk
    /\ UNCHANGED <<publisher, bucket, handle, crew, faults, jobs>>

Rename(t) ==
    /\ threads[t].at = "rename"
    /\ target' = Staged
    /\ staging' = None
    /\ Become(t, Idle)
    /\ UNCHANGED <<publisher, bucket, handle, crew, faults, jobs>>

Die(t) ==
    /\ crew[t] = "restore" /\ threads[t].at # "idle"
    /\ Become(t, Idle)
    /\ staging' = None
    /\ handle' = Closed
    /\ UNCHANGED <<publisher, bucket, crew, target, faults, jobs>>

-----------------------------------------------------------------------------
(* admin.rs: verification, shallow (lengths) or deep (every byte).           *)

BeginVerify(t) ==
    /\ Runs(t, "verify") /\ Begin
    /\ listing # None /\ ~retired /\ Validate(listing)
    /\ \E deep \in BOOLEAN :
          Become(t, [at |-> "verify", deep |-> deep, object |-> 0, since |-> faults,
                     manifest |-> listing, clean |-> TRUE])
    /\ UNCHANGED <<publisher, bucket, handle, crew, disk, faults>>

\* First the state, then one object after another.
VerifyNext(t) ==
    /\ threads[t].at = "verify"
    /\ LET s == threads[t]
           m == s.manifest
           state == Archived(m, StatePath)
           right == IF s.object = 0
                    THEN state # None /\ CrosscheckGeneration(m, Parse(state))
                    ELSE /\ packs[s.object] # Gone
                         /\ Len(packs[s.object]) = m.objects[s.object].bytes
                         /\ s.deep => packs[s.object] = m.objects[s.object].digest
       IN  Become(t, [s EXCEPT !.clean = @ /\ right, !.object = @ + 1,
                               !.at = IF s.object = Len(m.objects) THEN "verified" ELSE "verify"])
    /\ UNCHANGED <<publisher, bucket, handle, crew, disk, faults, jobs>>

-----------------------------------------------------------------------------
(* What goes wrong around it.                                                *)

Fault ==
    /\ faults < MaxFaults
    /\ faults' = faults + 1
    /\ UNCHANGED <<pin, crew, jobs>>

RotObject ==
    /\ \E k \in DOMAIN packs :
          /\ packs[k] # Gone
          /\ \/ \E b \in DOMAIN packs[k] : packs' = [packs EXCEPT ![k][b] = Rot]
             \/ packs[k] # <<>> /\ packs' = [packs EXCEPT ![k] = Front(@)]
             \/ packs' = [packs EXCEPT ![k] = Gone]
    /\ UNCHANGED <<local, upload, retired, listing, handle, threads, disk>>

\* tamper_one: a byte of a chunk in memory.
RotCache ==
    /\ handle.slots # <<>>
    /\ handle' = [handle EXCEPT !.slots[1].bytes[1] = Rot]
    /\ UNCHANGED <<local, upload, bucket, threads, disk>>

\* A file of the pin changes under the publisher.
ChangeLocal ==
    /\ upload.at \notin {"published", "refused"}
    /\ \E i \in Files :
          \/ \E b \in DOMAIN local[i] : local' = [local EXCEPT ![i][b] = Rot]
          \/ local' = [local EXCEPT ![i] = Append(@, Rot)]
    /\ UNCHANGED <<upload, bucket, handle, threads, disk>>

\* A manifest that is well formed and not the one that was written: it has lost
\* its last file, with its pack, or two of its files have changed names.
DamageManifest ==
    /\ listing # None
    /\ LET n == Len(listing.files)
           alone == \A i \in 1 .. n - 1 : listing.files[i].object < listing.files[n].object
       IN  \/ alone /\ n > 1
              /\ listing' = [files |-> Front(listing.files), objects |-> Front(listing.objects)]
           \/ \E i \in 1 .. n : \E j \in 1 .. i - 1 :
                 listing' = [listing EXCEPT !.files[i].path = listing.files[j].path,
                                            !.files[j].path = listing.files[i].path]
    /\ UNCHANGED <<local, upload, retired, packs, handle, threads, disk>>

\* A deletion puts its tombstone ...
RetireSnapshot ==
    /\ listing # None /\ ~retired
    /\ retired' = TRUE
    /\ UNCHANGED <<local, upload, listing, packs, handle, threads, disk>>

\* Somebody makes the target directory; that nobody does between the second look
\* and the rename is the caller's to guarantee.
Intrude ==
    /\ target = None
    /\ \A t \in DOMAIN threads : threads[t].at # "rename"
    /\ target' = Foreign
    /\ UNCHANGED <<local, upload, bucket, handle, threads, staging>>

Faults == Fault /\ (RotObject \/ RotCache \/ ChangeLocal \/ DamageManifest \/ RetireSnapshot
                    \/ Intrude)

\* ... and removes the objects one by one.
SweepObject ==
    /\ retired
    /\ \E k \in DOMAIN packs : packs[k] # Gone /\ packs' = [packs EXCEPT ![k] = Gone]
    /\ UNCHANGED <<publisher, retired, listing, handle, crew, threads, disk, faults, jobs>>

-----------------------------------------------------------------------------

RemoteInit ==
    /\ pin \in PublishedPins
    /\ local = [i \in Files |-> pin.files[i].bytes]
    /\ upload = [at |-> "validate", files |-> <<>>, objects |-> <<>>]
    /\ retired = FALSE /\ listing = None /\ packs = <<>>
    /\ handle = Closed
    /\ crew \in Crews /\ threads = [t \in DOMAIN crew |-> Idle]
    /\ staging = None /\ target = None
    /\ faults = 0 /\ jobs = 0

PublishSteps == ValidatePin \/ UploadPack \/ ReadBack \/ CommitManifest
OpenSteps == OpenSnapshot \/ Gate \/ FetchManifest \/ CrosscheckState
ReadSteps(t) == CacheGet(t) \/ FetchChunk(t) \/ ReadRange(t) \/ ReadPayload(t) \/ Answer(t)
                \/ Return(t)
RestoreSteps(t) == BeginRestore(t) \/ Stage(t) \/ NextPiece(t) \/ KeepPiece(t) \/ FinishFile(t)
                   \/ VerifyStaged(t) \/ Recheck(t) \/ Rename(t) \/ Die(t)
VerifySteps(t) == BeginVerify(t) \/ VerifyNext(t)

RemoteNext ==
    \/ PublishSteps \/ OpenSteps \/ Faults \/ SweepObject
    \/ \E t \in DOMAIN threads : ReadSteps(t) \/ RestoreSteps(t) \/ VerifySteps(t)

-----------------------------------------------------------------------------

(* Whatever rots, an answer is exactly the bytes of the pin that were asked *)
(* for: every chunk is digested on every return (Fetch::chunk).             *)
AnswersAreThePin ==
    \A t \in DOMAIN threads : threads[t].at = "answer" =>
        threads[t].got = Slice(Content(FileOf(t).path), threads[t].from, threads[t].to)

(* A restore makes the whole pin or no target, and replaces nothing that    *)
(* somebody else put there (restore_snapshot).                              *)
RestoresAreThePin ==
    /\ target \in {None, Foreign, Named(pin.files) \cup
                                  {[path |-> StatePath, bytes |-> Content(StatePath)]}}
    /\ \A t \in DOMAIN threads : threads[t].at = "rename" => target = None

(* What nothing has happened to is published, read, verified and restored:  *)
(* the packs, the offsets and the chunk tables the publisher writes are the *)
(* ones its readers compute with (publish_pin, validate, file_range).       *)
NothingHealthyIsRefused ==
    faults = 0 =>
        /\ handle.at # "refused" \/ upload.at = "refused"
        /\ upload.at = "refused" => pin.pending \/ ~pin.declared \/ Strays # {}
        /\ \A t \in DOMAIN threads :
              /\ threads[t].at = "failed" => upload.at = "refused"
              /\ threads[t].at = "verified" => threads[t].clean

(* A deep verification that finds nothing has seen every byte be what the   *)
(* pin has, if nothing happened while it ran (verify).                      *)
CleanMeansWhole ==
    \A t \in DOMAIN threads :
        threads[t].at = "verified" /\ threads[t].clean /\ threads[t].deep
        /\ threads[t].since = faults /\ ~retired =>
            \A k \in DOMAIN packs : packs[k] = upload.objects[k].digest

(* The chunk cache accounts for what it holds, once, within its budget,     *)
(* whichever threads fetched the same chunk at once (ChunkCache).           *)
CacheAddsUp ==
    /\ handle.resident = Held(handle.slots)
    /\ handle.resident <= CacheBudget
    /\ \A m, n \in DOMAIN handle.slots : handle.slots[m].key = handle.slots[n].key => m = n

(* What is published comes back, or does not come at all.                   *)
ArchivesReadBack ==
    /\ AnswersAreThePin /\ RestoresAreThePin /\ NothingHealthyIsRefused /\ CleanMeansWhole
    /\ CacheAddsUp
=============================================================================

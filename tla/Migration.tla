------------------------------ MODULE Migration ------------------------------
(***************************************************************************)
(* Opening a directory of an older format: adoption of the generation      *)
(* layout (migrate_to_generations of src/src/lib.rs) and the migration of  *)
(* segments, payload blobs and pins to segment format 8                    *)
(* (src/src/migration.rs).                                                 *)
(*                                                                         *)
(* The directory is the live store, place 0, and its pins.  A place holds  *)
(* a file under each of a few names, and a manifest: the generation that   *)
(* CURRENT names, or the pin's own.  A manifest names the bytes it was     *)
(* written over, so a file matches its digest when it equals it.           *)
(*                                                                         *)
(* Renames show at once and are durable after the fsync of their           *)
(* directory.  The process may be killed between any two steps, the power  *)
(* may fail, and files rot while the store is down; an operator restores   *)
(* what a refusal names and opens the store again.                         *)
(***************************************************************************)
EXTENDS LegacyFormats, FiniteSets

CONSTANTS
    Stores,      \* the directories found: the files and the manifest of each place
    Beyond,      \* what the code does not stand: "silentrot", bytes of a format-6 record
                 \* that rot and still parse; "powerafterkill", a power loss after a kill;
                 \* "oldbackup", a file of the old format put back into a store declared new
    MaxFaults    \* bound: kills, power losses and rotten files

ASSUME MigrationAssumption ==
    /\ MaxFaults \in Nat
    /\ Beyond \subseteq {"silentrot", "powerafterkill", "oldbackup"}
    /\ \A s \in Stores : 0 \in DOMAIN s

\* What a manifest lists: the log is not part of a generation, and the sweep of
\* staging files keeps ingest temps out of the live one.
Listed(p) == IF p = 0 THEN {"segment", "blob", "notes"} ELSE {"segment", "blob", "temp", "notes"}

\* payloads/ has a shard directory of its own; the rest lies in the place itself.
OfShard == {"blob"}
OfPlace == (Names \cup {"manifest"}) \ OfShard

VARIABLES
    disk,       \* the file under each name of each place
    durable,    \* the file a power loss would leave there
    phase, place, \* the step Store::open is at, and the place it works on
    rewrote,    \* migrate_blob_tree rewrote a blob in this run
    named,      \* what the refusal of the last open names
    originals,  \* history: the directory as the older build left it
    rotten,     \* history: files that rotted and were not restored
    killed, faults

openingVars == <<disk, durable, phase, place, rewrote, named, originals, rotten, killed, faults>>

OpeningInit ==
    /\ disk \in Stores
    /\ durable = disk /\ originals = disk
    /\ phase = "down" /\ place = 0
    /\ rewrote = FALSE
    /\ named = {} /\ rotten = {}
    /\ killed = FALSE /\ faults = 0

AllPlaces == DOMAIN disk
Pins == AllPlaces \ {0}

ManifestAt(p) == disk[p].manifest
Put(p, name, file) == disk' = [disk EXCEPT ![p][name] = file]
Sync(p, names) ==
    durable' = [durable EXCEPT ![p] = [n \in DOMAIN disk[p] |->
                                          IF n \in names THEN disk[p][n] ELSE durable[p][n]]]

Proceed(step) == phase' = step /\ UNCHANGED <<place, rewrote, named>>
ProceedTo(step, p) == phase' = step /\ place' = p /\ rewrote' = FALSE /\ UNCHANGED named
Reject(items) == phase' = "refused" /\ named' = items /\ UNCHANGED <<place, rewrote>>

Faulty == <<originals, rotten, killed, faults>>
OnlyReads == UNCHANGED <<disk, durable, Faulty>>
OnlyRenames == UNCHANGED <<durable, Faulty>>
OnlySyncs == UNCHANGED <<disk, Faulty>>

----------------------------------------------------------------------------
(* Adoption.                                                               *)

\* Store::open reads CURRENT: a directory without one is adopted first.
Open ==
    /\ phase = "down"
    /\ ProceedTo(IF ManifestAt(0) = Absent THEN "adoptlog" ELSE "scan", 0)
    /\ OnlyReads

\* Mutant: the log is read with the old reader whatever it holds.
AdoptLog_Again ==
    /\ phase = "adoptlog"
    /\ LET wal == disk[0].wal IN
       IF wal # Absent /\ wal.format = 2 THEN Reject({}) /\ OnlyReads
       ELSE /\ IF wal = Absent THEN UNCHANGED disk ELSE Put(0, "wal", [wal EXCEPT !.format = 2])
            /\ Proceed("logged")
            /\ OnlyRenames

\* Unless a resumed adoption already did, the log is replayed with the old
\* reader and rewritten as one stamped frame, staged and renamed.
AdoptLog ==
    /\ phase = "adoptlog"
    /\ IF disk[0].wal # Absent /\ disk[0].wal.format = 1
       THEN Put(0, "wal", [disk[0].wal EXCEPT !.format = 2])
       ELSE UNCHANGED disk
    /\ Proceed("logged")
    /\ OnlyRenames

Logged == phase = "logged" /\ Sync(0, OfPlace) /\ Proceed("adopt") /\ OnlySyncs

\* A directory the migrator has nothing to do in is declared current.
NothingToMigrate ==
    /\ VersionOf(disk[0].segment) \in {Absent, V8}
    /\ disk[0].blob = Absent
    /\ Pins = {}

\* Mutant: digests of the prior generation are carried, as at any checkpoint.
Digested_Carried(p) ==
    [n \in {m \in Listed(p) : disk[p][m] # Absent} |->
        IF p = 0 /\ ManifestAt(0) # Absent /\ n \in DOMAIN ManifestAt(0).digests
        THEN ManifestAt(0).digests[n]
        ELSE disk[p][n]]

Digested(p) == [n \in {m \in Listed(p) : disk[p][m] # Absent} |-> disk[p][n]]

\* Generation one, manifest before CURRENT: the commit of the adoption.
AdoptGeneration ==
    /\ phase = "adopt"
    /\ Put(0, "manifest", ManifestOver(IF NothingToMigrate THEN V8 ELSE Absent, Digested(0)))
    /\ Proceed("adopted")
    /\ OnlyRenames

Adopted == phase = "adopted" /\ Sync(0, OfPlace) /\ Proceed("scan") /\ OnlySyncs

----------------------------------------------------------------------------
(* The passes of run_at_open.                                              *)

AnyLegacy == \E p \in AllPlaces : IsLegacy(disk[p].segment)
Unreadable == disk[0].segment # Absent /\ VersionOf(disk[0].segment) \notin {V6, V7, V8}

\* The trigger: a version word anywhere, or a store not declared current.  A live
\* segment of no known format is refused, here beside legacy segments and by
\* load_segments without.
Scan ==
    /\ phase = "scan"
    /\ IF Unreadable THEN Reject({<<0, "segment">>})
       ELSE IF ~AnyLegacy /\ ManifestAt(0).declares = V8 THEN Proceed("serving")
       ELSE ProceedTo("segments", 0)
    /\ OnlyReads

\* migrate_segment: decoded in full or refused, rewritten onto its name.  A pin
\* also refuses a segment of no known format.
MigrateSegment ==
    /\ phase = "segments"
    /\ LET file == disk[place].segment IN
       IF IsLegacy(file) /\ Decoded(file) # Absent
       THEN Put(place, "segment", Converted(file)) /\ Proceed("sync") /\ OnlyRenames
       ELSE /\ IF IsLegacy(file) \/ VersionOf(file) = Foreign
               THEN Reject({<<place, "segment">>})
               ELSE Proceed("sync")
            /\ OnlyReads

SyncSegments == phase = "sync" /\ Sync(place, OfPlace) /\ Proceed("blobs") /\ OnlySyncs

AfterBlobs == IF place = 0 THEN "next" ELSE "manifest"

MigrateBlobs ==
    /\ phase = "blobs"
    /\ LET blob == disk[place].blob IN
       IF IsRaw(blob)
       THEN /\ Put(place, "blob", Blob(V8))
            /\ phase' = "shard" /\ rewrote' = TRUE /\ UNCHANGED <<place, named>>
            /\ OnlyRenames
       ELSE /\ IF IsNeither(blob) THEN Reject({<<place, "blob">>}) ELSE Proceed("shard")
            /\ OnlyReads

SyncShard ==
    /\ phase = "shard"
    /\ IF rewrote THEN Sync(place, OfShard) ELSE UNCHANGED durable
    /\ Proceed(AfterBlobs)
    /\ OnlySyncs

\* What the pin's manifest lists and whose bytes moved, the append-only logs
\* apart: they are not rewritten, so their digests are carried.
Moved(p) == {n \in DOMAIN ManifestAt(p).digests \ {"notes"} : ManifestAt(p).digests[n] # disk[p][n]}

\* Mutant: the version word is taken for the whole segment.
Unproven_ByWord(p) == {n \in Moved(p) : n = "temp"}

\* A new digest is accepted for a segment that proves all of its bytes and for a
\* blob, which the pass before has proved; for nothing else.
Unproven(p) == {n \in Moved(p) : n = "temp" \/ (n = "segment" /\ ~Validates(disk[p].segment))}

\* migrate_pin, after its passes: the digests follow the files.
PinManifest ==
    /\ phase = "manifest"
    /\ IF Unproven(place) # {}
       THEN Reject({<<place, n>> : n \in Unproven(place)}) /\ OnlyReads
       ELSE /\ IF ManifestAt(place).declares # V8 \/ Moved(place) # {}
               THEN Put(place, "manifest",
                        ManifestOver(V8, [n \in DOMAIN ManifestAt(place).digests |->
                                         IF n \in Moved(place) THEN disk[place][n]
                                         ELSE ManifestAt(place).digests[n]]))
               ELSE UNCHANGED disk
            /\ Proceed("pinned")
            /\ OnlyRenames

Pinned == phase = "pinned" /\ Sync(place, OfPlace) /\ Proceed("next") /\ OnlySyncs

NextPlace ==
    /\ phase = "next"
    /\ IF place + 1 \in Pins THEN ProceedTo("segments", place + 1) ELSE ProceedTo("complete", 0)
    /\ OnlyReads

\* complete: every file is hashed again, whatever the prior generation said, and
\* the next generation is declared current.
Complete ==
    /\ phase = "complete"
    /\ Put(0, "manifest", ManifestOver(V8, Digested(0)))
    /\ Proceed("published")
    /\ OnlyRenames

Published == phase = "published" /\ Sync(0, OfPlace) /\ Proceed("serving") /\ OnlySyncs

----------------------------------------------------------------------------
(* Faults, and the operator.                                               *)

Kill ==
    /\ faults < MaxFaults
    /\ phase \notin {"down", "refused"}
    /\ phase' = "down" /\ killed' = TRUE /\ faults' = faults + 1
    /\ UNCHANGED <<disk, durable, place, rewrote, named, originals, rotten>>

\* Each rename that no fsync of its directory followed is kept or reverted.
LosePower ==
    /\ faults < MaxFaults
    /\ phase \notin {"down", "refused"}
    /\ killed => "powerafterkill" \in Beyond
    /\ \E kept \in SUBSET {slot \in AllPlaces \X (Names \cup {"manifest"}) :
                               disk[slot[1]][slot[2]] # durable[slot[1]][slot[2]]} :
           disk' = [p \in AllPlaces |-> [n \in DOMAIN disk[p] |->
                       IF <<p, n>> \in kept THEN disk[p][n] ELSE durable[p][n]]]
    /\ durable' = disk'
    /\ phase' = "down" /\ faults' = faults + 1
    /\ UNCHANGED <<place, rewrote, named, originals, rotten, killed>>

\* What rot makes of a segment: bytes that some check covers, the version word,
\* the unchecked index or directory of an old format, the text of an old record.
RottenSegments(file) ==
    {[file EXCEPT !.sound = FALSE], [file EXCEPT !.version = Foreign]}
    \cup (IF IsLegacy(file) THEN {[file EXCEPT !.index = Front(@)]} ELSE {})
    \cup (IF file.version = V7 THEN {[file EXCEPT !.blocks[2].start = @ + 1]} ELSE {})
    \cup (IF "silentrot" \in Beyond /\ file.version = V6
          THEN {[file EXCEPT !.stream[2].time = @ + 1]} ELSE {})

Rot(p, n) ==
    /\ faults < MaxFaults
    /\ phase = "down"
    /\ disk[p][n] # Absent
    /\ \E file \in IF n = "segment" THEN RottenSegments(disk[p][n])
                   ELSE {[disk[p][n] EXCEPT !.sound = FALSE]} :
           /\ Put(p, n, file)
           /\ durable' = [durable EXCEPT ![p][n] = file]
    /\ rotten' = rotten \cup {<<p, n>>}
    /\ faults' = faults + 1
    /\ UNCHANGED <<phase, place, rewrote, named, originals, killed>>

\* What the migration makes of a file.
Current(p, n) ==
    LET file == originals[p][n] IN
    IF n = "segment" /\ IsLegacy(file) THEN Converted(file)
    ELSE IF n = "blob" /\ IsRaw(file) THEN Blob(V8)
    ELSE file

DeclaredCurrent == ManifestAt(0) # Absent /\ ManifestAt(0).declares = V8

\* The operator puts back what the refusal names, from a backup of the format that
\* the store declares, and will open the store again.
Repair ==
    /\ phase = "refused"
    /\ disk' = [p \in AllPlaces |-> [n \in DOMAIN disk[p] |->
                   IF <<p, n>> \notin named THEN disk[p][n]
                   ELSE IF DeclaredCurrent /\ "oldbackup" \notin Beyond THEN Current(p, n)
                   ELSE originals[p][n]]]
    /\ durable' = disk'
    /\ rotten' = rotten \ named
    /\ named' = {}
    /\ phase' = "down"
    /\ UNCHANGED <<place, rewrote, originals, killed, faults>>

OpeningStep ==
    \/ Open \/ AdoptLog \/ Logged \/ AdoptGeneration \/ Adopted
    \/ Scan \/ MigrateSegment \/ SyncSegments \/ MigrateBlobs \/ SyncShard
    \/ PinManifest \/ Pinned \/ NextPlace \/ Complete \/ Published
    \/ Repair

OpeningNext ==
    \/ OpeningStep
    \/ Kill \/ LosePower
    \/ \E p \in AllPlaces, n \in Names \ {"wal"} : Rot(p, n)

OpeningSpec == OpeningInit /\ [][OpeningNext]_openingVars

\* The opening thread runs on, and the operator restores and opens again.
FairOpening == OpeningSpec /\ WF_openingVars(OpeningStep)

----------------------------------------------------------------------------
(* What the older builds leave, as the theorem about the opening assumes.  *)

Slots == Names \cup {"manifest"}
SegmentFields == {"version", "stream", "index", "blocks", "sound"}
Blobs == [version : {V6, V8}, sound : BOOLEAN]

\* What stands for no file is neither a version word nor a blob.
AbsentIsNoFile == Absent \notin {V6, V7} /\ Absent \notin Blobs

\* Its segments decode, its blobs are raw or framed, and the manifests of its pins are over
\* the files that are there.
StoresAreWhole ==
    \A s \in Stores : \A p \in DOMAIN s :
        /\ DOMAIN s[p] = Slots
        /\ s[p].segment # Absent =>
              /\ SegmentFields \subseteq DOMAIN s[p].segment
              /\ IsLegacy(s[p].segment) => Decoded(s[p].segment) = s[p].segment.stream
        /\ s[p].blob \in {Absent, Blob(V6), Blob(V8)}
        /\ p # 0 => \A n \in DOMAIN s[p].manifest.digests :
                        n \in Listed(p) /\ s[p].manifest.digests[n] = s[p][n]

\* And bytes that no check of format 6 covers do not rot: the migration can only convert
\* what it reads.
OldStoresAreWhole == AbsentIsNoFile /\ StoresAreWhole /\ "silentrot" \notin Beyond

----------------------------------------------------------------------------
(* Properties.                                                             *)

Rightful(p, n) == {originals[p][n], Current(p, n)}

\* No bytes but those the older build left, or their faithful conversion, ever
\* get a digest in a pin's manifest or a valid segment around them: not of a
\* segment whose index lost a record, nor of files that rotted before, between or
\* after the steps of a migration (migration.rs:655-745, 837-895, 1143-1198).
NothingLaundered ==
    /\ \A p \in Pins : \A n \in DOMAIN ManifestAt(p).digests :
           ManifestAt(p).digests[n] \in Rightful(p, n)
    /\ \A p \in AllPlaces : Validates(disk[p].segment) =>
           disk[p].segment \in Rightful(p, "segment")

\* A store that serves is in the current format throughout, and the live
\* generation and every pin verify, whatever stopped the earlier opens
\* (migration.rs:90-101, 743-759; lib.rs:8365-8430).
ServedStoreVerifies ==
    phase = "serving" =>
        /\ disk[0].wal # Absent => disk[0].wal.format = 2
        /\ \A p \in AllPlaces : \A n \in DOMAIN ManifestAt(p).digests : <<p, n>> \notin rotten =>
               /\ disk[p][n] = ManifestAt(p).digests[n]
               /\ n = "segment" => Validates(disk[p][n])
               /\ n = "blob" => IsFramed(disk[p][n])

\* However often it is killed or refuses, an opening store serves in the end: no
\* step leaves a directory the next open cannot finish (migration.rs:90-101).
MigrationEnds == phase = "down" ~> [](phase = "serving")
=============================================================================

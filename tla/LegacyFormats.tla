--------------------------- MODULE LegacyFormats ----------------------------
(***************************************************************************)
(* What src/src/migration.rs makes of one file: the frozen decoders of     *)
(* segment formats 6 and 7, the conversion into format 8, and the rule for *)
(* payload blobs.                                                          *)
(*                                                                         *)
(* A segment is its version word, the stream of its records, the index of  *)
(* record offsets that neither old format checksums, the directory of its  *)
(* compression blocks (format 7), and whether its other bytes hold: header *)
(* and section layout, the framing of each record (6), the checksum of     *)
(* each block (7), of every section (8).  A record is its length and its   *)
(* timestamp.  A blob is raw (6), framed (7 and 8), or neither.            *)
(***************************************************************************)
EXTENDS Naturals, Sequences, SequencesExt

CONSTANT Absent   \* no file under a name; the answer of a refused decoding

Foreign == 0    \* a version word of no known format
V6 == 6
V7 == 7
V8 == 8

\* Where record n of a stream starts; the stream ends where the next would.
StartOf(stream, n) ==
    FoldSeq(LAMBDA record, sum : record.len + sum, 0, SubSeq(stream, 1, n - 1))
Extent(stream) == StartOf(stream, Len(stream) + 1)

\* A segment as its writer leaves it, one block to a record.
Segment(version, stream) ==
    [version |-> version,
     stream  |-> stream,
     index   |-> [n \in 1 .. Len(stream) |-> StartOf(stream, n)],
     blocks  |-> [n \in 1 .. Len(stream) |->
                     [start |-> StartOf(stream, n), fence |-> stream[n].time]],
     sound   |-> TRUE]

\* segment_version: ten bytes of the file, whatever follows them.
VersionOf(file) == IF file = Absent THEN Absent ELSE file.version
IsLegacy(file) == VersionOf(file) \in {V6, V7}

Increases(seq) == \A n \in 2 .. Len(seq) : seq[n - 1] < seq[n]

\* decode_offsets: strictly increasing inside the region, empty only with it.
IndexIsOrdered(file) ==
    /\ Increases(file.index)
    /\ \A n \in DOMAIN file.index : file.index[n] < Extent(file.stream)
    /\ file.index = <<>> => file.stream = <<>>

\* decode_directory and inflate_records of format 7: blocks cover the stream from
\* its first byte in order, and the fence of each is its first record's time.
RecordAt(stream, offset) ==
    {stream[n] : n \in {i \in DOMAIN stream : StartOf(stream, i) = offset}}
DirectoryHolds(file) ==
    LET blocks == file.blocks IN
    /\ (blocks = <<>>) = (file.stream = <<>>)
    /\ blocks # <<>> => blocks[1].start = 0
    /\ \A n \in DOMAIN blocks : blocks[n].start < Extent(file.stream)
    /\ \A n \in 2 .. Len(blocks) : /\ blocks[n - 1].start < blocks[n].start
                                   /\ blocks[n - 1].fence <= blocks[n].fence
    /\ \A n \in DOMAIN blocks : \A record \in RecordAt(file.stream, blocks[n].start) :
           record.time = blocks[n].fence

\* Mutant: the records the index lists, as a reader that trusts it finds them.
Decoded_ByIndex(file) ==
    IF file.sound /\ IndexIsOrdered(file) /\ (file.version = V7 => DirectoryHolds(file))
    THEN SelectSeq(file.stream,
                   LAMBDA record : \E n \in DOMAIN file.index :
                                       record \in RecordAt(file.stream, file.index[n]))
    ELSE Absent

\* decode_segment of both formats: the walk over the stream must meet the index
\* entry for entry and end with it; in format 7 no record may span two blocks.
Decoded(file) ==
    IF /\ file.sound
       /\ IndexIsOrdered(file)
       /\ file.version = V7 => DirectoryHolds(file)
       /\ \A n \in DOMAIN file.stream :
              n \in DOMAIN file.index /\ file.index[n] = StartOf(file.stream, n)
       /\ Len(file.index) = Len(file.stream)
       /\ file.version = V7 =>
              \A n \in DOMAIN file.blocks : file.blocks[n].start \in ToSet(file.index)
    THEN file.stream
    ELSE Absent

\* migrate_segment derives every record again from its payload and encodes anew.
Converted(file) == Segment(V8, Decoded(file))

\* The eager open of the current format, which proves every byte of a file.
Validates(file) == file # Absent /\ file.version = V8 /\ file.sound

\* The blob rule: a framed blob that decodes to its name is left alone, bytes
\* that hash to it as they are get framed, anything else is refused.
Blob(version) == [version |-> version, sound |-> TRUE]
IsFramed(blob) == blob # Absent /\ blob.sound /\ blob.version = V8
IsRaw(blob) == blob # Absent /\ blob.sound /\ blob.version = V6
IsNeither(blob) == blob # Absent /\ ~blob.sound

\* The names under which a store or a pin keeps a file of each kind, and a manifest
\* over files: the format it declares and what it says each file is.
Names == {"segment", "blob", "temp", "notes", "wal"}
ManifestOver(declares, files) == [declares |-> declares, digests |-> files]
=============================================================================

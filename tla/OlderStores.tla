----------------------------- MODULE OlderStores -----------------------------
(* What an opening may find: a new directory, one before the generations,  *)
(* stores of format 6 and of format 7 with a pin, one whose migration from *)
(* 6 to 7 was cut short, and one of format 8.                              *)
EXTENDS LegacyFormats, TLC

Stream == <<[len |-> 2, time |-> 1], [len |-> 1, time |-> 2]>>
Sound == [sound |-> TRUE]
Wal(format) == [format |-> format]

BlobOf(version) == Blob(IF version = V6 THEN V6 ELSE V8)
DeclaredBy(version) == IF version = V6 THEN Absent ELSE version

Live(version, declared) ==
    LET files == [segment |-> Segment(version, Stream), blob |-> BlobOf(version), notes |-> Sound]
    IN  files @@ [temp |-> Absent, wal |-> Wal(2), manifest |-> ManifestOver(declared, files)]

Pin(version) ==
    LET files == [segment |-> Segment(version, Stream), blob |-> BlobOf(version), temp |-> Sound,
                  notes |-> Sound]
    IN  files @@ [wal |-> Absent, manifest |-> ManifestOver(DeclaredBy(version), files)]

Nothing == [n \in Names \cup {"manifest"} |-> Absent]

MCStores ==
    {(0 :> Nothing),
     (0 :> [Nothing EXCEPT !.segment = Segment(V6, Stream), !.blob = Blob(V6), !.wal = Wal(1)]),
     (0 :> Live(V6, Absent)) @@ (1 :> Pin(V6)),
     (0 :> Live(V7, V7)) @@ (1 :> Pin(V7)),
     (0 :> Live(V7, Absent)) @@ (1 :> Pin(V6)),
     (0 :> Live(V8, V8)) @@ (1 :> Pin(V8))}
=============================================================================

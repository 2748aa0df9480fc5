----------------------------- MODULE MCArchive ------------------------------
(* Archive and RemoteReads for TLC.  Archive: two clients of one store, one *)
(* without a configured store, and, in the other assignment, two pins under *)
(* one id.  RemoteReads: six pins, and a process that queries with two     *)
(* threads, one that restores, and one that verifies.                       *)
EXTENDS Archive, TLC

CONSTANTS c1, c2, c3, s1, s2, pinA, pinB, q1, q2, Rot, Gone, Foreign,
          ChunkBytes, PackTarget, PartBytes, CacheBudget, MaxFaults, MaxJobs

VARIABLES part, pin, local, upload, retired, listing, packs, handle, crew, threads, staging,
          target, faults, jobs

MCIdentity == (c1 :> s1) @@ (c2 :> s2) @@ (c3 :> Unconfigured)
OnePin == [c \in Clients |-> pinA]
TwoPins == [c \in Clients |-> IF c = c1 THEN pinA ELSE pinB]

File(path, bytes) == [path |-> path, bytes |-> [n \in 1 .. bytes |-> <<path, n>>]]
Pin(files) == [files |-> files, directory |-> {files[i].path : i \in DOMAIN files},
               pending |-> FALSE, declared |-> TRUE]

\* A pack of an empty file alone, a file of several parts, a range over a chunk
\* border, an empty file at the end of a pack, and pins that may not leave.
MCPins == {
    Pin(<<File("annotations.jsonl", 1), File("segment-1.seg", 3), File("state-manifest.json", 1)>>),
    Pin(<<File("annotations.jsonl", 0), File("payloads/ab/abc.bin", 5), File("segment-1.seg", 2),
          File("state-manifest.json", 1), File("tombstones.jsonl", 0)>>),
    Pin(<<File("segment-1.seg", 1), File("segment-2.seg", 2), File("state-manifest.json", 2)>>),
    [Pin(<<File("state-manifest.json", 1), File("tombstones.jsonl", 1)>>) EXCEPT !.pending = TRUE],
    [Pin(<<File("state-manifest.json", 1)>>) EXCEPT !.declared = FALSE],
    [Pin(<<File("state-manifest.json", 1)>>) EXCEPT !.directory = @ \cup {"segment-1.seg"}]}

MCCrews == {(q1 :> "query") @@ (q2 :> "query"), q1 :> "restore", q1 :> "verify"}

Remote == INSTANCE RemoteReads WITH PublishedPins <- MCPins, Crews <- MCCrews

remoteVars == <<pin, local, upload, retired, listing, packs, handle, crew, threads, staging,
                target, faults, jobs>>

MCInit ==
    /\ Init /\ Remote!RemoteInit
    /\ \/ /\ part = "archive"
          /\ pin = CHOOSE p \in MCPins : TRUE
          /\ crew = CHOOSE c \in MCCrews : TRUE
       \/ part = "remote"

MCNext ==
    /\ \/ part = "archive" /\ Next /\ UNCHANGED remoteVars
       \/ part = "remote" /\ Remote!RemoteNext /\ UNCHANGED vars
    /\ UNCHANGED part

MCSpec == MCInit /\ [][MCNext]_<<vars, remoteVars, part>>

\* What is published comes back, or does not come at all (RemoteReads.tla;
\* publish_pin, open_snapshot, restore_snapshot).
ArchivesReadBack == Remote!ArchivesReadBack
=============================================================================

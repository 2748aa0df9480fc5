# Verifying Traza

TLA+ models of Traza (a trace store written in Rust), from its log to its routes, the
TLC configurations that check them on small instances, and TLAPS proofs of what
matters most for every instance. Paths are relative to the repository's `src/`
directory as seen from this one: `lib.rs` is `src/src/lib.rs`.

1. [The system](#1-the-system) – parts, state, operations, hard behaviours
2. [The modules](#2-the-modules) – which models what, and how it maps to the code
3. [The runs](#3-the-runs) – what each shows, bounds, fairness
4. [The proofs](#4-the-proofs)
5. [Divergences](#5-divergences) – where the code and what it says of itself part
6. [What is not modelled](#6-what-is-not-modelled) and [the plan](#7-the-plan)

`PROJECT.json` indexes all of this: components, runs, the definition-to-source
map, the mutants each property is tested against, hazards and theorems.

## 1. The system

Traza ingests spans over HTTP, keeps them in a write buffer backed by a
write-ahead log, seals the buffer into immutable segment files, merges those
files, expires and erases what it must, and serves queries over buffer and
segments. One process owns a data directory. Inside it run one thread per HTTP
request, and one maintenance thread.

Lock order (`lib.rs`): erasure gate, maintenance lock, `sealing` permit, writer,
segments; the rollup cache is a leaf. Long work (segment writes, fsyncs) is done
with neither the writer nor the segments lock held, and that is where nearly all
the hazards below come from.

### Write-ahead log (`wal.rs`)
- *State.* A file of checksummed frames, each stamped `(epoch, sequence)`; in
  memory `written_lsn`, `durable_lsn`, `syncing` behind one mutex and a condition
  variable.
- *Operations.* `append` (under the writer lock), `commit` (group commit: one
  thread fsyncs with no lock held, the rest wait and are covered by it; with a
  commit window the syncer first sleeps), `reset` and `rewrite` (reclaim after a
  seal, retention, erasure or a checkpoint), `advance_epoch`, `position`, `open`
  (replay, truncation of a torn tail, refusal of interior damage).
- *Hard.* The file may be replaced under a syncer; a sync may fail with waiters
  asleep; a write may be short; a stamp must never fall behind a recorded fold.
- *Correct when.* What was acknowledged survives; stamps follow file order across
  rewrites and restarts; nobody waits for a sync that nobody performs.

### Engine: admission, seals, checkpoints, recovery (`lib.rs`, `generation.rs`)
- *State.* Buffer of span handles, segment list, next segment id, live generation;
  on disk the segments, manifests and `CURRENT`.
- *Operations.* `admit` in the modes `wal`, `flushed` and `buffered`; `seal`
  (drain, write, publish, reconcile, reclaim the log); `checkpoint` (seal until
  empty, fold point, manifest, `CURRENT`, log rewrite, sweep); `maintain_buffer`;
  `open` (replay what no generation folded over the segments).
- *Hard.* Batches are admitted while a seal writes; a key may be re-ingested while
  an older version of it is in flight; segment ids are recency but are claimed
  long before the file exists; `CURRENT` and the log are two files.
- *Correct when.* A read always returns the newest version of each key; what was
  acknowledged survives; ingest and checkpoint end.

### Engine: compaction and retention (`lib.rs`, `analytics.rs`)
- *Operations.* The tiered merge (`tail_run_to_merge`, `merge_chunks`), the shadow
  merge (`shadowed_tail_suffix`), the supersede journal and its recovery,
  `expire_by_policy` over log, buffer and segments.
- *Hard.* Seals publish beside a merge; a crash anywhere between outputs, journal
  and unlinks; a power loss takes directory entries back one by one; retention
  changes the names recovery decides by.
- *Correct when.* No merge changes an answer; what retention removed stays gone;
  nothing a restart would load or act on is left behind.

### Erasure (`erasure.rs`, `lib.rs`)
- *State.* An append-only tombstone log of intents, notes and settles; the mask
  (the pending subjects) consulted by ingest and reads; the admission gate, a
  read-write lock.
- *Operations.* `erase`: under the gate's write half resolve and `begin`; then note
  references (tenants), purge buffer, log and segments, delete payload files no
  live span references, veil the live tail, purge again, checkpoint, `settle`.
  `resume_erasures` runs the same steps for whatever is pending. `verify_erasure`
  walks the domains and issues a receipt.
- *Hard.* Ingest straddles the gate; a seal in flight holds covered spans; any step
  may fail or be the last one before a crash; the maintenance tick may run the same
  erasure as a request handler; the receipt is a walk over a store that goes on.
- *Correct when.* After the settle nothing covered is left in any domain, nobody
  else lost anything, later data under the same identifiers is kept, a pending
  erasure settles, and a receipt says what the store held.

### Reads (`lib.rs`, `segment.rs`)
- *State.* None of their own: the buffer, the segment list and the mask, held or
  pinned (`snapshot`) for one answer.
- *Operations.* `query`, `query_after` (a page behind a cursor), the limited merge of
  one lazily decoded head per source, the unlimited scan, `fold_view`, the trace
  lookup, the session union, the paged listing and export of the server.
- *Hard.* A version is superseded by any later segment, pruned ones included, whether
  or not the newer version matches; pages of one read straddle seals, merges and
  erasures; ties on the start time at a page boundary.
- *Correct when.* Every path answers with the newest version of each key that matches,
  in one order; an export is one instant; a listing misses nothing that stood still.

### Analytics rollups (`analytics.rs`, `rollup_file.rs`)
- *State.* A rollup per segment in a sidecar file and in a cache, both found by path
  and believed by a binding (bytes, count, time range, pricing).
- *Hard.* A purge rewrites a segment under its own name, merges retire names, a fold
  pins segments and reads rollups one after the other, heals missing sidecars.
- *Correct when.* An aggregation counts each span once, in its visible version.

### Live tail (`tail.rs`) and HTTP server (`bin/traza-server.rs`)
- *State.* A ring of recent spans with sequence numbers of one process, its veils, a
  condition variable; connection slots, refusal threads, one buffer per connection.
- *Operations.* Publish, evict by count and bytes, veil, prune, read with a cursor,
  wait with a heartbeat; accept, refuse, frame requests, judge before the body is
  read, serve, stream the tail until a write fails, release the slot.
- *Hard.* Signals come after the mutex; a reader may be overtaken or come from an
  earlier process; pipelined requests share a buffer; handlers panic; a tail's client
  leaves in silence.
- *Correct when.* No span is skipped silently and none is served after its erasure;
  no body is read as a request; no subscriber sleeps on news; every slot comes back.

### Credentials, routes and tools (`auth.rs`, `bin/traza-server.rs`, `mcp.rs`)
- *State.* None of their own. A credential has a scope (read, write, admin) and may be
  bound to a tenant; the store behind it is shared.
- *Operations.* Some forty routes and tools, each of which binds, narrows, stamps or
  compares the tenant in its own way; `promote_failures` reads in one call and writes
  in others.
- *Hard.* Records are reached by names that do not carry a tenant: trace names, dataset
  ids, content hashes, the scores of an experiment.
- *Correct when.* A bound credential gets the answers that its own tenant's part of the
  store would give, and changes no other part.

### Payload files (`payload.rs`)
- *State.* Content-addressed files, and a registry of recent touches in memory.
- *Operations.* Offload at ingest, promotion into dataset examples, deletion by an
  erasure, the retention sweep from references gathered in three places.
- *Hard.* The sweep decides from what it gathered earlier, while spans move from the
  buffer to segments and files are re-used.
- *Correct when.* No visible span or example refers to a missing file that nobody was
  told to delete; a file nobody refers to goes.

### Directory lock, generations, pins, restore (`lib.rs`, `generation.rs`)
- *State.* `LOCK` with a pid, the reclamation sentinel; manifests, `CURRENT`, pins
  (hard links and copies), a staged restore.
- *Hard.* Several processes find the same dead owner and any of them may die at any
  step; what a pin links is still written to; an install is several renames.
- *Correct when.* One process owns the directory; a pin never changes; an open store
  is of one lineage; no death wedges the directory.

### Annotations and evaluations (`annotations.rs`, `evals.rs`)
- *State.* Two JSONL logs, each with its replayed state behind one mutex.
- *Operations.* Datasets, versions over content-addressed bodies, experiments, runs,
  tombstones, scores, notes; ageing; the purge of an erased tenant by rewriting.
- *Hard.* An append may be cut, reach the file but fail its sync, or be followed by a
  purge that drops what it relied on; ids are computed from what survives.
- *Correct when.* Answered records survive, nothing dangles in any file a crash
  leaves, ids are fresh, an erased tenant is gone.

### Object storage (`object_storage/`)
- *State.* Per snapshot id an intent marker, packs, a manifest, a permanent tombstone;
  in a reader a cache of verified chunks, shared by its queries.
- *Operations.* `publish_pin`, `delete`, `cleanup`, by clients that may die, give up on
  a request that lands later, or be of another store; `open`, ranged reads, `verify`,
  `restore_snapshot`.
- *Hard.* Requests land late; files are cut over packs and chunks, and read back in
  ranges while objects rot, go, or have their id retired; a restore stages beside a
  directory that must come to be whole or not at all.
- *Correct when.* What a reader can open is whole; a published snapshot stays until
  its owner deletes it; a retired id keeps its owner and is never used again; a pin
  comes back exactly, or is refused for a fault that happened.

### Segment files (`segment.rs`, `content.rs`)
- *State.* A file of compressed blocks, a directory of them, indexes of traces,
  attributes, services and tenants, a matrix of content words; a small cache of blocks.
- *Operations.* Encode, two ways to open, probes of each index, reads in a window, the
  choice of the cheapest index (`select_probe`).
- *Hard.* An index may hold more, or other values, than the predicate compares: digests
  collide, types are coerced, words share bits; windows end inside a block; any part may
  have rotted.
- *Correct when.* A query answers what a scan of the spans would, or says it is damaged.

### Format migration (`migration.rs`, adoption in `lib.rs`)
- *State.* A directory in any of three segment formats, with framed or raw payload
  blobs, with or without the generation layout, and its pins.
- *Operations.* Adoption, the passes over segments and blobs, new digests for the pins,
  the checkpoint that completes it; all of it at `open`, before anything is served.
- *Hard.* Old formats carry few checksums; a kill or a loss of power between any two
  steps; the digests taken at the end vouch for whatever bytes are there then.
- *Correct when.* Damaged bytes never get a valid digest; a store that serves verifies;
  with the damage repaired, opening again ends in a store that serves.

### The rest
Ingest decoding and attribute conventions, pricing and insights, the MCP protocol, UI,
metrics, benchmarks, the demo generator: see section 6.

## 2. The modules

| Module | Models | Run |
|---|---|---|
| `DurableLog` | abstract: what the log promises its callers | refined by `Wal` |
| `Wal` | `wal.rs`, every critical section | `wal` |
| `WalProof` | proofs about `Wal`; it implements `DurableLog` | section 4 |
| `Versions` | rows of span versions: newest wins, buffer over segments | used by the next three |
| `SpanStore` | abstract: what a store promises its clients | refined by `Store` |
| `Store`, `MCStore` | admission, seals, checkpoints, crashes, `open` | `store`, `store_faults` |
| `StoreProof` | a replay of `Store` that discards by stamp loses nothing; what is acknowledged survives; `Store` implements `SpanStore` | section 4 |
| `Tiering` | the pure functions that choose what a merge takes | used by `Compaction` |
| `Compaction`, `MCCompaction` | merges, journal, retention, recovery | `compaction` |
| `CompactionProof` | reads stay newest, the expired stays gone, nothing is left behind, whatever is merged | section 4 |
| `Erasure` | erasure, gate, veil, payload deletion, resume | `erasure` |
| `ErasureProof` | an erasure takes all of its subject, nothing else, and the payload files it owes | section 4 |
| `DirectoryLock` | the lock file, its sentinel and its reclaimers | through `Directory` |
| `Directory` | a store under that lock: ingest, erasure, checkpoints, pins, a restore over it | `directory` |
| `DirectoryProof` | one owner, pins that stay honest, restores that never blend; an opening that launders no damage (`Migration`) | section 4 |
| `SideFilesProof` | the files beside the segments: no visible reference of `Payloads` loses its file; ids of `Evals` stay fresh, answers survive, nothing dangles, the erased stay erased | section 4 |
| `Archive` | publish, delete and cleanup of one snapshot id in a bucket | `archive` |
| `CopiesProof` | snapshots that stay whole, tombstones that keep the owner; aggregations that count each span once, scans that answer the newest (`Rollups`, `Reading`) | section 4 |
| `RemoteReads` | packs, chunk tables, manifests; ranged reads, verification and restore | `archive` (`MCArchive`) |
| `TailRing` | the ring, its veils, reads and signals | through `Serving` |
| `Serving` | connections, requests, tails over `TailRing` | `serving` |
| `ServingProof` | tails that skip nothing in silence, sleepers that are roused, answers in order; tenants that stay apart (`Tenancy`) | section 4 |
| `Tenancy` | the tenant every route and tool is bound to, and what it then reads and writes | `serving` (`MCServing`) |
| `Evals` | evaluation and annotation logs, the purge of a tenant | `evals` |
| `Receipts` | the five kinds of subject over every domain, and the walk of the receipt | `evals` (`MCEvals`) |
| `LegacyFormats` | what a migration makes of one file | used by `Migration` |
| `Migration`, `OlderStores` | adoption and the migration of a directory | `files` (`MCFiles`) |
| `Payloads` | payload files, touches, promotion, the retention sweep | `files` (`MCFiles`) |
| `Reading` | the read paths and a reader that pages over a changing store | `reading`, `session_stale` |
| `Rollups` | an aggregation and its rollups, over `Reading` | `reading` (`MCReading`) |
| `SegmentFile` | one segment file, its indexes, the reads through them, rot | `reading` (`MCReading`) |

A run's module may put two or three components side by side (`MCArchive`, `MCServing`,
`MCEvals`, `MCFiles`, `MCReading`): the initial state picks one, the others rest. Only
components that share no state in the code, or whose interplay another module has, are
run that way.

A definition named `X_Y` (for instance `GateFree_Ignored`) is `X` with a plausible
defect: no specification uses it, and it exists so that each property can be shown
to fail when the code it is about is wrong in that way.

**One action per critical section.** A mutex held for one uninterrupted stretch is
one action. The two locks held across slow work (the `sealing` permit, the
maintenance lock) are variables, and each stretch of work under them that another
thread can observe is an action of its own.

**Layering.** `Wal` is where frames, fsyncs and waiters are taken apart. `Store`
takes from it what it proves (a set of stamped frames of which a prefix is
synced, one fsync covering every waiter) and takes apart seals and checkpoints.
`Compaction` makes a seal four steps and admission one, and takes apart the directory: names,
journals, what a directory fsync has made durable. `Erasure` makes a seal two steps and a
checkpoint two, and takes apart the erasure; `Receipts` makes an erasure three steps and
takes apart the walk of the receipt; `Tenancy` makes it one. `Archive` takes apart the
requests of a publication, `RemoteReads` the bytes. Each asks the questions its
own interleavings raise, and the state spaces stay small enough to be exhausted.

**`Wal`.** `log`, `syncedTo` are the file; `prior` the files a power loss may bring
back while a rename awaits its directory fsync; `inode` tells a syncer's descriptor
from the file now published. `pc` walks a thread through `commit`: `waiting` is the
condition variable, `window` the sleep, `fsync` the call with no lock held.
`settled` are batches whose content the caller has put in fsynced segments or
removed on purpose. `Next` has the faults the log is built to survive;
`UnsafeFault` those it does not (section 5).

**`Store`.** A version is the number of the batch that carried it, which also
stands for the identity of the `Arc` that reconcile compares. `drained`, `folded`
are the locals of `seal_with_permit` and `checkpoint_locked`. `Visible` is what a
read resolves. `lost` is the ghost of batches a crash took.

**`Compaction`.** `files`/`journals` against `synced`: after a power loss every name
on which they differ shows either. `merge` is the plan in `merge_run`'s locals;
`RecoverMerge` is `recover_merge`, deciding by names alone. Each turn of the loop
of `compact_segments` is a merge of its own.

**`Erasure`.** `kind` is the subject, `trace` (also session and span, which resolve
keys and references at `begin`) or `tenant` (a predicate, whose references are
noted under the maintenance lock). `host` is `server` (the tick resumes whatever is
pending, whoever is running it) or `embedded` (resumed only when nothing runs).
`Caller` runs `erase`, `Tick` runs `resume_erasures`; both walk the same steps of
`complete_erasure`. `cut` and `settledCut` are ghosts: how many spans had been
admitted when the erasure began and when it settled. `owed` are the contents the
erasure must delete, `spared` those it may leave (a live span held them at the
sweep, or an ingest wrote them anew), `racing` the spans admitted between the look
at live references and the unlinks, which the code deliberately leaves to the
erasure (comment at `lib.rs:6236-6252`).

**`DirectoryLock`, `Directory`.** `lock` and `sentinel` are the two files, each an
inode with a pid (or not yet one) and an age; `pc` walks a process through `acquire`
and `reclaim_sentinel`, every file-system call a step, and `Die` may follow those that
`CrashAt` names. `Directory` composes the lock with one store on the directory: what a
pin links or copies, by inode, and the steps of an install. A tombstone log is a
sequence of records in an inode, so that a hard link to it can be seen to change.

**`Archive`.** A client sends one request at a time; each is answered, lost, or stays
`late` and may arrive once its client has stopped waiting. A pack is a model value per
publisher, and digests compare equal exactly when the value is the same. `Quiescent` is the
word an operator gives with `--publisher-quiescent`: while a cleanup decides to sweep, and
its retirement of the id is on its way, no publisher of the id makes a request; one that was
stalled may go on afterwards. The constant `AckCoversLate` says whether that word is also
good for requests a publisher had given up waiting for (F36 shows what happens if not).

**`RemoteReads`.** A byte is a value of its own and a digest is the content it was taken
of. `upload` walks `publish_pin` through its validation, its packs and its manifest;
`handle` is an open snapshot with its chunk cache; two `threads` run a query each, or one
restores or verifies. Faults rot a byte of a pack, remove an object, retire the id or
damage the manifest. A restore relies on its caller for one thing: nobody creates the
target between the recheck and the rename.

**`TailRing`, `Serving`.** The ring's mutex makes each operation one step, the signal
after it another. A connection carries tokens (the head or the body of a request), so
that what the next read takes for a head is a question one can ask. A batch is pushed whole,
with the eviction in closed form; `PushedOneByOne` in `MCServing` is an assumption TLC
evaluates, that pushing its spans one by one leaves the same ring. Veils are a set, and what
a client has received is a sequence of frames, each a set of positions.

**`Tenancy`.** The store is one record (spans, annotations, evaluation entities, files,
erasures), so that an answer can be asked of the whole of it or of one tenant's part
(`Only`). Each route and tool is an operator that returns an answer, or the store after
it with a verdict; `Serve` applies one. The credentials are those of `AuthConfig`, read
once at the start; without tokens everybody is an operator. Requests are answered whole,
except `promote_failures`, whose reads and writes are two steps. Spans carry contents and the
server makes the reference (a span that is sent with a ready-made reference is not
modelled). A trace has one span and is its own session.

**`Evals`.** A mutation is one step with an outcome: answered, failed before its bytes
reached the file, failed after (`unsynced`), or cut short by death, which leaves any
prefix of its lines and perhaps a torn one. A loss of power leaves any prefix past the
last sync; what a process read back when it opened the log is taken to be synced by then
(the kernel has flushed it). Properties speak of memory and of every file that could be
left *now*. To apply lines is one closed form (`ApplyAll`: the last record of an entity
stands, a floor is never lowered); `MCEvals` has TLC compare it with `Apply`, line by line.

**`Receipts`.** A case is a subject of one kind (trace, span, session, tenant, payload)
with the spans and annotations sent beside it. `walk` is `verify_erasure`: the domains one
after the other, in the code's order, of a store that goes on (the live references are
read before the existence of the file). The purge is three steps. A payload subject is
resolved where the erasure begins; the code resolves it just before the gate. A promoted
example names the trace it came from and not the session. `excused` are domains a client
has filled again since: re-delivered keys, later annotations, payloads retained or sent
again, pins taken since; section 5 has what the receipt says of some of them.

**`LegacyFormats`, `Migration`.** `disk` against `durable`: a rename shows at once and
lasts after the fsync of its directory. A segment is its version word, its records, the
index and block directory its format has, and whether its other bytes hold; a manifest
names the bytes it was written over. `phase` walks one opening through adoption, the segment
pass, the blob pass and the completion of each place (the live store, each pin). `Beyond`
names three things the code does not stand (section 5); the run excludes them.

**`Payloads`.** Time is ticks, kept as ages that stop where they stop mattering. A call
walks offload (file checked, or written and renamed), admission, and for a promotion the
verification of the reference and the new version. `Immunity > 2 * Window` is what the
constants of the code mean: a touch protects for 10 minutes (`TOUCH_IMMUNITY`), longer
than an ingest and the sweep that missed its span take together.

**`Reading`, `Rollups`.** The read paths are operators over one buffer and segment
list, compared with a reference (`Answer`: the newest version of each key that the
filter selects) that knows the order of ingest, which the code does not. `Rollups`
adds the paths, the sidecars, the cache and one aggregation, segment by segment. What a
merge keeps (`Merged`) is the newest version of each key of its run, which is what
overwriting from the oldest segment to the newest leaves; what a purge leaves (`Survivors`)
is the positions of the segments that keep a record, in their order.

**`SegmentFile`.** `file` is the encoded segment, part by part; `rotten` the parts that
have rotted; `opened` what either open has read into memory; `decoded` the block cache.
`Digest` and `Positions` are constants that the run instantiates with a collision of two
values and with words that share bits. A read that meets a rotten part answers `Corrupt`.

Every module has a type invariant. `Wal`'s is proved; the others hold in their runs'
instances (add `TypeOK` to the cfg to see it), whose time goes to the properties below.

## 3. The runs

All bounds are constants named `Max...` and cap only counters that the code does
not bound: batches, stamps, epochs, generations, segment ids, calls, faults.

| Run | Question | Bounds |
|---|---|---|
| `wal` | Does every acknowledgement survive kill, power loss, failed fsyncs, stagings and directory fsyncs; do stamps follow file order; does every `commit` return; does `Wal` implement `DurableLog`? | 2 threads, 3 appends, 1 epoch change, 1 fault |
| `store` | Across concurrent ingests, seals, checkpoints and kills, in all three modes: does `Store` implement `SpanStore`? | 2 keys, 2 ingesters, 3 batches, 2 generations, 1 kill |
| `store_faults` | With power loss, I/O errors and an unsynced `CURRENT` (`wal` mode): does what was acknowledged survive, does no fold discard what is not sealed, does every call return? | 2 keys, 1 ingester, 2 batches, 2 generations, 2 faults |
| `compaction` | Across seals, tiered and shadow merges, retention, kill, power loss and failed writes: does every read stay right, does the expired stay gone, is nothing left behind? | 2 keys, 4 batches, 8 ids, 1 fault |
| `erasure` | One erasure against ingest, seals, the resuming tick, a kill or an I/O error at any step: is nothing covered left, are owed payloads gone and shared ones kept, is everybody else untouched, does it settle? | 2 keys, 1 covered; 2 spans; 1 fault |
| `directory` | Three processes on one directory: is there one owner, do pins stay as they were digested, is an open store of one lineage, does a dead owner give way? | 3 processes, 1 of them restores; 2 deaths, 1 install, 1 pin |
| `archive` | Is what can be opened whole, does it stay until its owner deletes it, does a tombstone keep its owner? And does a pin come back byte for byte, or with a refusal that a fault explains? | 3 clients of 2 stores, 4 operations, 2 packs, 1 late request; 6 pins, 2 reading threads, 2 jobs, 1 fault |
| `serving` | Is no body read as a request, is no span lost without a gap, do veils last, does nobody sleep on news? And does each credential see and change only its tenant's part? | 2 clients, 1 slot, 2 requests or a tail; ring of 2, 3 spans, 1 veil, 1 restart; 4 credentials, 2 tenants, 3 requests |
| `evals` | Do answered records survive, does nothing dangle in memory or in any file left, are ids fresh, is an erased tenant gone? And does a receipt say what the store held? | 2 tenants, 2 bodies, 3 scopes, 1 crash; 5 subjects, 3 spans, 3 calls, 1 kill |
| `files` | Does a migration launder no damage, does a store that serves verify, does one serve in the end? And does every visible reference have its payload file, does every orphan go? | 6 directories, 3 faults; 2 clients, 1 content, 3 calls, 1 restart |
| `reading` | Does every path answer with the newest versions, is an export one instant, does a listing give what stood still once, does an aggregation count each span once? And does a segment answer what a scan would, or say it is damaged? | 2 keys, 2 times, 2 sessions, 3 ingests, 1 erasure; 4 of 5 spans in a file, 1 rotten part |
| `session_stale` | (violation) the session union answers a superseded version | 2 ingests suffice |

### Why these bounds are enough to be interesting

- `wal`: three appends and two threads give one commit in flight, one waiter and
  one later batch, with a rewrite in the middle. `IInv`, the inductive invariant of
  the proof, was checked on this instance before it was proved, and the proof
  removes the bound for the safety properties.
- `store`: three batches over two keys are what it takes for a key to be sealed,
  drained again, and re-ingested during the second seal; two ingesters and the
  maintainer contend for the permit. Two faults in `store_faults` are a failure of
  `CURRENT` followed by a crash; one ingesting thread beside the maintainer keeps its
  liveness property affordable (two ingesters contend in `store`).
- `compaction`: `Fanout` 2 and a cap of 3 bytes (keys) reach tiers 0 and 1, runs
  with passengers, runs cut by the cap into several outputs, and shadow merges
  (an oversized two-key segment and a one-key segment above it). Four batches reach
  a merge of merged outputs. `Stale = {1, 3}` interleaves expired and live versions.
- `erasure`: two spans are one before and one after any step of the erasure, or an
  older and a newer version of one covered key, or a covered and an uncovered span
  sharing a payload. It was also run once with three spans and, for safety only,
  with two faults, with the same result.
- `directory`: two processes race for a corpse while a third still believes it owns
  the lock; the store's work is one ingest, one erasure and one pin, which meet in every
  order with the install of a third process. Processes die owning the lock, right after
  claiming the sentinel, and while they verify the corpse. The race of section 5 that
  breaks the lock needs four processes; the theorem covers any number, without it.
- `archive`: a publisher, a second publisher or cleaner of the same id, and a
  deleter; the late request is the one that matters, and one is enough to land it
  in any state of the others. The six pins are a pack of an empty file alone, a file of
  several parts, a range over a chunk border, an empty file at a pack's end, and pins
  that may not leave (a pending erasure, an undeclared format, a stray file).
- `serving`: a ring of two under three spans overruns every reader; two requests on a
  connection are a body and the head behind it. The scopes are explored separately
  because a pipelining client and a tail do not share state. In `Tenancy` the two tenants
  share a trace name, a content and a dataset name, which are the names that could mix
  them up; the store starts empty, or with a span, dataset, version and experiment of
  each; three requests are a write, a write that builds on it, and one between the two
  steps of a promotion.
- `evals`: a short log of one tenant's chain (dataset, version, experiment) beside a
  second tenant, with the mutations, outcomes and erasures that fit; `MCEvals` lists the
  scopes. In `Receipts` three spans are one covered, one that shares something with it
  and one of another tenant; a kill may fall between any two steps of the erasure.
- `files`: the six directories are a new one, one from before the generations, stores of
  format 6 and 7 with a pin, one whose migration from 6 to 7 was cut short, and one of
  format 8; three faults are a kill, a rotten file and a loss of power, in any order. For
  the payloads, two clients with one content give a touch while another client's sweep,
  offload or promotion of it is under way; distinct contents do not interact.
- `reading`: its scopes give paging, aggregation over windows (two ingests) and
  aggregation over rewrites (three ingests at one time) a state space each. Three
  versions of two keys are a superseded version in each of two segments and a buffer.
  In a segment, blocks of four bytes and two records under records of one to five bytes
  give a block of one, of two, and a record larger than a block; two of the five spans
  share a digest, two share word bits, and three start at one time over a block's end.

`CHECK_DEADLOCK FALSE` is in every run but `directory`: once its bounds are used up an
instance has nothing to do, which is the bound's doing and not the system's. That nobody
waits for everybody is what the liveness properties say instead; a directory, on which
processes can always ask again, never stops.

### What the conjoined properties say

Some properties are conjunctions of named parts, each of which says one thing:

- `PayloadsFollowSpans` (erasure): owed payload files are gone after the settle, shared
  ones are kept. `OnlyTheSubjectGoes`: others' spans are kept, and, where nothing resumes
  a running erasure, so is new data under the erased identifiers.
- `SnapshotsAreWhole`: what a reader can open has all its packs, and a published snapshot
  stays until its owner deletes it. `ArchivesReadBack`: every answer is the pin's bytes;
  a finished restore is the pin; nothing that met no fault is refused; a verification
  that finds nothing wrong is right; the cache's accounting adds up.
- `TailIsHonest`: a reader that was not told of a gap missed nothing it asked for, and a
  veil lasts as long as a ring entry it hides.
- `TenantsStayApart`: a bound credential's every answer, and every verdict on its writes,
  is the one its tenant's part of the store would give; its writes change no other
  tenant's part; promoted examples stay in the tenant they were read from. Two things are
  allowed for: bytes somebody erased as content come back for everybody when they are
  sent again, and ids are counted over the whole store.
- `PagesMakeOneWhole`: an export is one instant of the store; a listing gives what stood
  still once. `ReceiptsAreTrue`: a receipt that says erased is right of every domain it
  names, and what is erased and untouched passes.

### Fairness

Weak fairness on what a running thread does next without waiting for a client:
the steps inside `commit`, the directory fsync after a rename (`Wal`); the commit,
seal and checkpoint steps (`Store`); admission under the gate, the publication of a
seal, every step of a running erasure (`Erasure`). `Resume` is weakly fair because
the maintenance loop of `traza-server` runs it every few seconds
(`bin/traza-server.rs:1152-1180`); accordingly `ErasureSettles` speaks of the
server only. Strong fairness is assumed once in the engine, on taking the `sealing`
permit (`Store`'s `TakePermit`): `std::sync::Mutex` is not queue-fair, but its waiters are
woken at every release, and a thread that contends again and again eventually wins.
Nothing fair is assumed of clients, of age seals, of merges, retention or faults.

In `Directory`, a process that wants the directory keeps asking, and a corpse whose
sentinel has aged is judged again and again while others come and go: weak fairness on
asking, strong on the judgement, for the processes that are alive. In `Migration` the
opening goes on, and an operator who was told what is damaged restores it and opens
again. In `Payloads` time, the sweep, seals and begun calls go on; nothing is assumed of
new calls. The other runs check safety only and assume no fairness.

`CommitReturns`, `CallsReturn`, `DeadOwnerGivesWay`, `MigrationEnds` and `NothingLingers`
hold across the failures of those runs, and `ErasureSettles` across a kill or an I/O error,
because the bound makes faults finite, not because any fault is unfair.

## 4. The proofs

| Theorem | Module | States |
|---|---|---|
| `TypeCorrect` | `WalProof` | `Spec => []TypeOK` |
| `AckedDurable` | `WalProof` | `Spec => []AckedIsDurable`: what `commit` acknowledged is in the prefix of the log a crash keeps, or no longer needs the log |
| `StampOrder` | `WalProof` | `Spec => []StampsFollowFileOrder` |
| `NoOrphanWaiter` | `WalProof` | `Spec => []WaiterHasSyncer` (proved only: no run asks it) |
| `ImplementsContract` | `WalProof` | `Spec => Contract!Spec`: `Wal` implements `DurableLog` |
| `FoldsAreSafe` | `StoreProof` | `Spec => []FoldsLoseNothing`: every frame a restart would discard is in the segments, and none will ever be stamped behind the fold |
| `AckedIsSafe` | `StoreProof` | `Modes = {"wal"}` implies `Spec => []AckedSurvives`: power loss included, no key reads older than the newest batch acknowledged |
| `PromiseIsKept` | `StoreProof` | without power loss and reopening in another mode, `Spec => Promise!Spec`: `Store` implements `SpanStore` in all three modes |
| `ReadsAreNewest` | `CompactionProof` | `OneKindOfCrash` implies `Spec => []ReadsNewest`: no merge, retention pass, crash or recovery loses a newest version or lets an older one win |
| `ExpiredIsGone` | `CompactionProof` | with `ReclaimOnSeal` too, `Spec => []ExpiredStaysGone`: what a completed retention pass removed never shows again |
| `NoTraceIsLeft` | `CompactionProof` | `OneKindOfCrash` implies `Spec => []IdleLeavesNoTrace`: idle means exactly the published files and no journal |
| `SettledIsClean` | `ErasureProof` | `Spec => []NothingErasedIsLeft`: once an erasure has settled no record of what it covered is left anywhere |
| `ErasureIsNoBan` | `ErasureProof` | `Spec => []OnlyTheSubjectGoes`: every other acknowledged span reads at its version or newer, and so does new data of the subject where nothing resumes beside an `erase` |
| `PayloadsFollow` | `ErasureProof` | `Spec => []PayloadsFollowSpans`: what is owed is gone or spared at the settle, what others share is kept |
| `LockExcludes` | `DirectoryProof` | the lock by itself: at most one owner |
| `OneOwner` | `DirectoryProof` | `Spec => []MutualExclusion` for `Directory`, with its pins and restores |
| `PinsStayHonest` | `DirectoryProof` | `Spec => []PinsAreHonest`: no pin holds a span that its own log has settled as erased |
| `NeverABlend` | `DirectoryProof` | unless a process dies inside a restore, `Spec => []OpenHoldsOneStore`: an open store holds one lineage |
| `NothingIsLaundered` | `DirectoryProof` | `OldStoresAreWhole` implies `OpeningSpec => []NothingLaundered`: no bytes but those the older build left, or their conversion, get a digest in a pin or a valid segment around them |
| `TailStaysHonest` | `ServingProof` | `Spec => []TailIsHonest`: a subscriber that was told of no gap has all it asked for, in order, but for what was erased; a veil outlasts its entries |
| `SleepersAreRoused` | `ServingProof` | `Spec => []NoSleeperMissesNews`: who sleeps behind the ring is signalled, or about to be |
| `AnswersStayInOrder` | `ServingProof` | `NoKeptAssets` implies `Spec => []AnswersInOrder`: one answer to each request, in order |
| `TenantsAreApart` | `ServingProof` | `TenancySpec => []TenantsStayApart`: what a bound credential is told and may do depends on its tenant's part of the store only, and it changes no other part |
| `SnapshotsStayWhole` | `CopiesProof` | `SamePin` and `AckCoversLate` imply `Spec => []SnapshotsAreWhole`: what a reader would open is whole, and what was published stays until its deletion is asked for |
| `NoPartialSnapshot` | `CopiesProof` | `SamePin` alone implies `Spec => []VisibleIsComplete`, the first half of it |
| `OwnerIsKept` | `CopiesProof` | `AckCoversLate` implies `Spec => RetirementKeepsOwner`: the tombstone records whose the id was |
| `AggregatesAreRight` | `CopiesProof` | `RollupsSpec => []AggregatesCountOnce`: an aggregation counts no span twice, misses none that stood still, and counts none that was no answer while it ran |
| `ScansAnswerTheNewest` | `CopiesProof` | `ReadingSpec => []ScansAreCurrent`: an unlimited scan answers, in order, the newest version of each key that its filter selects |
| `NoBodyLost` | `SideFilesProof` | `Spec => []BodiesAreKept`: no visible span or promoted example loses its payload file to a sweep |
| `IdsStayFresh` | `SideFilesProof` | `EvalsSpec => []IdsAreFresh`: no id of a dataset or an experiment is answered twice |
| `AnswersSurvive` | `SideFilesProof` | `EvalsSpec => []AckedSurvives`: what was answered of evaluations and annotations is in force and in every file a crash may leave |
| `NothingIsLeftDangling` | `SideFilesProof` | `ErasuresAreCertain` implies `EvalsSpec => []NothingDangles`: there and in memory, what a record relies on is there |
| `TheErasedStayErased` | `SideFilesProof` | `ErasuresAreCertain` implies `EvalsSpec => []ErasedStaysErased`: after the settle nothing of the tenant is in any such file that was not written since |
| `EvalsAlways` | `SideFilesProof` | `EvalsSpec => []EvalsInv`, the invariant of the first two |

### The log

For every set of threads, with or without a commit window, for every choice of the
bounds and faults of `Next`. **Assumptions**: `Window` is Boolean, `Faults` is a set of
fault kinds, the bounds are naturals. The proofs are about `Spec`, which leaves out
`UnsafeFault`; section 5 says what each of those breaks.

**The argument.** None of the properties is inductive. `IInv` adds:

- `FileOrder`: no frame is ahead of the counter or torn, stamps are unique, epochs
  follow them, `syncedTo` is not past the counter; every prefix of the log has a
  last frame (`HasLast`), which is what lets the prover evaluate recovery's
  `LastSeq` without finiteness.
- `Coverage`: the meaning of the two counters. Everything up to `durable_lsn` is
  safe; everything up to `written_lsn` is in the log or settled; and, thread by
  thread, a syncer's `target` is covered by the file behind its descriptor, *or
  that file was replaced and the target is durable already*. The last clause is
  the heart: it is why a `rewrite` or `reset` between taking a descriptor and
  the fsync returning is harmless.
- `OneSyncer`: `syncing` is true exactly while a thread is between setting and
  clearing it, which makes `WaiterHasSyncer` inductive.

Types, `FileOrder`, `Coverage` and `OneSyncer` are shown to be preserved separately,
one lemma per action, and `Invariance` combines them. The refinement needs one
more part, `PrefixOrder`: every prefix of the file is a prefix of the batches in
append order, so that a crash of the file is a crash of `DurableLog`. Then each
action maps to a step of the abstract log or to a stutter: `Append` to `Append`,
the fsync's end to `Sync` or `Acknowledge`, `Rewrite` and `Reset` to `Reclaim`,
kill, power loss and `Open` to `Crash`.

### The store

For every set of keys and threads, any modes (a restart may pick another one, which is
how a log can outlive the mode that wrote it), every fault of `Store`, and any number of
batches, checkpoints and crashes. **Assumptions**: those of `Store` and `Versions`,
nothing else. Neither fsyncs nor acknowledgements matter here: the property is about
which frames a restart may skip, not about which frames it finds.

**The argument.** A frame is skipped if it is stamped at or before the fold of the
generation `CURRENT` names. Three things have to agree for that to be safe, and they are
written at different moments by different critical sections: the stamp was taken under
the writer lock at the drain, the drained rows reach a file later, and the manifest later
still. `Inv` follows the stamp on its way:

- `LogOrdered`, `NoNewer`: later frames have later stamps and carry newer versions, and
  nothing is newer than the last batch. So `Resolve` of a set of frames is the latest
  one's version.
- `Backed`: a frame is never newer than the buffer, and where the buffer has let a key go,
  the segments have what every frame says of it. This is what a reset and a rewrite of
  the log stand on.
- `WriteIsNewest`, `SealIsWritten`, `FoldIsSealed`: between drain and manifest, every
  frame up to the drained stamp is in the drained rows or the segments; once the segment
  is written it is in the segments (`InSegments`); and it still is when the fold goes into
  a manifest. Frames written in between are stamped after it.
- `Generations`, `NamesUnused`, `OnePermit`: a generation is named once, its manifest is
  there before `CURRENT` names it, a segment's name is new, and one thread at a time is
  between taking and releasing the permit, errors included.
- `Past`: in a mode with a log, epoch and sequence are at or past the fold. Recovery is
  the step where this could break: it takes both from the log it finds and from the
  manifest, which is why an empty log after a checkpoint does not restart the sequence
  behind the fold.

`HasLatest` (every non-empty set of frames has a last one) stands for finiteness, about
which the prover would otherwise need induction.

### What the store acknowledges, and what it promises

Two theorems stand on the invariant of the folds, for every set of keys and threads, and
any number of batches, generations and faults.

`AckedIsSafe`: every fault of `Store`, power loss included. **Assumption**: `WalOnly`, that
the store is only ever opened in mode `wal`. The property is false for `flushed` (F4) and
after a reopening (F5), and means nothing for `buffered`.

`PromiseIsKept`: the three modes, with kills, calls that fail at any step and a `CURRENT`
whose fsync failed. **Assumption**: `PowerStays`, that `Faults` has neither power loss nor
reopening in another mode. Under power loss F4 refutes the promise for `flushed`; for `wal`
what remains of it is `AckedIsSafe`. Reopening is F5.

**The argument.** A row may be shown from the buffer, from a segment in the list, or from
one that is on disk and not yet in the list, and a restart sees the last together with the
log. Both invariants say the same of each of these places, `AckInv` of the batches that are
`Promised` (acknowledged, or synced and about to be) and `Faithful` of those no crash took:

- `Visibly`, `ShowsNewest`: for the segments in the list *and* for those on disk, buffer
  over segments shows the batch's version of each of its keys or a newer one. The second
  half is what makes publishing a segment, and dropping from the buffer what it holds,
  invisible to readers.
- `OnDisk`, `KeptOnDisk`: a restart would find it. Either the segment files show it, or the
  frames do (`Carried`: one frame has it, and none that holds the key has it older). For
  `AckInv` only the frames a power loss leaves count.
- `HidesNothing`, `WriteIsWhole`: what a seal has drained and not yet written hides nothing
  that `OnDisk` counts on, since the file it becomes will win over the older ones.
- `PublishIsLast`: between the drain and the publication the seal's file is the last one,
  so that it is resolved as what it drained.
- `Numbered`, `Counted`: batch numbers and the `durable` counter. That every non-empty set
  of batches has a newest stands, again, for finiteness.

The refinement needs two more. `Genuine`: whatever a place holds is what a surviving batch
carried, so that with `ShowsNewest` a read is *equal* to `Newest`. And `KeptAsPrefix`: in
`buffered` mode the segment files always show the rows of a prefix of the admissions (a
drain copies the whole buffer, so files over the drained rows are such a prefix while the
seal writes); this is why what a kill takes is a suffix. With a log, `KeptOnDisk` says that
nothing is lost, and `Open` is a `Crash` that takes no batch. `Admit` maps to `Admit`, the
return of a call to `Acknowledge`, every other step to a stutter.

### Merges and retention

For every set of keys, any batches that retention is due to remove, any sizes, tiers and
fanout, and any number of batches, segments, passes and faults. **Assumptions**: those of
`Compaction` and `Tiering`; and `OneKindOfCrash`, that a history has kills or power losses,
not both. The last is not for the prover's sake: TLC refutes `ReadsNewest` without it (F42).
`ExpiredIsGone` also takes `ReclaimOnSeal`, that every seal rewrites the log; otherwise F7
refutes it.

**The argument** is about directories. `Restores(parts)` says that a restart which loads
these segments would be right: they are `Sound` (later ids hold later versions, and no
version is newer than the newest, than a frame of the log for its key, or gone), and each
key `Holds` (its newest version is in one of them, in the log, or due to expire).
`Recovers(dir, journal)` says the same of what recovery *leaves* of a directory, by its own
verdict: `Forward` if all outputs are there or some input is not, and then the inputs are
the `Losers`, else the outputs. `CompactionInv` is a conjunction of

- `BufferInv`, `SealInv`: what is served now. The buffer is what the log says, and a seal
  in flight is the newest segment, so that nothing published meanwhile comes before it.
- `ExpiryInv`: a retention pass holds the permit, has looked at every batch it covers, and
  the segments it has still to do are those that hold expired rows.
- `MergeInv`: a merge replaces consecutive groups by outputs whose ids follow theirs, and
  whatever is sealed meanwhile comes after those ids. This is why the ids are claimed under
  the permit.
- `DiskInv`: place by place, what the directory shows, and what a power loss might make of
  it. Before the publication every input is there; after it every output is.
- `OpenInv`: after a crash, the directory with its journals is `Survivable`: whatever
  recovery or a further crash makes of it, it `Recovers`.

Three lemmas carry it. `MergeRestores`: if the segments restore, so do the same segments
with consecutive groups replaced by their outputs. `RetireRestores`: so they do with one
segment replaced by what retention keeps of it. `RecoversUnpublished` and
`RecoversPublished`: a crash anywhere inside a merge leaves a directory where either verdict
gives one of those two. The second verdict is where a failed or half-done cleanup could
hurt: some inputs are gone and recovery must not go back, which is `Forward`'s second half.

Nothing is assumed of *which* run a merge takes or where its groups begin, except that it is
a tail of the list, that groups are consecutive and that there is one; so the theorems hold
for the tiered merge, the shadow merge and any other choice.

### The erasure

For every set of keys, subject, bodies and ingesters, both hosts, and any number of kills
and I/O errors; both subjects, and the second eraser that resumes while the first still
works. **Assumptions**: those of the module (the subject covers keys, `NoBody` is not a body,
no thread is called `Free`, the bounds are naturals) and nothing else.

**The argument.** That nothing erased is left at the settle says nothing of the steps
before it, and needs three things of them (`EraseInv`):

- *Where each part becomes clean, and why it stays so* (`Cleansed`). While an eraser walks
  the segments the buffer is clean, and each file is clean or on its list; behind its first
  purge everything stored or drained is; from its rewrite of the log, the log is. A step
  adds one version, and one not erased (`FreshIs`: it is numbered past both cuts); every
  other step moves or removes versions (`NothingNew`). A seal in flight would carry back
  what the purge took; `Permits` says that it cannot, since the purge holds the sealing
  permit and so nothing is drained.
- *What the cuts mean* (`Barrier`). While the erasure is pending nothing covered is
  admitted: whoever holds the gate has asked the mask, and `begin` waits for the gate. So
  a clean set holds nothing covered at all (`NoneCovered`), which is why the settle may draw
  the second cut at whatever has been admitted meanwhile, under the feet of another eraser.
- *What the disk says of it* (`Recorded`): a tombstone says settled only when memory does or
  an eraser had come to its settle, whose line may reach the file while its call fails.

`OnlyTheSubjectGoes` needs that what may not be taken is stored, at that version or newer,
*and would be after a restart* (`Kept`): each of the two is preserved by the help of the
other, the log by the buffer when it is rewritten, the buffer by the log when it is
replayed. An eraser takes covered versions only, and where nothing resumes beside an `erase`
it works only while the erasure is pending, when nothing is new yet.

`PayloadsFollowSpans` has two halves. `Shared`: a visible span outside the subject has its
file, and no list to be unlinked names it, unless it was admitted while a sweep was at its
unlinks; a span that a step leaves visible was visible before it (`VisibleStays`), so only
the new one is to be looked at. `Noted` and `Owed`: what the erasure owes is in its record,
or, for a tenant whose references nobody has noted yet, in the spans still stored, which a
crash must not lose (`BufferIsLogged`); once a sweep has looked, it is gone, spared or on
the list. TLC found two earlier forms of these too strong: a seal in flight can publish a
version already superseded, which is not visible and may share a content on a list; and a
tombstone may say settled while the record is pending.

### The lock

For every set of processes, which open, close and die, and whatever the owner does
with the directory. **Assumptions**: those of the modules (types and naturals), and
`SentinelsAreKept`: nobody who holds the reclamation sentinel dies, or takes ten
seconds to name it. Without the latter the property is false (section 5, F23), so the
theorem says exactly where the protocol's strength ends.

**The argument.** That no two processes own the lock is not inductive: the step that
breaks it is the removal of a lock by a reclaimer who judged it earlier. `LockInv` adds
that the sentinel is there exactly while its maker is between making and removing it
(`SentinelHasOwner`: hence one reclaimer at a time), that the lock is its owner's while
the owner believes so (`OwnerHoldsLock`), that what a reclaimer removes is a dead
process's (`SwapsTheDead`: the judgement made under the sentinel still holds, since only
a reclaimer could have changed it), and that no sentinel is ever cleared as a corpse's
(`NobodyClears`). Each action of the lock preserves each part; the actions of the store
leave the lock alone, or are an owner's closing.

### The data in the directory

For every set of processes, spans and erasures, any number of restores and pins, and any
finite set of labels. **Assumptions**: those of the lock, because two owners would edit one
directory; and for `NeverABlend` that no process dies inside a restore: one that does
leaves a part of a pin under the old `CURRENT`, which the next open takes for the store.
`PinsStayHonest` needs no such thing: pins outlive a restore wherever it stops.

**The argument.** `PinsAreHonest` is broken by editing a log that a pin reads, so `DirInv`
says where the logs are (`OwnLogs`: no pin's log is the working set's inode), and that the
span named by any record was ingested (`ErasuresAreOfIngested`: a new span is in nobody's
log). That the inode a pin takes is new is counted, not assumed: there is one more than
labels and restores together (`FreshIs`). A pin in the making must be honest with the
*prefix* of the log its manifest digested, since an erasure may begin and settle while the
files are linked (`PinJob`, `AppendRecords`, `PrefixRecords`); a restore in the making
says what part of its pin is there (`InstallJob`), and that the log it copies last has
settled nothing of it is the honesty of that pin, found under its name still: the process
that restores is the only one at work (`WorksAlone`, from mutual exclusion). Beside that,
`SettledAreGone` for the working set itself, and `OneLineage`: outside a restore, what is
there is what was promised.

### The opening of an older directory

For every set of directories an older build may have left whole, with any pins, any
records and any index and blocks that decode, and any number of kills, losses of power,
rotten files and restored ones in any order, a power loss after a kill and a file of the old
format put back included. **Assumption** `OldStoresAreWhole` (`Migration`, and TLC evaluates it for the
six directories of the run): what the older build left is whole, and bytes that no check of
format 6 covers do not rot; without the second it is false (F40).

**The argument.** The manifest of a pin is bad only if the migration put a digest there of
a file that was bad, and that in a step long after it looked at the file. So `OpeningInv`
is a condition on each file by itself (`SlotOk`): a segment has the records it had and, if
it validates, is the original or what conversion makes of it; a blob is one of the two or
is recognized as neither; the digests of a pin are of such files. It holds of the disk
*and* of what a loss of power would leave, hence of every mixture (`OneMixture`), of what an
operator puts back (`OriginalsStand`) and of what rot makes of a file (`RotKeepsOrder`). Of a segment
that lost a part of its index or directory but still decodes, `ConversionIsFaithful` says that the
decoder returns the whole stream or refuses. The step of `migrate_pin` that digests a blob
without looking at it again is safe because its pass came before in the same opening: a
blob that was neither never comes as far as the manifest (the last conjunct). Live
digests are not in the property: `complete` proves nothing of what it hashes (F43), so
`ServedStoreVerifies` holds up to the three faults of the run and no further.

### The payload files

For every set of contents and clients, and every window with `Immunity > 2 * Window`: the
sweep may look at the buffer, the examples and the segments in any order among ingests,
promotions, seals and the passing of time, and its list and its deletions may be as late
as `Window` allows. **Assumptions**: those of the module, and that `None`, which stands for
no file and no touch, is not an age. That an ingest or a sweep lasts at most `Window` is in
the guard of `Tick`: it is the code's own assumption, stated at `TOUCH_IMMUNITY`.

**The argument.** A file goes only if nothing gathered refers to it and its touch is gone or
older than the immunity. So it is enough that whatever is referred to was gathered or is
young, and that is inductive only place by place:

- `CallsTouch`, `CallsStore`: a call's content was touched no longer ago than the call is
  old, so a prune in the middle of it takes nothing; and what it saw or wrote is there.
- `SealIsBuffered`: a drain is a copy, so a span is in the buffer until its segment is.
- `SweepSpares`: what a place refers to *after the sweep has looked there* was gathered, or
  touched at most the sweep's age plus `Window` ago. A call that was under way when the
  sweep passed is at most `Window` old; one that began later is younger than the sweep. A
  seal moves a span from a place already seen to one not yet seen, which is why the buffer
  is looked at first.

The sweep is at most `Window` old, so every reference it missed was touched at most
`2 * Window` ago, and `Removable` fails for it.

### The evaluations and annotations

For every set of tenants, any finite set of bodies, any log found at the start that replays
to a whole state (`Sound`), any set of outcomes and any number of mutations, erasures,
deaths and losses of power. A mutation ends in one of the four ways section 2 lists: a
write that the process survives part way (F29) and a purge that fails after its rename
(F30) are not among them. **Assumptions**: those of the module; for `NothingIsLeftDangling`
and `TheErasedStayErased` also `ErasuresAreCertain`, that a process in which appends fail
after their bytes reached the file erases nothing. With both, both are false (F28).

**The argument.** Everything is about `Left(file)`: what an open may yield of a file now,
which is each of its prefixes from the last sync on, without a torn line. No step but one
that appends or rewrites adds to it, a loss of power and an open only choose from it
(`ImageLeaves`, `LosePowerLeaves`, `OpenLeaves`), an append adds the continuations by
some of its lines (`AppendLeaves`), and a rewrite one file (`RewriteLeaves`). `EvalsInv`
says of every member of it:

- `FoundInv`: it replays to a whole state, and has all that is in force in memory as it is.
  It may have *more*: records whose append failed after the bytes. So what a mutation checks
  against memory and then appends must be right in a file with records memory does not know,
  one of which may even be another tenant's dataset of the same next id. It is, because the
  new record supersedes nothing that is in force (`Fits`), and every record of the file
  relies on records that are in force alone, bodies apart (`Based`): what is superseded,
  nothing relies on (`StaysBased`).
- `IdsInv`: every id answered is at or below a floor, or a record has it, in memory and in
  the file. The purge takes records away; that it puts floors over all of them first is what
  keeps this (`SurvivorsHold`).
- `AckedInv`, `NotesInv`: what was answered is in force and in every such file, and nothing
  answered is of a tenant under erasure.

The order within an append matters once: bodies go before the version that lists them, so
that every prefix of a version's lines is whole (`VersionFits`). Of a purge it is that a body
goes only with the last version that lists it, of any tenant (`Surviving`), and that
annotations go before the log, so no score is left whose experiment went (`ScoresInv`).
`PurgeInv` adds that (`ScoresInv`), who wrote what is in the file (`WritersInv`), and that
nothing is in the file that memory does not know (`CertainInv`): the purge decides from
memory, and this is where F28 gets in.

TLC found no violation of `EvalsInv /\ PurgeInv` on the instance of `evals` before they were
proved.

### The live tail and the connections

For every set of clients, any requests and filters, any capacity and budget of the ring, any
batches and erasures, any number of restarts. **Assumptions**: those of the module (types,
and that `None` is not a cursor), and for `AnswersStayInOrder` that a request for a part of
the dashboard which carries no body does not ask to keep its connection (`NoKeptAssets`):
the code answers such a request without taking its head off the buffer (section 5, F37), and
with that the property is false.

**The argument**, one invariant for each theorem over what the ring is:

- `RingInv`: position by position the ring is the newest part of what was admitted; a veil
  hides nothing but what was erased, and no erasure that still covers an entry is without a
  veil. The last is what pruning could break: a veil goes when the first position passes
  its `below`, which is when its last entry went.
- `StreamInv`: what a client has, together with its cursor, is whole (`IsWhole`), a frame
  that is being written is whole between its two cursors (`FrameIsWhole`), and whatever
  connection continues the stream does so from the client's cursor, which travels in the
  request (`Resumes`). A position that may be left out (`Excused`: unwanted, or erased) may
  be left out ever after in that process; a restart has a new epoch, and a cursor of
  another epoch is answered by a gap.
- `SleepInv`: a read that finds no frame had a cursor at the head of the ring
  (`ReadsThenSleeps`), and every batch after it raises `unsignalled` in the same critical
  section. A read that moves its cursor over unwanted spans does make a frame, so the lost
  wakeup would need a read that neither delivers nor advances.
- `AnswerInv`: what the socket and the buffer hold together is exactly the requests after
  the last one answered, a body right behind the head that announces it (`RequestsFrom`);
  moving tokens from one to the other changes nothing, taking a body or closing keeps it.

What a read returns is defined with the least and greatest of sets of positions; that they
exist is proved from the well-foundedness of the naturals (`LeastNat`), not assumed.

### The tenants

For every finite set of tenants, any credentials, traces, references and ids, and any
sequence of requests of the routes and tools that `Tenancy` has, promotions in two steps
included. **Assumptions**: those of the module (the names that stand for no tenant are
none's, ids are not references); nothing about the code.

**The argument.** `TenantsStayApart` compares two answers to one request, of the store and
of the tenant's part (`Only`), so it says something of lookups that name no tenant: one by
id finds the same in both only if ids are unique; the scores of an experiment, which are
searched by its id alone, are the tenant's only if no other tenant's score names it; and the
examples that make a reference reachable are the tenant's only if a version has one owner.
`TenancyInv` is what makes it so:

- `Numbered`: an id of a dataset or an experiment is given once, below the counter.
- `Linked`: a version is of a dataset that is there, an experiment is of the tenant of its
  version's dataset, a run is of an experiment that is there, and a score is of the tenant of
  its experiment. The last is what `validate_score` is for; the purge of a tenant keeps it
  because annotations go before the entities they are about.
- `AtHome`: a promoted example, and a promotion on its way, came from the tenant it is for.

Then every read has a lemma that it is the same of both stores (`GoodReadsOwn`), and every
write one that its verdict is and that what it leaves is `Alike` for every other tenant
(`WritesAreApart`). The hardest is the erasure: it deletes files, which are shared. What
another tenant can reach is still referred to after the tenant's records went, so it is
among `LiveRefs` and stays (`ErasesApart`).

### The archive

For every set of clients, configured for any stores or for none, any number of packs, and
any number of operations, crashes and requests that arrive after their client gave up.
**Assumptions**: those of the module; for `SnapshotsStayWhole` also `SamePin`, that
everybody who publishes under the id publishes the same pin (two pins break it, F35), and
`AckCoversLate`, that the operator who says no publisher runs beside a cleanup speaks for
requests on their way, too (else F36). `NoPartialSnapshot` needs only the former and
`OwnerIsKept` only the latter: neither a sweep beside a publisher nor a late request ever
makes a partial snapshot visible, and two pins never confuse whose the id was.

**The argument.** A request does what it does when it arrives, and what justified it was
read long before. So the invariant says of every place of a client (`ClientOk`), and of
every request on its way (`RequestOk`), what still holds of the bucket when it gets there:

- `Fenced`: nothing is removed from an id that is not retired, and retirement is for ever.
  This is why the tombstone comes first.
- `Uploaded`: up to where an upload has come its packs are there, *unless the id is
  retired*; so a manifest on its way is complete, or of no use to a reader. This is why
  the manifest comes last.
- `Entitled`, `Justified`: a retirement on its way is that of an upload without a manifest,
  in the name of its marker, or that of the snapshot that is there, whose deletion was
  asked for by someone who may. The first would be undone by a claim or a commit that
  slips in between; that nobody makes one is what the operator's word says, and the one
  place it is used (`Word`, `Arrival`).
- `Committed`, `Stands`: a publication that found no tombstone after its manifest is what
  readers see until somebody asks for its deletion, although its marker is still there for
  a cleanup to find.

### The aggregation and the scans

For every set of keys, times and sessions, any windows without a session, and any number
of ingests, seals, merges, erasures, restarts and aggregations. **Assumptions**: those of
`Reading` and `Rollups`, nothing else.

**The argument.** Both rest on the layers (`LayersInv`): within the buffer or a segment
there is one version to a key, and whatever lies in a later layer is newer. So the newest
version of a key is the one in the last layer that holds the key at all, which is what the
code asks for (`superseded_by_newer`); a merge of a run at the tail and a purge keep the
order. A scan that skips what time prunes and asks every newer layer, pruned ones included,
is then the reference answer. An aggregation is harder, because its steps straddle changes:

- `NamesInv`: no two files share a name, and a name is never given out twice.
- `OfItsFile`: a rollup found under a name, in the cache or beside a segment, is the rollup
  of *some* set of versions, one to a key, that contains what the file of that name holds
  now, and is comparable with what the running aggregation pinned under the name. A purge
  rewrites a segment under its own name, so a rollup may be of another content than the file
  has; but a purge only ever shrinks a file. Of two sets, one within the other, the binding
  tells them apart by the count alone (`BelievedIsOf`). If a rollup is
  believed by its path alone, the property fails (`Believed_ByPath`).
- `CountedInv`, `AtBuffer`, `AtPin`, `AtWalk`: what was counted is disjoint and was an
  answer; between the capture of the buffer and the pinning of the segments, and then
  segment by segment from the newest, every span that stood still is counted already, in
  the buffer, or in a segment yet to be walked with nothing above it. The keys of the
  segments walked so far are what a hash is looked up in (`HashesFrom`), so an older
  version is not added below a newer one that a rollup counted whole.

What a limited merge, a page and the trace lookup answer stays with TLC: they are folds
over sequences, and what a fold computes is an induction over data.

### Only model-checked

All liveness (beyond the prover), and everything about the modules not named above.
`Tiering`, `LegacyFormats`, `SegmentFile` and `RemoteReads` are built on folds and
sequence operators of the community modules, about which the prover knows nothing, so
what their functions compute stays with TLC (the proofs about `Compaction` hold for whatever
`Tiering` chooses). Section 7 says what else is within its reach.

## 5. Divergences

Places where the code, followed step by step, does something that its own
documentation, comments or tests say it does not. One has a run of its own
(`session_stale`). Where a change of constants shows one, the change is given: the
property named then fails under TLC.

### The log and the engine

- **F1** `wal.rs:435` – a failed `write_all` leaves its bytes in the file; later frames
  land behind them and are acknowledged. *`wal.cfg` with `UnsafeSpec`, `Faults` =
  {"short_write", "kill"}, `MaxFaults` 2: `AckedIsDurable`.*
- **F2** `wal.rs:592` – waiters are woken by a rewrite before its directory fsync; for
  the same reason "replaying is always safe" does not extend to a power loss in that
  window. *`UnsafeSpec`, `Faults` = {"power_rename"}: `AckedIsDurable`.*
- **F3** `wal.rs:472` – `syncing` is set before `try_clone`, whose `?` leaks it; every
  later commit waits (`CommitStartFails`, `RecloneFails`).
- **F4** `lib.rs:2532` – `flushed` mode drops the pending commit, so frames a seal left in
  the log are not synced when their batch is acknowledged from a later segment; a
  power loss lets an old frame hide a sealed newer version. *`store_faults.cfg` with
  `Spec`, `Modes` = {"flushed"}, `Faults` = {"power"}, two ingesters, three batches:
  `AckedSurvives`.*
- **F5** `lib.rs:2290` – reopening as `buffered` leaves the log; a later `wal` reopen
  replays it (`durability.md:41` and `:181` disagree). *`Modes` = {"wal", "buffered"},
  `Faults` = {"reopen", "kill"}: `AckedSurvives`.*
- **F6** `lib.rs:5593` – "a failed seal is a no-op", but if the rename lands and the
  directory fsync or reopen fails, the file stays under its final name.
- **F7** `lib.rs:5094` – retention rewrites the log only if the *buffer* held something
  expired; frames of sealed spans stay and replay. *`compaction.cfg` with
  `ReclaimOnSeal` FALSE: `ExpiredStaysGone`.*
- **F8** `lib.rs:7803` – a merge that failed after writing its journal leaves the journal
  beside a running store; retention changes names recovery decides by. The same from a
  failed first unlink whose output later expires wholly, and from a retire whose unlink
  succeeded and whose directory fsync failed. *`Compaction` with `UnsafeSpec`,
  `Faults` = {"kill", "cleanup"}, `Stale` = {1}, three batches, `MaxFaults` 2:
  `ReadsNewest`.*
- **F9** `lib.rs:5031` – a kill between an expiry's unlink and its directory fsync, then a
  power loss, brings the file back with nothing left to retire it.
- **F42** `lib.rs:7840` – the same pair of crashes can take live files. A merge that a kill
  interrupted is undone by recovery, which removes the journal and is killed before the
  directory fsync behind it ("the removal last and synced"). The next open finds no journal;
  its retention unlinks one of the inputs, and a power loss before that fsync keeps the
  unlink and brings the journal back. Now an input is missing, so recovery goes forward and
  deletes the other inputs, which are live. Neither the reopening nor retention fsyncs the
  directory before it acts on what it lists. *`compaction.cfg` with `Keys` = {k1}, `Stale` =
  {1}, `Faults` = {"kill", "power"}, `MaxFaults` 3, `MaxBatches` 3: `ReadsNewest`.*

### Erasure

- **F10** `lib.rs:6037` – the tick resumes an erasure its handler is still running, and
  goes on deleting after the settle. *`erasure.cfg` with `Hosts` = {"server"}:
  `NewDataIsKept`.* Without that overlap new data is safe through every crash and error,
  which `OnlyTheSubjectGoes` says.
- **F11** `lib.rs:2520` – the gate is dropped before the batch reaches the live tail, so an
  erased span may be served after the settle; in `flushed` mode the ingest waits for the
  very permit the purge holds, which makes the order likely. *`erasure.cfg`:
  `TailHidesErased`.*
- **F12** A span retention removed before an erasure resolved its keys is not among the
  keys the erasure veils, and may still be in the ring.
- **F13** `lib.rs:6302` – an erasure that fails between purge and veil is resumed by a pass
  that finds nothing, so (other than for a tenant) veils nothing.
- **F14** `lib.rs:6206` – a crash between purge and sweep forgets the payload references of
  superseded versions, except for a tenant, whose references were noted.
- **F15** `erasure.rs:932` – a partial append to the tombstone log becomes a malformed
  interior line, which `open` refuses.
- **F16** `lib.rs:6262` – the live tail is veiled for the keys whose physical records the
  purge found. A version overwritten in the buffer before any seal is in the ring only;
  erase its session (or payload) and the tail goes on serving it after the settle, and
  the receipt's live-tail domain takes it for new activity ("the live tail must stop
  serving what the store no longer holds").
- **F17** `erasure.rs:251` – a session subject is purged version by version: a superseded
  version of another session becomes the newest again.
- **F18** `erasure.rs`, `Mask::for_pending` – adds the span keys of *payload* subjects to
  the keys that drop whole spans at admission and discard annotations while the erasure
  is pending, where `covers_for_drop` says dropping them "would destroy the span's
  unrelated data permanently" and `drop_annotations_for` that payload subjects "drop
  nothing".
- **F19** For a session subject, annotations are dropped for the keys the current pass
  found; a crash between the purge and that drop leaves them, the resumed erasure
  settles, and the receipt says not erased for ever ("every step is idempotent").
- **F20** The receipt's walk of the pins ignores, for a session subject, annotations
  addressed to erased keys, which its walk of the live store includes; an annotation
  posted after the settle on an erased trace, span or session fails the receipt; so does
  a retained payload whose last holder goes later ("sweep did not complete").
- **F21** `lib.rs:6777` – the pin walk flags any covered span, so a pin taken after the
  settle that holds only new activity fails the receipt, where the comment says it is
  "reported without failing it".
- **F22** The payload domain reads the live references before the existence of the file:
  an upload between the two is reported as present and unreferenced.

### The directory, pins and restores

- **F23** `lib.rs:1857` – a dead reclaimer's sentinel is cleared by a check and then a
  removal, so a late remover takes a live reclaimer's, and two processes come to own the
  directory (`lib.rs:1777-1783` says one wins). *`DirectoryLock` with `LockSpec`, four
  processes, `CrashAt` = {"in", "claiming", "verify"}, `MaxDead` 2: `MutualExclusion`.*
- **F24** `lib.rs:1870` – a death between the creation of `LOCK` and its pid leaves an
  empty file that is taken for a live owner's until somebody removes it (the comment there
  calls this conservative; `directory` does not let a process die there).
- **F25** `generation.rs:525` – an install removes the working set before `CURRENT` moves,
  and the files it copies are not fsynced before. *`directory.cfg` with `InstallDies`
  TRUE: `OpenHoldsOneStore`.*

### Payload files, evaluations, annotations

- **F26** `payload.rs:362` – no directory fsync after a payload file's rename.
- **F27** `payload.rs:490` – a temporary file renamed between `read_dir` and `metadata`
  aborts the sweep.
- **F28** `evals.rs:1330` and `annotations.rs:508` – an append whose fsync failed is in the
  file and not in memory; the purge finds nothing to remove, returns early, and the record
  is back after a restart. So is a score whose experiment the purge did take: it dangles
  then. *`evals`, with erasures added to `MCEvals`'s scope of `unsynced` appends:
  `ErasedStaysErased` and `NothingDangles`.*
- **F29** `evals.rs:613`, `annotations.rs:304` – a partial append leaves a torn line that the
  next append makes interior, and the next open refuses the log.
- **F30** `evals.rs:828`, about `:993` – an idempotent answer acknowledges a record an
  earlier call wrote and did not sync; and the directory is synced only on the call that
  created the file. If `purge_tenant` fails after its rename, memory keeps what the file
  has lost.
- **F31** `mcp.rs`, `promote_failures` – its reads and its appends are separate calls, and
  the erasure gate is taken per append: a promotion that read before an erasure of the
  tenant and writes after it settled puts copies of erased attributes into a new dataset;
  two promotions that both find no dataset of the name create two ("two datasets sharing
  a name would silently split the regression suite in half").

### Reads and segments

- **F32** `lib.rs:3158` – the session union matches a version before it claims its key, so
  a superseded version is answered (`lib.rs:2798-2799` says precedence is the usual one).
  Run `session_stale`.
- **F33** `lib.rs:2918` – a snapshot loads the mask before it takes the locks.
- **F34** `lib.rs:8090`, about – the exclusion `not_attr` compares types where
  `attribute_equals` does not; and comments of `segment.rs` still say the time fences
  carry no checksum, where format 8 covers the block directory that holds them.

### Object storage

- **F35** `publish.rs:358`, `:439` – B finds no manifest, A commits and removes its marker,
  B creates its marker and overwrites A's objects without a condition
  (`object_storage.rs:33`, `publish.rs:22` say publishers exclude one another). *`archive.cfg`
  with `PinOf <- TwoPins`: `SnapshotsAreWhole`.*
- **F36** A `cleanup` that gave up on its tombstone may have it land later, over what was
  published since (the assumption `AckCoversLate`); `list_snapshots` reports a foreign id
  that is retired meanwhile as complete.

### The server

- **F37** `traza-server.rs:1593` – an asset (or the 404 without a dashboard) on a kept-alive
  connection never drains its head, which is then read as the next request
  (`:3688-3693`). *`serving.cfg` with `Scopes <- OnlyAssets`: `AnswersInOrder`.*
- **F38** The hundred-thousandth answer of a connection announces keep-alive and closes; an
  idle timeout is answered by an unsolicited 400; `tail_after` loads the mask once, before
  a wait of up to 15 seconds.

### Migration

- **F39** `migration.rs` – a kill after a blob's rename: the resumed pass finds it current
  and never syncs its shard, so a later power loss reverts it under a store declared to be
  of format 8; likewise `wal.log` in the adoption. *`files.cfg` with `Beyond` =
  {"powerafterkill"}: `ServedStoreVerifies`.*
- **F40** `migration.rs:686-700`, about – a format-6 segment of a pin is converted without a
  look at the manifest's digest, so rot that still parses is given a fresh one. *`Beyond` =
  {"silentrot"}: `NothingLaundered`.*
- **F43** `migration.rs:758` – what `migrate_pin` refuses to do ("laundered into a manifest
  that then verifies clean over garbage", `migration.rs:682-684`) the live store's completion
  does: it hashes whatever lies under a name. A live segment that an earlier, stopped opening
  converted, and whose blocks rotted before the next, is skipped by its version word and
  opened lazily, so the live manifest vouches for the damage, and contradicts the file once
  that is restored. *`files.cfg` with `MaxFaults` = 4 (kill, rot, kill, rot):
  `ServedStoreVerifies`.*
- **F41** `migration.rs:90-101` – a migration entered because an old segment was restored
  into a store already declared new cannot be resumed: stopped after the segment pass, the
  next open sees the new words and the declaration, and serves raw blobs. *`Beyond` =
  {"oldbackup"}: `ServedStoreVerifies`.*

## 6. What is not modelled

- *Bytes*: varints, LZ4, hashing, OTLP, JSON. The repository's property tests cover them.
  What a decoder decides about damaged parts *is* modelled (`Wal`, `SegmentFile`,
  `LegacyFormats`, `RemoteReads`).
- *Thresholds in bytes and time*: whether a seal, merge or age seal is due is left
  open, except for the tiering functions, whose arithmetic decides what is merged.
- *Of reads*: explicit sorts, deadlines, numeric ranges, the status predicates.
- *Of the analytics*: the arithmetic of counters, pricing, insights and attribution, which
  are sequential functions of the spans.
- *Of erasure*: several erasures at once; the payload subject among the crashes and threads
  of `Erasure` (`Receipts` has it, with a purge of three steps).
- *Of retention*: per-tenant windows. *Of the engine*: `verify`, a failed seal's file.
- *Of tenancy*: the parsing and comparison of tokens; a span sent with a ready-made payload
  reference; parents of dataset versions; the subjects session and span; a pending erasure
  that withholds a payload two tenants share (the code says so; it is back at the settle).
- *Of the server*: parsing of parameters, operator routes beyond their verdict, options,
  TLS, and that every connection slot comes back (it is released by a drop guard).
- *Of object storage*: `list_snapshots`, transfer budgets, multipart aborts, the thread that
  runs the requests. *Of migration*: directories of the JSONL format, which every step
  refuses.
- *The MCP protocol* and the rendering of its answers, UI, metrics, semantics, benchmarks,
  the demo generator: no state that outlives a call.
- The log and the tombstone log do not lose a synced prefix: silent media corruption
  of those two is out of scope, as it is for the code.

## 7. The plan

Done, with proofs: `Wal` and that it implements its contract; `Store`, its folds, its
acknowledgements and that it implements its contract; `Compaction`; `Erasure`; `DirectoryLock` and
`Directory`; `TailRing` and `Serving`; `Tenancy`; the sweep of `Payloads`; `Archive`;
`Evals`; `Migration`, that it launders nothing; `Rollups` and the unlimited scan of `Reading`.
Done, model-checked: `Tiering`; `RemoteReads`; `Receipts`; pages and limits of `Reading`;
`SegmentFile`; that a migrated store verifies.

What would come next, in the order of its worth:

1. The file a failed seal leaves (F6), in `Compaction`, which has the set of names.
2. Several erasures at once, and the payload subject, in `Erasure`.
3. A proof within the prover's reach: the walk of the receipt in `Receipts`.

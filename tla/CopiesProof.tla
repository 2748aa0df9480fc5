---------------------------- MODULE CopiesProof ----------------------------
(***************************************************************************)
(* What is kept beside the store besides its own spans, and the reads over *)
(* its layers.                                                             *)
(*                                                                         *)
(* The archive: what a snapshot id keeps to, for any clients, stores and   *)
(* packs, and any number of operations, crashes and late requests: what a  *)
(* reader opens is whole, what was published stays until its deletion is   *)
(* asked for, and a retired id keeps the evidence of whose it was.         *)
(*                                                                         *)
(* The rollups of segments: an aggregation counts each span once whatever  *)
(* rollups it finds, for any spans, windows and number of steps; and an    *)
(* unlimited scan of the layers answers the newest version of each key.    *)
(***************************************************************************)
EXTENDS Archive, Rollups, TLAPS, FiniteSetTheorems, WellFoundedInduction

\* Whoever publishes under the id publishes the same pin.
SamePin == \A c, d \in Clients : PinOf[c] = PinOf[d]

----------------------------------------------------------------------------
(* Types.                                                                  *)

Plain == {"idle", "p-tombstone", "p-manifest", "p-claim", "p-refence", "p-marker", "p-commit",
          "p-recheck", "p-unmark", "p-ok", "list", "d-tombstone", "d-manifest", "d-unlist",
          "c-tombstone", "c-manifest", "c-marker", "c-unmark", "c-intent"}

Removals == [write : {"unmark", "unlist"}] \cup [write : {"remove"}, pack : Packs]

Requests ==
    Removals
    \cup [write : {"claim"}, store : Stores]
    \cup [write : {"put"}, pack : Packs, pin : Pins]
    \cup [write : {"commit"}, snapshot : Snapshot]
    \cup [write : {"retire"}, store : Stores, sweeping : BOOLEAN]

ClientStates ==
    [at : Plain]
    \cup [at : {"p-pack", "p-verify"}, pack : Packs]
    \cup [at : {"fence", "get"}, deleting : BOOLEAN]
    \cup [at : {"retire"}, store : Stores, sweeping : BOOLEAN]
    \cup [at : {"sweep"}, todo : SUBSET Removals]

ArchiveTypes ==
    /\ tombstone \in Stores \cup {None}
    /\ marker \in Stores \cup {None}
    /\ manifest \in Snapshot \cup {None}
    /\ objects \in [Packs -> Pins \cup {None}]
    /\ clients \in [Clients -> ClientStates]
    /\ late \subseteq Requests
    /\ published \in Snapshot \cup {None}
    /\ askers \subseteq Stores

----------------------------------------------------------------------------
(* The invariant.                                                          *)

Retired == tombstone # None

\* Nothing is removed from an id that is not retired.
Fenced(k) == k.at \in {"list", "sweep", "d-unlist"} => Retired

\* Up to where an upload has come its packs are there, unless the id is retired.
Uploaded(c, k) ==
    /\ k.at \in {"p-pack", "p-verify"} =>
           Retired \/ \A n \in Packs : n < k.pack => objects[n] = PinOf[c]
    /\ k.at \in {"p-refence", "p-marker", "p-commit"} =>
           Retired \/ \A n \in Packs : objects[n] = PinOf[c]

\* Somebody who may delete what the store has published asked for it.
Asked(owner) == askers \cap {Unconfigured, owner} # {}

\* A retirement that is on its way is that of an upload without a manifest, in
\* the name of its marker, or that of the snapshot, whose deletion was asked for.
Justified(owner, sweeping) ==
    \/ Retired
    \/ sweeping /\ manifest = None /\ marker \in {None, owner}
    \/ ~sweeping /\ manifest # None /\ manifest.store = owner /\ Asked(owner)

\* Who deletes has asked, and who sweeps found no manifest.
Entitled(c, k) ==
    /\ k.at = "d-tombstone" => Retired \/ Identity[c] \in askers
    /\ k.at = "d-manifest" => Identity[c] \in askers
    /\ k.at \in {"fence", "get"} => ~k.deleting \/ Identity[c] \in askers
    /\ k.at = "c-intent" => Retired \/ manifest = None
    /\ k.at = "retire" => Justified(k.store, k.sweeping)

SnapshotOf(c) == [store |-> Identity[c], pin |-> PinOf[c]]

\* A snapshot is what a reader opens, until its deletion is asked for.
Stands(snapshot) == (~Retired /\ manifest = snapshot) \/ Asked(snapshot.store)

\* A publication whose manifest was found unretired stands.
Committed(c, k) ==
    /\ k.at = "p-recheck" => Retired \/ manifest = SnapshotOf(c)
    /\ k.at \in {"p-unmark", "p-ok"} => Stands(SnapshotOf(c))

ClientOk(c, k) ==
    /\ Fenced(k)
    /\ SamePin => Uploaded(c, k)
    /\ AckCoversLate => Entitled(c, k) /\ Committed(c, k)

RequestOk(r) ==
    /\ r.write \in {"remove", "unlist"} => Retired
    /\ SamePin /\ r.write = "commit" => Retired \/ Complete(r.snapshot)
    /\ AckCoversLate /\ r.write = "retire" => Justified(r.store, r.sweeping)

BucketOk ==
    /\ SamePin /\ manifest # None => Retired \/ Complete(manifest)
    /\ AckCoversLate /\ published # None => Stands(published)

ArchiveInv ==
    /\ ArchiveTypes
    /\ \A c \in Clients : ClientOk(c, clients[c])
    /\ \A r \in late : RequestOk(r)
    /\ BucketOk

----------------------------------------------------------------------------
(* What a request does to the bucket.                                      *)

\* A request that puts a marker or a manifest where there was none.
Creates(r) == r.write \in {"claim", "commit"}

\* No retirement of a sweep is decided, or on its way.
NobodySweeps ==
    /\ \A c \in Clients : /\ clients[c].at # "c-intent"
                          /\ clients[c].at = "retire" => ~clients[c].sweeping
    /\ \A r \in late : r.write = "retire" => ~r.sweeping

\* Retirement is for ever, and until then what was put there stays (Apply).
LEMMA AppliedRequest ==
    ASSUME ArchiveTypes, NEW r \in Requests, RequestOk(r), Apply(r)
    PROVE  /\ tombstone' \in Stores \cup {None} /\ marker' \in Stores \cup {None}
           /\ manifest' \in Snapshot \cup {None} /\ objects' \in [Packs -> Pins \cup {None}]
           /\ Retired => Retired'
           /\ ~Retired' /\ manifest # None => manifest' = manifest
           /\ marker' \in {None, marker} \/ r.write = "claim"
           /\ manifest' \in {None, manifest} \/ (r.write = "commit" /\ manifest' = r.snapshot)
           /\ ~Retired /\ Retired' => /\ r.write = "retire" /\ tombstone' = r.store
                                      /\ manifest' = manifest /\ marker' = marker
<1>1. tombstone' \in Stores \cup {None} /\ (Retired => Retired')
  BY ArchiveAssumption DEF Apply, Create, Requests, Removals, ArchiveTypes, Retired
<1>2. /\ marker' \in Stores \cup {None}
      /\ marker' \in {None, marker} \/ r.write = "claim"
  BY DEF Apply, Create, Requests, Removals, ArchiveTypes
<1>3. /\ manifest' \in Snapshot \cup {None}
      /\ manifest' \in {None, manifest} \/ (r.write = "commit" /\ manifest' = r.snapshot)
      /\ manifest # None => manifest' = manifest \/ r.write = "unlist"
  BY DEF Apply, Create, Requests, Removals, ArchiveTypes
<1>4. objects' \in [Packs -> Pins \cup {None}]
  BY DEF Apply, Requests, Removals, ArchiveTypes
<1>5. ~Retired /\ Retired' => r.write = "retire" /\ tombstone' = r.store
  BY DEF Apply, Create, Retired
<1>6. r.write = "retire" => manifest' = manifest /\ marker' = marker
  BY DEF Apply
<1> QED BY <1>1, <1>2, <1>3, <1>4, <1>5, <1>6 DEF RequestOk

\* With one pin, no pack that is there is taken from an id that is not retired.
LEMMA PacksStay ==
    ASSUME ArchiveTypes, NEW r \in Requests, RequestOk(r), Apply(r), SamePin, ~Retired',
           NEW p \in Pins, NEW n \in Packs, objects[n] = p
    PROVE  objects'[n] = p
<1>1. r.write # "remove"
  BY AppliedRequest DEF RequestOk
<1>2. CASE r.write = "put"
  <2>1. r.pin \in Pins /\ r.pin = p
    BY <1>2 DEF Requests, Removals, SamePin, Pins
  <2> QED BY <1>2, <2>1 DEF Apply, ArchiveTypes
<1>3. CASE r.write # "put"
  BY <1>1, <1>3 DEF Apply
<1> QED BY <1>2, <1>3

\* A retirement that is justified stays so, since nothing is claimed or published
\* beside a sweep.
LEMMA JustifiedStays ==
    ASSUME ArchiveTypes, NEW r \in Requests, RequestOk(r), Apply(r), askers' = askers,
           NEW owner \in Stores, NEW sweeping \in BOOLEAN, Justified(owner, sweeping),
           ~(sweeping /\ Creates(r))
    PROVE  Justified(owner, sweeping)'
<1>1. CASE Retired'
  BY <1>1 DEF Justified
<1>2. CASE ~Retired' /\ sweeping
  <2>1. manifest = None /\ marker \in {None, owner}
    BY <1>2, AppliedRequest DEF Justified
  <2>2. manifest' = None /\ marker' \in {None, owner}
    BY <1>2, <2>1, AppliedRequest DEF Creates
  <2> QED BY <1>2, <2>2 DEF Justified
<1>3. CASE ~Retired' /\ ~sweeping
  <2>1. manifest # None /\ manifest.store = owner /\ Asked(owner)
    BY <1>3, AppliedRequest DEF Justified
  <2>2. manifest' = manifest
    BY <1>3, <2>1, AppliedRequest
  <2> QED BY <1>3, <2>1, <2>2 DEF Justified, Asked
<1> QED BY <1>1, <1>2, <1>3

\* A snapshot that stands stays, or falls to a retirement that was asked for.
LEMMA StandsStays ==
    ASSUME ArchiveTypes, NEW r \in Requests, RequestOk(r), Apply(r), askers' = askers,
           AckCoversLate, NEW s \in Snapshot, Stands(s)
    PROVE  Stands(s)'
<1>1. CASE Asked(s.store)
  BY <1>1 DEF Stands, Asked
<1>2. CASE ~Retired /\ manifest = s /\ ~Retired'
  <2>1. s # None
    BY ArchiveAssumption DEF Snapshot
  <2> QED BY <1>2, <2>1, AppliedRequest DEF Stands
<1>3. CASE ~Retired /\ manifest = s /\ Retired'
  <2>1. s # None
    BY ArchiveAssumption DEF Snapshot
  <2>2. r.write = "retire"
    BY <1>3, AppliedRequest
  <2>3. Justified(r.store, r.sweeping)
    BY <2>2 DEF RequestOk
  <2>4. Asked(s.store)
    BY <1>3, <2>1, <2>3 DEF Justified
  <2> QED BY <2>4 DEF Stands, Asked
<1> QED BY <1>1, <1>2, <1>3 DEF Stands

\* What a client relies on survives the requests of the others.
LEMMA ClientStays ==
    ASSUME ArchiveTypes, NEW r \in Requests, RequestOk(r), Apply(r), askers' = askers,
           NEW c \in Clients, NEW k \in ClientStates, ClientOk(c, k),
           AckCoversLate /\ Creates(r) => k.at # "c-intent" /\ (k.at = "retire" => ~k.sweeping)
    PROVE  ClientOk(c, k)'
<1>1. Fenced(k)'
  BY AppliedRequest DEF ClientOk, Fenced
<1>2. ASSUME SamePin PROVE Uploaded(c, k)'
  <2>1. CASE Retired'
    BY <2>1 DEF Uploaded
  <2>2. CASE ~Retired'
    <3>1. PinOf[c] \in Pins
      BY DEF Pins
    <3>2. \A n \in Packs : objects[n] = PinOf[c] => objects'[n] = PinOf[c]
      BY <1>2, <2>2, <3>1, PacksStay
    <3>3. ~Retired
      BY <2>2, AppliedRequest
    <3> QED BY <1>2, <3>2, <3>3 DEF ClientOk, Uploaded
  <2> QED BY <2>1, <2>2
<1>3. ASSUME AckCoversLate PROVE Entitled(c, k)'
  <2>0. Entitled(c, k)
    BY <1>3 DEF ClientOk
  <2>1. k.at = "d-tombstone" => (Retired \/ Identity[c] \in askers)'
    BY <2>0, AppliedRequest DEF Entitled
  <2>2. k.at = "c-intent" => (Retired \/ manifest = None)'
    <3> SUFFICES ASSUME k.at = "c-intent", ~Retired' PROVE manifest' = None
      OBVIOUS
    <3>1. manifest = None /\ ~Creates(r)
      BY <2>0, <1>3, AppliedRequest DEF Entitled
    <3> QED BY <3>1, AppliedRequest DEF Creates
  <2>3. k.at = "retire" => Justified(k.store, k.sweeping)'
    <3> SUFFICES ASSUME k.at = "retire" PROVE Justified(k.store, k.sweeping)'
      OBVIOUS
    <3>1. PICK s, w : s = k.store /\ w = k.sweeping /\ s \in Stores /\ w \in BOOLEAN
      BY DEF ClientStates, Plain
    <3>2. Justified(s, w) /\ ~(w /\ Creates(r))
      BY <2>0, <3>1, <1>3 DEF Entitled
    <3>3. Justified(s, w)'
      BY <3>1, <3>2, JustifiedStays
    <3> QED BY <3>1, <3>3
  <2> QED BY <2>0, <2>1, <2>2, <2>3 DEF Entitled
<1>4. ASSUME AckCoversLate PROVE Committed(c, k)'
  <2>0. Committed(c, k)
    BY <1>4 DEF ClientOk
  <2>1. SnapshotOf(c) \in Snapshot /\ SnapshotOf(c)' = SnapshotOf(c)
    BY DEF SnapshotOf, Snapshot, Stores, Pins
  <2>2. k.at = "p-recheck" => (Retired \/ manifest = SnapshotOf(c))'
    <3>1. SnapshotOf(c) # None
      BY <2>1, ArchiveAssumption DEF Snapshot
    <3> QED BY <2>0, <2>1, <3>1, AppliedRequest DEF Committed
  <2>3. k.at \in {"p-unmark", "p-ok"} => Stands(SnapshotOf(c))'
    <3>1. PICK s \in Snapshot : s = SnapshotOf(c)
      BY <2>1
    <3>2. Stands(s) => Stands(s)'
      BY <1>4, StandsStays
    <3>3. Stands(s)' => Stands(SnapshotOf(c))'
      BY <3>1, <2>1 DEF Stands, Asked
    <3> QED BY <2>0, <3>1, <3>2, <3>3 DEF Committed
  <2> QED BY <2>2, <2>3 DEF Committed
<1> QED BY <1>1, <1>2, <1>3, <1>4 DEF ClientOk

\* So does what a request on its way relies on.
LEMMA RequestStays ==
    ASSUME ArchiveTypes, NEW r \in Requests, RequestOk(r), Apply(r), askers' = askers,
           NEW q \in Requests, RequestOk(q),
           AckCoversLate /\ Creates(r) => (q.write = "retire" => ~q.sweeping)
    PROVE  RequestOk(q)'
<1>1. q.write \in {"remove", "unlist"} => Retired'
  BY AppliedRequest DEF RequestOk
<1>2. SamePin /\ q.write = "commit" => (Retired \/ Complete(q.snapshot))'
  <2> SUFFICES ASSUME SamePin, q.write = "commit", ~Retired' PROVE Complete(q.snapshot)'
    OBVIOUS
  <2>1. ~Retired
    BY AppliedRequest
  <2>2. q.snapshot.pin \in Pins
    BY DEF Requests, Removals, Snapshot
  <2>3. \A n \in Packs : objects[n] = q.snapshot.pin
    BY <2>1 DEF RequestOk, Complete
  <2>4. \A n \in Packs : objects'[n] = q.snapshot.pin
    BY <2>2, <2>3, PacksStay
  <2> QED BY <2>4 DEF Complete
<1>3. AckCoversLate /\ q.write = "retire" => Justified(q.store, q.sweeping)'
  <2> SUFFICES ASSUME AckCoversLate, q.write = "retire" PROVE Justified(q.store, q.sweeping)'
    OBVIOUS
  <2>1. q.store \in Stores /\ q.sweeping \in BOOLEAN
    BY DEF Requests, Removals
  <2> QED BY <2>1, JustifiedStays DEF RequestOk
<1> QED BY <1>1, <1>2, <1>3 DEF RequestOk

\* And the snapshot that is there, or was published, is still what it was.
LEMMA BucketStays ==
    ASSUME ArchiveTypes, NEW r \in Requests, RequestOk(r), Apply(r),
           askers' = askers, published' = published, BucketOk
    PROVE  BucketOk'
<1>1. SamePin /\ manifest' # None => (Retired \/ Complete(manifest))'
  <2> SUFFICES ASSUME SamePin, manifest' # None, ~Retired' PROVE Complete(manifest)'
    OBVIOUS
  <2>1. ~Retired
    BY AppliedRequest
  <2>2. PICK s : s = manifest'
    OBVIOUS
  <2>3. s \in Snapshot /\ s.pin \in Pins
    BY <2>2, AppliedRequest DEF Snapshot
  <2>4. s = manifest \/ (r.write = "commit" /\ s = r.snapshot)
    BY <2>2, AppliedRequest
  <2>5. \A n \in Packs : objects[n] = s.pin
    BY <2>1, <2>2, <2>4 DEF BucketOk, RequestOk, Complete
  <2>6. \A n \in Packs : objects'[n] = s.pin
    BY <2>3, <2>5, PacksStay
  <2> QED BY <2>2, <2>6 DEF Complete
<1>2. AckCoversLate /\ published' # None => Stands(published)'
  <2> SUFFICES ASSUME AckCoversLate, published' # None PROVE Stands(published)'
    OBVIOUS
  <2>1. PICK s \in Snapshot : s = published
    BY DEF ArchiveTypes
  <2>2. Stands(s)'
    BY <2>1, StandsStays DEF BucketOk
  <2> QED BY <2>1, <2>2 DEF Stands, Asked
<1> QED BY <1>1, <1>2 DEF BucketOk

----------------------------------------------------------------------------
(* The steps of a client, by what they do to the bucket.                   *)

\* A client that only reads, asks for a deletion, or leaves a request on its way
\* disturbs nobody.
LEMMA Quiet ==
    ASSUME ArchiveInv, NEW c \in Clients, NEW l \in ClientStates, Become(c, l),
           UNCHANGED bucket,
           published' = published \/ published' \in {s \in Snapshot : AckCoversLate => Stands(s)},
           \A q \in late' : q \in late \/ (q \in Requests /\ RequestOk(q)),
           askers \subseteq askers', askers' \subseteq Stores, ClientOk(c, l)'
    PROVE  ArchiveInv'
<1> USE DEF bucket
<1>1. ArchiveTypes'
  BY DEF ArchiveInv, ArchiveTypes, Become
<1>2. ASSUME NEW d \in Clients PROVE ClientOk(d, clients[d])'
  <2>1. CASE d = c
    BY <2>1 DEF ArchiveInv, ArchiveTypes, Become
  <2>2. CASE d # c
    <3>1. PICK k : k = clients[d]
      OBVIOUS
    <3>2. clients'[d] = k
      BY <2>2, <3>1 DEF ArchiveInv, ArchiveTypes, Become
    <3>3. ClientOk(d, k)
      BY <3>1 DEF ArchiveInv
    <3>4. ClientOk(d, k)'
      <4>1. Fenced(k)'
        BY <3>3 DEF ClientOk, Fenced, Retired
      <4>2. SamePin => Uploaded(d, k)'
        BY <3>3 DEF ClientOk, Uploaded, Retired
      <4>3. AckCoversLate => Entitled(d, k)'
        BY <3>3 DEF ClientOk, Entitled, Justified, Asked, Retired
      <4>4. AckCoversLate => Committed(d, k)'
        BY <3>3 DEF ClientOk, Committed, Stands, Asked, Retired, SnapshotOf
      <4> QED BY <4>1, <4>2, <4>3, <4>4 DEF ClientOk
    <3> QED BY <3>2, <3>4
  <2> QED BY <2>1, <2>2
<1>3. \A q \in late' : RequestOk(q)'
  BY DEF ArchiveInv, RequestOk, Justified, Asked, Retired, Complete
<1>4. BucketOk'
  BY DEF ArchiveInv, BucketOk, Stands, Asked, Retired, Complete
<1> QED BY <1>1, <1>2, <1>3, <1>4 DEF ArchiveInv

\* A read takes its client to any place whose claims already hold.
LEMMA ReadStep ==
    ASSUME ArchiveInv, NEW c \in Clients, NEW l \in ClientStates, Become(c, l), Reads,
           ClientOk(c, l)
    PROVE  ArchiveInv'
<1>1. ClientOk(c, l)'
  BY DEF ClientOk, Reads, bucket, others, Fenced, Uploaded, Entitled, Committed, Justified,
     Stands, Asked, Retired, SnapshotOf
<1>2. askers' = askers /\ askers \subseteq Stores
  BY DEF Reads, others, ArchiveInv, ArchiveTypes
<1> QED BY <1>1, <1>2, Quiet DEF Reads, others

\* Whoever gives up, or is done, claims nothing.
LEMMA IdleIsOk == ASSUME NEW c \in Clients PROVE Idle \in ClientStates /\ ClientOk(c, Idle)
BY DEF Idle, ClientStates, Plain, ClientOk, Fenced, Uploaded, Entitled, Committed

\* A request arrives: what the others rely on is kept.
LEMMA Arrival ==
    ASSUME ArchiveInv, NEW r \in Requests, RequestOk(r), Apply(r),
           AckCoversLate /\ Creates(r) => NobodySweeps,
           UNCHANGED <<published, askers>>, late' \subseteq late,
           clients' \in [Clients -> ClientStates],
           \A d \in Clients : clients'[d] = clients[d] \/ ClientOk(d, clients[d])'
    PROVE  ArchiveInv'
<1>1. ArchiveTypes'
  BY AppliedRequest DEF ArchiveInv, ArchiveTypes
<1>2. ASSUME NEW d \in Clients PROVE ClientOk(d, clients[d])'
  <2>1. CASE ClientOk(d, clients[d])'
    BY <2>1
  <2>2. CASE clients'[d] = clients[d]
    <3>1. PICK k : k = clients[d]
      OBVIOUS
    <3>2. clients'[d] = k /\ k \in ClientStates
      BY <2>2, <3>1 DEF ArchiveInv, ArchiveTypes
    <3>3. AckCoversLate /\ Creates(r) => k.at # "c-intent" /\ (k.at = "retire" => ~k.sweeping)
      BY <3>1 DEF NobodySweeps
    <3>4. ClientOk(d, k)'
      BY <3>1, <3>2, <3>3, ClientStays DEF ArchiveInv
    <3> QED BY <3>2, <3>4
  <2> QED BY <2>1, <2>2
<1>3. ASSUME NEW q \in late' PROVE RequestOk(q)'
  <2>1. q \in late /\ q \in Requests /\ RequestOk(q)
    BY DEF ArchiveInv, ArchiveTypes
  <2>2. AckCoversLate /\ Creates(r) => (q.write = "retire" => ~q.sweeping)
    BY <2>1 DEF NobodySweeps
  <2> QED BY <2>1, <2>2, RequestStays DEF ArchiveInv
<1>4. BucketOk'
  BY BucketStays DEF ArchiveInv
<1> QED BY <1>1, <1>2, <1>3, <1>4 DEF ArchiveInv

\* A request is answered, or outlives its client's patience.
LEMMA Sent ==
    ASSUME ArchiveInv, NEW c \in Clients, NEW r \in Requests, RequestOk(r),
           NEW l \in ClientStates, Send(c, r, l),
           AckCoversLate /\ Creates(r) => NobodySweeps,
           Apply(r) /\ askers' = askers => ClientOk(c, l)'
    PROVE  ArchiveInv'
<1>1. CASE Apply(r) /\ Become(c, l) /\ UNCHANGED others
  <2>1. clients' \in [Clients -> ClientStates]
    BY <1>1 DEF ArchiveInv, ArchiveTypes, Become
  <2>2. clients'[c] = l /\ \A d \in Clients \ {c} : clients'[d] = clients[d]
    BY <1>1 DEF ArchiveInv, ArchiveTypes, Become
  <2>3. ClientOk(c, clients[c])'
    BY <1>1, <2>2 DEF others
  <2> QED BY <1>1, <2>1, <2>2, <2>3, Arrival DEF others
<1>2. CASE /\ late' = late \cup {r}
           /\ Become(c, Idle)
           /\ UNCHANGED <<bucket, published, askers, ops>>
  <2>1. PICK m : m = Idle
    OBVIOUS
  <2>2. m \in ClientStates /\ ClientOk(c, m)'
    BY <2>1, IdleIsOk DEF Idle, ClientOk, Fenced, Uploaded, Entitled, Committed
  <2>3. askers \subseteq askers' /\ askers' \subseteq Stores
    BY <1>2 DEF ArchiveInv, ArchiveTypes
  <2> QED BY <1>2, <2>1, <2>2, <2>3, Quiet
<1> QED BY <1>1, <1>2 DEF Send

LEMMA InitOk == Init => ArchiveInv
<1> SUFFICES ASSUME Init PROVE ArchiveInv
  OBVIOUS
<1>1. ArchiveTypes
  <2>1. clients \in [Clients -> ClientStates]
    BY IdleIsOk DEF Init
  <2> QED BY <2>1 DEF Init, ArchiveTypes
<1>2. \A c \in Clients : ClientOk(c, clients[c])
  BY IdleIsOk DEF Init
<1> QED BY <1>1, <1>2 DEF ArchiveInv, BucketOk, Init

\* What a client knows, by its place.
LEMMA Places ==
    ASSUME NEW k \in ClientStates
    PROVE  /\ k.at \in Plain => k \in [at : Plain]
           /\ k.at \in {"p-pack", "p-verify"} => k \in [at : {"p-pack", "p-verify"}, pack : Packs]
           /\ k.at \in {"fence", "get"} => k \in [at : {"fence", "get"}, deleting : BOOLEAN]
           /\ k.at = "retire" => k \in [at : {"retire"}, store : Stores, sweeping : BOOLEAN]
           /\ k.at = "sweep" => k \in [at : {"sweep"}, todo : SUBSET Removals]
BY DEF ClientStates, Plain

\* While the operator keeps the word, no sweep is decided or on its way.
LEMMA Word == Quiescent => NobodySweeps
BY DEF Quiescent, NobodySweeps, At

\* A request that arrives late.
LEMMA ArriveKeeps ==
    ASSUME ArchiveInv, NEW r \in late, Arrive(r)
    PROVE  ArchiveInv'
<1>1. r \in Requests /\ RequestOk(r)
  BY DEF ArchiveInv, ArchiveTypes
<1>2. AckCoversLate /\ Creates(r) => NobodySweeps
  BY Word DEF Arrive, Creates
<1> QED BY <1>1, <1>2, Arrival DEF Arrive, ArchiveInv, ArchiveTypes

\* Whoever begins, or gives up.
LEMMA BeginKeeps ==
    ASSUME ArchiveInv, NEW c \in Clients,
           BeginPublish(c) \/ BeginDelete(c) \/ BeginCleanup(c) \/ GiveUp(c)
    PROVE  ArchiveInv'
<1>1. PICK k \in ClientStates : k = clients[c]
  BY DEF ArchiveInv, ArchiveTypes
<1>2. askers \subseteq Stores /\ Identity[c] \in Stores
  BY DEF ArchiveInv, ArchiveTypes, Stores
<1>3. ASSUME NEW op \in {"p-tombstone", "d-tombstone", "c-tombstone"}, Begin(c, op)
      PROVE  \E l \in ClientStates : l.at = op /\ Become(c, l)
  <2>1. k \in [at : Plain]
    BY <1>1, <1>3, Places DEF Begin, At, Plain
  <2>2. [k EXCEPT !.at = op] \in ClientStates /\ [k EXCEPT !.at = op].at = op
    BY <2>1 DEF ClientStates, Plain
  <2> QED BY <1>1, <1>3, <2>2 DEF Begin, Goto
<1>4. CASE BeginPublish(c)
  <2>1. PICK l \in ClientStates : l.at = "p-tombstone" /\ Become(c, l)
    BY <1>3, <1>4 DEF BeginPublish
  <2>2. ClientOk(c, l)'
    BY <2>1 DEF ClientOk, Fenced, Uploaded, Entitled, Committed
  <2> QED BY <1>2, <1>4, <2>1, <2>2, Quiet DEF BeginPublish, Begin
<1>5. CASE BeginDelete(c)
  <2>1. PICK l \in ClientStates : l.at = "d-tombstone" /\ Become(c, l)
    BY <1>3, <1>5 DEF BeginDelete
  <2>2. ClientOk(c, l)'
    BY <1>5, <2>1 DEF BeginDelete, ClientOk, Fenced, Uploaded, Entitled, Committed
  <2> QED BY <1>2, <1>5, <2>1, <2>2, Quiet DEF BeginDelete, Begin
<1>6. CASE BeginCleanup(c)
  <2>1. PICK l \in ClientStates : l.at = "c-tombstone" /\ Become(c, l)
    BY <1>3, <1>6 DEF BeginCleanup
  <2>2. ClientOk(c, l)'
    BY <2>1 DEF ClientOk, Fenced, Uploaded, Entitled, Committed
  <2> QED BY <1>2, <1>6, <2>1, <2>2, Quiet DEF BeginCleanup, Begin
<1>7. CASE GiveUp(c)
  BY <1>7, IdleIsOk, ReadStep DEF GiveUp
<1> QED BY <1>4, <1>5, <1>6, <1>7

\* A publisher's reads: the fence, the packs, the fence again, the marker, the
\* manifest and the fence for the last time.
LEMMA PublisherReads ==
    ASSUME ArchiveInv, NEW c \in Clients,
           \/ CheckUnretired(c) \/ CheckUnpublished(c) \/ VerifyPack(c)
           \/ Refence(c) \/ CheckMarker(c) \/ Recheck(c)
    PROVE  ArchiveInv'
<1>1. PICK k \in ClientStates : k = clients[c]
  BY DEF ArchiveInv, ArchiveTypes
<1>2. ClientOk(c, k)
  BY <1>1 DEF ArchiveInv
<1>3. \A p \in {"p-manifest", "p-claim", "p-refence", "p-marker", "p-commit", "p-unmark"} :
         [at |-> p] \in ClientStates /\ [at |-> p].at = p
  BY DEF ClientStates, Plain
<1>4. CASE CheckUnretired(c)
  <2>1. PICK l : l = [at |-> "p-manifest"]
    OBVIOUS
  <2>2. ClientOk(c, l)
    BY <2>1 DEF ClientOk, Fenced, Uploaded, Entitled, Committed
  <2> QED BY <1>3, <1>4, <2>1, <2>2, IdleIsOk, ReadStep DEF CheckUnretired
<1>5. CASE CheckUnpublished(c)
  <2>1. PICK l : l = [at |-> "p-claim"]
    OBVIOUS
  <2>2. ClientOk(c, l)
    BY <2>1 DEF ClientOk, Fenced, Uploaded, Entitled, Committed
  <2> QED BY <1>3, <1>5, <2>1, <2>2, IdleIsOk, ReadStep DEF CheckUnpublished
<1>6. CASE VerifyPack(c)
  <2>1. k.at = "p-verify" /\ k \in [at : {"p-pack", "p-verify"}, pack : Packs]
    BY <1>1, <1>6, Places DEF VerifyPack, PublisherAt, At
  <2>2. CASE objects[k.pack] # PinOf[c]
    BY <1>1, <1>6, <2>2, IdleIsOk, ReadStep DEF VerifyPack
  <2>3. CASE objects[k.pack] = PinOf[c] /\ k.pack < PackCount
    <3>1. PICK l : l = [at |-> "p-pack", pack |-> k.pack + 1]
      OBVIOUS
    <3>2. k.pack + 1 \in Packs
      BY <2>1, <2>3, ArchiveAssumption DEF Packs
    <3>3. l \in ClientStates
      BY <3>1, <3>2 DEF ClientStates
    <3>4. SamePin => Uploaded(c, l)
      BY <1>2, <2>1, <2>3, <3>1, ArchiveAssumption DEF ClientOk, Uploaded, Packs
    <3>5. ClientOk(c, l)
      BY <3>1, <3>4 DEF ClientOk, Fenced, Entitled, Committed
    <3> QED BY <1>1, <1>6, <2>3, <3>1, <3>3, <3>5, ReadStep DEF VerifyPack
  <2>4. CASE objects[k.pack] = PinOf[c] /\ ~(k.pack < PackCount)
    <3>1. PICK l : l = [at |-> "p-refence"]
      OBVIOUS
    <3>2. SamePin => Uploaded(c, l)
      BY <1>2, <2>1, <2>4, <3>1, ArchiveAssumption DEF ClientOk, Uploaded, Packs
    <3>3. ClientOk(c, l)
      BY <3>1, <3>2 DEF ClientOk, Fenced, Entitled, Committed
    <3> QED BY <1>1, <1>3, <1>6, <2>4, <3>1, <3>3, ReadStep DEF VerifyPack
  <2> QED BY <2>2, <2>3, <2>4
<1>7. CASE Refence(c)
  <2>1. PICK l : l = [at |-> "p-marker"]
    OBVIOUS
  <2>2. ClientOk(c, l)
    BY <1>1, <1>2, <1>7, <2>1 DEF Refence, PublisherAt, At, ClientOk, Fenced, Uploaded, Entitled,
       Committed
  <2> QED BY <1>3, <1>7, <2>1, <2>2, IdleIsOk, ReadStep DEF Refence
<1>8. CASE CheckMarker(c)
  <2>1. PICK l : l = [at |-> "p-commit"]
    OBVIOUS
  <2>2. ClientOk(c, l)
    BY <1>1, <1>2, <1>8, <2>1 DEF CheckMarker, PublisherAt, At, ClientOk, Fenced, Uploaded,
       Entitled, Committed
  <2> QED BY <1>3, <1>8, <2>1, <2>2, IdleIsOk, ReadStep DEF CheckMarker
<1>9. CASE Recheck(c)
  <2>1. PICK l : l = [at |-> "p-unmark"]
    OBVIOUS
  <2>2. tombstone = None => ClientOk(c, l)
    BY <1>1, <1>2, <1>9, <2>1 DEF Recheck, PublisherAt, At, ClientOk, Fenced, Uploaded, Entitled,
       Committed, Stands, Retired
  <2> QED BY <1>3, <1>9, <2>1, <2>2, IdleIsOk, ReadStep DEF Recheck
<1> QED BY <1>4, <1>5, <1>6, <1>7, <1>8, <1>9

\* A publisher's requests: the marker, each pack, the manifest and the marker again.
LEMMA PublisherSends ==
    ASSUME ArchiveInv, NEW c \in Clients,
           Claim(c) \/ PutPack(c) \/ Commit(c) \/ Unmark(c) \/ ReturnOk(c)
    PROVE  ArchiveInv'
<1>1. PICK k \in ClientStates : k = clients[c]
  BY DEF ArchiveInv, ArchiveTypes
<1>2. ClientOk(c, k) /\ ArchiveTypes
  BY <1>1 DEF ArchiveInv
<1>3. Identity[c] \in Stores /\ PinOf[c] \in Pins /\ SnapshotOf(c) \in Snapshot
  BY DEF Stores, Pins, SnapshotOf, Snapshot
<1>4. CASE Claim(c)
  <2>1. PICK r : r = [write |-> "claim", store |-> Identity[c]]
    OBVIOUS
  <2>2. PICK l : l = IF marker = None THEN [at |-> "p-pack", pack |-> 1] ELSE Idle
    OBVIOUS
  <2>3. r \in Requests /\ RequestOk(r)
    BY <1>3, <2>1 DEF Requests, RequestOk
  <2>4. l \in ClientStates /\ ClientOk(c, l)'
    <3>1. CASE marker = None
      <4>1. l = [at |-> "p-pack", pack |-> 1] /\ l \in ClientStates
        BY <2>2, <3>1, ArchiveAssumption DEF ClientStates, Packs
      <4>2. Uploaded(c, l)'
        BY <4>1 DEF Uploaded, Packs
      <4> QED BY <4>1, <4>2 DEF ClientOk, Fenced, Entitled, Committed
    <3>2. CASE marker # None
      BY <2>2, <3>2, IdleIsOk DEF Idle, ClientOk, Fenced, Uploaded, Entitled, Committed
    <3> QED BY <3>1, <3>2
  <2>5. NobodySweeps /\ Send(c, r, l)
    BY <1>4, <2>1, <2>2, Word DEF Claim, PublisherAt
  <2> QED BY <2>3, <2>4, <2>5, Sent
<1>5. CASE PutPack(c)
  <2>1. k.at = "p-pack" /\ k \in [at : {"p-pack", "p-verify"}, pack : Packs]
    BY <1>1, <1>5, Places DEF PutPack, PublisherAt, At
  <2>2. PICK r : r = [write |-> "put", pack |-> k.pack, pin |-> PinOf[c]]
    OBVIOUS
  <2>3. PICK l : l = [k EXCEPT !.at = "p-verify"]
    OBVIOUS
  <2>4. r \in Requests /\ RequestOk(r) /\ ~Creates(r)
    BY <1>3, <2>1, <2>2 DEF Requests, RequestOk, Creates
  <2>5. l \in ClientStates /\ l.at = "p-verify" /\ l.pack = k.pack
    BY <2>1, <2>3 DEF ClientStates
  <2>6. ASSUME Apply(r), askers' = askers PROVE ClientOk(c, l)'
    <3>1. ClientOk(c, k)'
      BY <1>2, <2>4, <2>6, ClientStays
    <3>2. SamePin => Uploaded(c, l)'
      BY <2>1, <2>5, <3>1 DEF ClientOk, Uploaded
    <3> QED BY <2>5, <3>2 DEF ClientOk, Fenced, Entitled, Committed
  <2>7. Send(c, r, l)
    BY <1>1, <1>5, <2>2, <2>3 DEF PutPack
  <2> QED BY <2>4, <2>5, <2>6, <2>7, Sent
<1>6. CASE Commit(c)
  <2>1. k.at = "p-commit"
    BY <1>1, <1>6 DEF Commit, PublisherAt, At
  <2>2. PICK r : r = [write |-> "commit", snapshot |-> SnapshotOf(c)]
    OBVIOUS
  <2>3. PICK l : l = IF manifest = None THEN [at |-> "p-recheck"] ELSE Idle
    OBVIOUS
  <2>4. r \in Requests
    BY <1>3, <2>2 DEF Requests
  <2>5. RequestOk(r)
    BY <1>2, <2>1, <2>2 DEF ClientOk, Uploaded, RequestOk, Complete, SnapshotOf
  <2>6. l \in ClientStates
    BY <2>3, IdleIsOk DEF ClientStates, Plain
  <2>7. ASSUME Apply(r) PROVE ClientOk(c, l)'
    <3>1. CASE manifest = None
      <4>1. manifest' = SnapshotOf(c) /\ SnapshotOf(c)' = SnapshotOf(c)
        BY <2>2, <2>7, <3>1 DEF Apply, Create, SnapshotOf
      <4> QED BY <2>3, <3>1, <4>1 DEF ClientOk, Fenced, Uploaded, Entitled, Committed
    <3>2. CASE manifest # None
      BY <2>3, <3>2 DEF Idle, ClientOk, Fenced, Uploaded, Entitled, Committed
    <3> QED BY <3>1, <3>2
  <2>8. NobodySweeps /\ Send(c, r, l)
    BY <1>6, <2>2, <2>3, Word DEF Commit, PublisherAt, SnapshotOf
  <2> QED BY <2>4, <2>5, <2>6, <2>7, <2>8, Sent
<1>7. CASE Unmark(c)
  <2>1. k.at = "p-unmark"
    BY <1>1, <1>7 DEF Unmark, PublisherAt, At
  <2>2. PICK r : r = [write |-> "unmark"]
    OBVIOUS
  <2>3. PICK l : l = [at |-> "p-ok"]
    OBVIOUS
  <2>4. r \in Requests /\ RequestOk(r) /\ ~Creates(r) /\ l \in ClientStates
    BY <2>2, <2>3 DEF Requests, Removals, RequestOk, Creates, ClientStates, Plain
  <2>5. ASSUME Apply(r), askers' = askers PROVE ClientOk(c, l)'
    <3>1. ClientOk(c, k)'
      BY <1>2, <2>4, <2>5, ClientStays
    <3> QED BY <2>1, <2>3, <3>1 DEF ClientOk, Fenced, Uploaded, Entitled, Committed
  <2> QED BY <1>7, <2>2, <2>3, <2>4, <2>5, Sent DEF Unmark
<1>8. CASE ReturnOk(c)
  <2>1. k.at = "p-ok"
    BY <1>1, <1>8 DEF ReturnOk, At
  <2>2. AckCoversLate => Stands(SnapshotOf(c))
    BY <1>2, <2>1 DEF ClientOk, Committed
  <2>3. PICK s \in Snapshot : s = SnapshotOf(c)
    BY <1>3
  <2>4. published' = s /\ (AckCoversLate => Stands(s))
    BY <1>8, <2>2, <2>3 DEF ReturnOk, SnapshotOf, Stands
  <2>5. PICK l \in ClientStates : l = Idle
    BY IdleIsOk
  <2>6. ClientOk(c, l)'
    BY <2>5 DEF Idle, ClientOk, Fenced, Uploaded, Entitled, Committed
  <2> QED BY <1>2, <1>8, <2>4, <2>5, <2>6, Quiet DEF ReturnOk, ArchiveTypes
<1> QED BY <1>4, <1>5, <1>6, <1>7, <1>8

\* What a deleter or a cleaner finds: a tombstone, the manifest and whose it is, the
\* marker, and what is left under the id.
LEMMA RemoverReads ==
    ASSUME ArchiveInv, NEW c \in Clients,
           \/ ResumeOrDelete(c) \/ DeleteManifested(c) \/ Fence(c) \/ GetManifest(c) \/ List(c)
           \/ CleanRetired(c) \/ CleanManifested(c) \/ CleanMarker(c) \/ CleanIntent(c)
    PROVE  ArchiveInv'
<1>1. PICK k \in ClientStates : k = clients[c]
  BY DEF ArchiveInv, ArchiveTypes
<1>2. ClientOk(c, k) /\ ArchiveTypes
  BY <1>1 DEF ArchiveInv
<1>3. \A p \in {"list", "d-manifest", "c-marker", "c-unmark"} :
         [at |-> p] \in ClientStates /\ [at |-> p].at = p
  BY DEF ClientStates, Plain
<1>4. CASE ResumeOrDelete(c)
  <2>1. PICK l : l = IF tombstone = None THEN [at |-> "d-manifest"]
                     ELSE IF CheckIdentity(c, tombstone) THEN [at |-> "list"] ELSE Idle
    OBVIOUS
  <2>2. l \in ClientStates
    BY <1>3, <2>1, IdleIsOk
  <2>3. ClientOk(c, l)
    BY <1>1, <1>2, <1>4, <2>1, IdleIsOk DEF ResumeOrDelete, At, ClientOk, Fenced, Uploaded,
       Entitled, Committed, Retired
  <2> QED BY <1>4, <2>1, <2>2, <2>3, ReadStep DEF ResumeOrDelete
<1>5. CASE DeleteManifested(c)
  <2>1. PICK l : l = [at |-> "fence", deleting |-> TRUE]
    OBVIOUS
  <2>2. l \in ClientStates
    BY <2>1 DEF ClientStates
  <2>3. ClientOk(c, l)
    BY <1>1, <1>2, <1>5, <2>1 DEF DeleteManifested, At, ClientOk, Fenced, Uploaded, Entitled,
       Committed
  <2> QED BY <1>5, <2>1, <2>2, <2>3, IdleIsOk, ReadStep DEF DeleteManifested
<1>6. CASE Fence(c)
  <2>1. k.at = "fence" /\ k \in [at : {"fence", "get"}, deleting : BOOLEAN]
    BY <1>1, <1>6, Places DEF Fence, At
  <2>2. PICK l : l = [k EXCEPT !.at = "get"]
    OBVIOUS
  <2>3. l \in ClientStates /\ l.at = "get" /\ l.deleting = k.deleting
    BY <2>1, <2>2 DEF ClientStates
  <2>4. ClientOk(c, l)
    BY <1>2, <2>1, <2>3 DEF ClientOk, Fenced, Uploaded, Entitled, Committed
  <2> QED BY <1>1, <1>6, <2>2, <2>3, <2>4, IdleIsOk, ReadStep DEF Fence, Goto
<1>7. CASE GetManifest(c)
  <2>1. k.at = "get"
    BY <1>1, <1>7 DEF GetManifest, At
  <2>2. CASE manifest = None \/ ~CheckIdentity(c, manifest.store)
    BY <1>7, <2>2, IdleIsOk, ReadStep DEF GetManifest
  <2>3. CASE manifest # None /\ CheckIdentity(c, manifest.store) /\ k.deleting
    <3>1. PICK l : l = [at |-> "retire", store |-> manifest.store, sweeping |-> FALSE]
      OBVIOUS
    <3>2. l \in ClientStates
      BY <1>2, <2>3, <3>1 DEF ClientStates, ArchiveTypes, Snapshot
    <3>3. AckCoversLate => Asked(manifest.store)
      BY <1>2, <2>1, <2>3 DEF ClientOk, Entitled, CheckIdentity, Asked
    <3>4. ClientOk(c, l)
      BY <2>3, <3>1, <3>3 DEF ClientOk, Fenced, Uploaded, Entitled, Committed, Justified
    <3> QED BY <1>1, <1>7, <2>3, <3>1, <3>2, <3>4, ReadStep DEF GetManifest
  <2>4. CASE manifest # None /\ CheckIdentity(c, manifest.store) /\ ~k.deleting
    <3>1. PICK l : l = [at |-> "c-marker"]
      OBVIOUS
    <3>2. ClientOk(c, l)
      BY <3>1 DEF ClientOk, Fenced, Uploaded, Entitled, Committed
    <3> QED BY <1>1, <1>3, <1>7, <2>4, <3>1, <3>2, ReadStep DEF GetManifest
  <2> QED BY <2>2, <2>3, <2>4
<1>8. CASE List(c)
  <2>1. PICK found : /\ found \subseteq Removals
                     /\ Become(c, [at |-> "sweep", todo |-> found])
    BY <1>8 DEF List, Removals
  <2>2. PICK l : l = [at |-> "sweep", todo |-> found]
    OBVIOUS
  <2>3. l \in ClientStates
    BY <2>1, <2>2 DEF ClientStates
  <2>4. ClientOk(c, l)
    BY <1>1, <1>2, <1>8, <2>2 DEF List, At, ClientOk, Fenced, Uploaded, Entitled, Committed
  <2> QED BY <1>8, <2>1, <2>2, <2>3, <2>4, ReadStep DEF List
<1>9. CASE CleanRetired(c)
  <2>1. k \in [at : Plain]
    BY <1>1, <1>9, Places DEF CleanRetired, At, Plain
  <2>2. PICK p \in {"d-tombstone", "c-manifest"} :
                p = IF tombstone # None THEN "d-tombstone" ELSE "c-manifest"
    OBVIOUS
  <2>3. PICK l : l = [k EXCEPT !.at = p]
    OBVIOUS
  <2>4. l \in ClientStates /\ l.at = p
    BY <2>1, <2>3 DEF ClientStates, Plain
  <2>5. ClientOk(c, l)
    BY <2>2, <2>4 DEF ClientOk, Fenced, Uploaded, Entitled, Committed, Retired
  <2> QED BY <1>1, <1>9, <2>2, <2>3, <2>4, <2>5, ReadStep DEF CleanRetired, Goto
<1>10. CASE CleanManifested(c)
  <2>1. CASE manifest # None /\ Become(c, [at |-> "fence", deleting |-> FALSE])
    <3>1. PICK l : l = [at |-> "fence", deleting |-> FALSE]
      OBVIOUS
    <3>2. l \in ClientStates /\ ClientOk(c, l)
      BY <3>1 DEF ClientStates, ClientOk, Fenced, Uploaded, Entitled, Committed
    <3> QED BY <1>10, <2>1, <3>1, <3>2, ReadStep DEF CleanManifested
  <2>2. CASE manifest = None /\ Goto(c, "c-intent")
    <3>1. k \in [at : Plain]
      BY <1>1, <1>10, Places DEF CleanManifested, At, Plain
    <3>2. PICK l : l = [k EXCEPT !.at = "c-intent"]
      OBVIOUS
    <3>3. l \in ClientStates /\ l.at = "c-intent"
      BY <3>1, <3>2 DEF ClientStates, Plain
    <3>4. ClientOk(c, l)
      BY <2>2, <3>3 DEF ClientOk, Fenced, Uploaded, Entitled, Committed
    <3> QED BY <1>1, <1>10, <2>2, <3>2, <3>3, <3>4, ReadStep DEF CleanManifested, Goto
  <2> QED BY <1>10, <2>1, <2>2 DEF CleanManifested
<1>11. CASE CleanMarker(c)
  <2>1. PICK l : l = [at |-> "c-unmark"]
    OBVIOUS
  <2>2. ClientOk(c, l)
    BY <2>1 DEF ClientOk, Fenced, Uploaded, Entitled, Committed
  <2> QED BY <1>3, <1>11, <2>1, <2>2, IdleIsOk, ReadStep DEF CleanMarker
<1>12. CASE CleanIntent(c)
  <2>1. k.at = "c-intent"
    BY <1>1, <1>12 DEF CleanIntent, At
  <2>2. PICK l : l = [at |-> "retire", store |-> SweptStore(c), sweeping |-> TRUE]
    OBVIOUS
  <2>3. l \in ClientStates
    BY <1>2, <2>2 DEF ClientStates, SweptStore, ArchiveTypes, Stores
  <2>4. ClientOk(c, l)
    BY <1>2, <2>1, <2>2 DEF ClientOk, Fenced, Uploaded, Entitled, Committed, Justified, SweptStore
  <2> QED BY <1>12, <2>2, <2>3, <2>4, IdleIsOk, ReadStep DEF CleanIntent
<1> QED BY <1>4, <1>5, <1>6, <1>7, <1>8, <1>9, <1>10, <1>11, <1>12

\* What a deleter or a cleaner sends: the tombstone, the manifest's removal, the
\* marker's, and what the sweep found.
LEMMA RemoverSends ==
    ASSUME ArchiveInv, NEW c \in Clients, Retire(c) \/ Sweep(c) \/ Unlist(c) \/ RemoveMarker(c)
    PROVE  ArchiveInv'
<1>1. PICK k \in ClientStates : k = clients[c]
  BY DEF ArchiveInv, ArchiveTypes
<1>2. ClientOk(c, k) /\ ArchiveTypes
  BY <1>1 DEF ArchiveInv
<1>3. CASE Retire(c)
  <2>1. k.at = "retire" /\ k \in [at : {"retire"}, store : Stores, sweeping : BOOLEAN]
    BY <1>1, <1>3, Places DEF Retire, At
  <2>2. PICK r : r = [write |-> "retire", store |-> k.store, sweeping |-> k.sweeping]
    OBVIOUS
  <2>3. PICK l : l = IF tombstone # None /\ ~CheckIdentity(c, tombstone) THEN Idle
                     ELSE IF k.sweeping THEN [at |-> "list"] ELSE [at |-> "d-unlist"]
    OBVIOUS
  <2>4. r \in Requests /\ ~Creates(r)
    BY <2>1, <2>2 DEF Requests, Creates
  <2>5. RequestOk(r)
    BY <1>2, <2>1, <2>2 DEF ClientOk, Entitled, RequestOk
  <2>6. l \in {Idle, [at |-> "list"], [at |-> "d-unlist"]}
    BY <2>3
  <2>7. l \in ClientStates /\ l.at \in {"idle", "list", "d-unlist"}
    BY <2>6, IdleIsOk DEF Idle, ClientStates, Plain
  <2>8. ASSUME Apply(r) PROVE ClientOk(c, l)'
    <3>1. Retired'
      BY <2>1, <2>2, <2>8, ArchiveAssumption DEF Apply, Create, Retired
    <3> QED BY <2>7, <3>1 DEF ClientOk, Fenced, Uploaded, Entitled, Committed
  <2>9. Send(c, r, l)
    BY <1>1, <1>3, <2>2, <2>3 DEF Retire
  <2> QED BY <2>4, <2>5, <2>7, <2>8, <2>9, Sent
<1>4. CASE Sweep(c)
  <2>1. k.at = "sweep" /\ k \in [at : {"sweep"}, todo : SUBSET Removals]
    BY <1>1, <1>4, Places DEF Sweep, At
  <2>2. PICK r \in k.todo : Send(c, r, [k EXCEPT !.todo = @ \ {r}])
    BY <1>1, <1>4 DEF Sweep
  <2>3. PICK l : l = [k EXCEPT !.todo = @ \ {r}]
    OBVIOUS
  <2>4. l \in ClientStates /\ l.at = "sweep"
    BY <2>1, <2>3 DEF ClientStates
  <2>5. Retired
    BY <1>2, <2>1 DEF ClientOk, Fenced
  <2>6. r \in Requests /\ RequestOk(r) /\ ~Creates(r)
    BY <2>1, <2>2, <2>5 DEF Requests, Removals, RequestOk, Creates
  <2>7. ASSUME Apply(r) PROVE ClientOk(c, l)'
    <3>1. Retired'
      BY <1>2, <2>5, <2>6, <2>7, AppliedRequest
    <3> QED BY <2>4, <3>1 DEF ClientOk, Fenced, Uploaded, Entitled, Committed
  <2> QED BY <2>2, <2>3, <2>4, <2>6, <2>7, Sent
<1>5. CASE Unlist(c)
  <2>1. k.at = "d-unlist" /\ Retired
    BY <1>1, <1>2, <1>5 DEF Unlist, At, ClientOk, Fenced
  <2>2. PICK r : r = [write |-> "unlist"]
    OBVIOUS
  <2>3. PICK l : l = [at |-> "list"]
    OBVIOUS
  <2>4. r \in Requests /\ RequestOk(r) /\ ~Creates(r) /\ l \in ClientStates
    BY <2>1, <2>2, <2>3 DEF Requests, Removals, RequestOk, Creates, ClientStates, Plain
  <2>5. ASSUME Apply(r) PROVE ClientOk(c, l)'
    <3>1. Retired'
      BY <1>2, <2>1, <2>4, <2>5, AppliedRequest
    <3> QED BY <2>3, <3>1 DEF ClientOk, Fenced, Uploaded, Entitled, Committed
  <2> QED BY <1>5, <2>2, <2>3, <2>4, <2>5, Sent DEF Unlist
<1>6. CASE RemoveMarker(c)
  <2>1. PICK r : r = [write |-> "unmark"]
    OBVIOUS
  <2>2. PICK l : l = Idle
    OBVIOUS
  <2>3. r \in Requests /\ RequestOk(r) /\ ~Creates(r)
    BY <2>1 DEF Requests, Removals, RequestOk, Creates
  <2>4. l \in ClientStates /\ ClientOk(c, l)'
    BY <2>2, IdleIsOk DEF Idle, ClientOk, Fenced, Uploaded, Entitled, Committed
  <2> QED BY <1>6, <2>1, <2>2, <2>3, <2>4, Sent DEF RemoveMarker
<1> QED BY <1>3, <1>4, <1>5, <1>6

\* Every step keeps what the clients and their requests rely on.
LEMMA StepKeeps == ArchiveInv /\ [Next]_vars => ArchiveInv'
<1> SUFFICES ASSUME ArchiveInv, [Next]_vars PROVE ArchiveInv'
  OBVIOUS
<1>1. ASSUME NEW c \in Clients, Publish(c) PROVE ArchiveInv'
  BY <1>1, BeginKeeps, PublisherReads, PublisherSends DEF Publish
<1>2. ASSUME NEW c \in Clients, Delete(c) PROVE ArchiveInv'
  BY <1>2, BeginKeeps, RemoverReads, RemoverSends DEF Delete
<1>3. ASSUME NEW c \in Clients, Cleanup(c) PROVE ArchiveInv'
  BY <1>3, BeginKeeps, RemoverReads, RemoverSends DEF Cleanup
<1>4. ASSUME NEW c \in Clients, GiveUp(c) PROVE ArchiveInv'
  BY <1>4, BeginKeeps
<1>5. ASSUME NEW r \in late, Arrive(r) PROVE ArchiveInv'
  BY <1>5, ArriveKeeps
<1>6. CASE UNCHANGED vars
  BY <1>6 DEF vars, bucket, others, ArchiveInv, ArchiveTypes, ClientOk, Fenced, Uploaded, Entitled,
     Committed, RequestOk, BucketOk, Justified, Stands, Asked, Retired, SnapshotOf, Complete
<1> QED BY <1>1, <1>2, <1>3, <1>4, <1>5, <1>6 DEF Next

LEMMA Invariance == Spec => []ArchiveInv
BY InitOk, StepKeeps, PTL DEF Spec

----------------------------------------------------------------------------
(* What follows.                                                           *)

(* When everybody who publishes under the id publishes the same pin, a     *)
(* snapshot that a reader would open has every object of its manifest, and *)
(* a publication that returned Ok stays so until its deletion is asked for *)
(* (publish_pin, delete, cleanup; the operator's word that no publisher    *)
(* runs beside a cleanup has to cover its requests that are on their way). *)
THEOREM SnapshotsStayWhole ==
    ASSUME SamePin, AckCoversLate
    PROVE  Spec => []SnapshotsAreWhole
<1>1. ArchiveInv => SnapshotsAreWhole
  <2> SUFFICES ASSUME ArchiveInv PROVE SnapshotsAreWhole
    OBVIOUS
  <2>1. VisibleIsComplete
    BY DEF ArchiveInv, BucketOk, VisibleIsComplete, Visible, Retired
  <2>2. PublishedStays
    <3> SUFFICES ASSUME published # None, askers \cap {Unconfigured, published.store} = {}
                 PROVE  Visible /\ manifest = published /\ Complete(published)
      BY DEF PublishedStays
    <3>1. ~Retired /\ manifest = published
      BY DEF ArchiveInv, BucketOk, Stands, Asked
    <3> QED BY <2>1, <3>1 DEF Visible, Retired, VisibleIsComplete
  <2> QED BY <2>1, <2>2 DEF SnapshotsAreWhole
<1> QED BY <1>1, Invariance, PTL

(* The first half needs no word of the operator's: whatever is swept, and  *)
(* whatever arrives late, a partial snapshot is never visible.             *)
THEOREM NoPartialSnapshot ==
    ASSUME SamePin
    PROVE  Spec => []VisibleIsComplete
<1>1. ArchiveInv => VisibleIsComplete
  BY DEF ArchiveInv, BucketOk, VisibleIsComplete, Visible, Retired
<1> QED BY <1>1, Invariance, PTL

(* The tombstone keeps whose the id was: the store of the manifest that is *)
(* there, or of the marker of the upload that is swept; and no later       *)
(* retirement overwrites it (retire_id, cleanup).                          *)
THEOREM OwnerIsKept ==
    ASSUME AckCoversLate
    PROVE  Spec => RetirementKeepsOwner
<1> DEFINE OwnerKept == /\ tombstone # None => tombstone' = tombstone
                        /\ tombstone' # tombstone =>
                             IF manifest # None THEN tombstone' = manifest.store
                             ELSE marker # None => tombstone' = marker
<1>1. ASSUME ArchiveInv, NEW r \in Requests, RequestOk(r), Apply(r) PROVE OwnerKept
  <2>1. CASE tombstone # None
    BY <1>1, <2>1 DEF Apply, Create
  <2>2. CASE tombstone = None /\ r.write = "retire"
    BY <1>1, <2>2 DEF Apply, Create, RequestOk, Justified, Retired
  <2>3. CASE r.write # "retire"
    BY <1>1, <2>3 DEF Apply
  <2> QED BY <2>1, <2>2, <2>3
<1>2. ASSUME ArchiveInv, NEW c \in Clients, Retire(c) PROVE OwnerKept
  <2>1. PICK k \in ClientStates : k = clients[c]
    BY <1>2 DEF ArchiveInv, ArchiveTypes
  <2>2. k.at = "retire" /\ k \in [at : {"retire"}, store : Stores, sweeping : BOOLEAN]
    BY <1>2, <2>1, Places DEF Retire, At
  <2>3. PICK r : r = [write |-> "retire", store |-> k.store, sweeping |-> k.sweeping]
    OBVIOUS
  <2>4. r \in Requests
    BY <2>2, <2>3 DEF Requests
  <2>5. RequestOk(r)
    BY <1>2, <2>1, <2>2, <2>3 DEF ArchiveInv, ClientOk, Entitled, RequestOk
  <2>6. Apply(r) \/ tombstone' = tombstone
    BY <1>2, <2>1, <2>3 DEF Retire, Send, bucket
  <2> QED BY <1>1, <1>2, <2>4, <2>5, <2>6
<1>3. ASSUME ArchiveInv, NEW r \in late, Arrive(r) PROVE OwnerKept
  BY <1>1, <1>3 DEF Arrive, ArchiveInv, ArchiveTypes
<1>4. ASSUME ArchiveInv, NEW c \in Clients, Sweep(c) PROVE tombstone' = tombstone
  <2>1. PICK k \in ClientStates : k = clients[c]
    BY <1>4 DEF ArchiveInv, ArchiveTypes
  <2>2. k.todo \subseteq Removals
    BY <1>4, <2>1, Places DEF Sweep, At
  <2>3. PICK r \in k.todo : Apply(r) \/ tombstone' = tombstone
    BY <1>4, <2>1 DEF Sweep, Send, bucket
  <2> QED BY <2>2, <2>3 DEF Removals, Apply
<1>5. ASSUME NEW c \in Clients, Publish(c) PROVE tombstone' = tombstone
  BY <1>5 DEF Publish, BeginPublish, Begin, CheckUnretired, CheckUnpublished, Claim, PutPack,
     VerifyPack, Refence, CheckMarker, Commit, Recheck, Unmark, ReturnOk, Send, Apply, Reads,
     bucket
<1>6. ASSUME ArchiveInv, NEW c \in Clients, Delete(c) PROVE OwnerKept
  <2>1. ASSUME BeginDelete(c) \/ ResumeOrDelete(c) \/ DeleteManifested(c) \/ Unlist(c)
               \/ Fence(c) \/ GetManifest(c) \/ List(c)
        PROVE  tombstone' = tombstone
    BY <2>1 DEF BeginDelete, Begin, ResumeOrDelete, DeleteManifested, Unlist, Fence, GetManifest,
       List, Send, Apply, Reads, bucket
  <2> QED BY <1>2, <1>4, <1>6, <2>1 DEF Delete
<1>7. ASSUME NEW c \in Clients, Cleanup(c) \/ GiveUp(c) PROVE tombstone' = tombstone
  BY <1>7 DEF Cleanup, BeginCleanup, Begin, CleanRetired, CleanManifested, CleanMarker,
     RemoveMarker, CleanIntent, GiveUp, Send, Apply, Reads, bucket
<1>8. ArchiveInv /\ [Next]_vars => [OwnerKept]_vars
  <2> SUFFICES ASSUME ArchiveInv, Next PROVE OwnerKept
    BY DEF vars, bucket
  <2> QED BY <1>3, <1>5, <1>6, <1>7 DEF Next
<1> QED BY <1>8, Invariance, PTL DEF Spec, RetirementKeepsOwner

----------------------------------------------------------------------------
(* The aggregation and its rollups: the invariant.                          *)

\* One version of a key; and later in a list means newer.
OnePerKey(versions) == \A v, w \in versions : v.key = w.key => v = w
Older(versions, newer) == \A v \in versions, w \in newer : v.key = w.key => v.n < w.n
Layered(list) ==
    /\ list \in Seq(SUBSET Version)
    /\ \A i \in DOMAIN list : OnePerKey(list[i])
    /\ \A i, j \in DOMAIN list : i < j => Older(list[i], list[j])

InSegments == UNION ToSet(segments)
HeldNow == buffer \cup InSegments

LayersInv ==
    /\ buffer \in SUBSET Version /\ OnePerKey(buffer)
    /\ Layered(segments)
    /\ \A i \in DOMAIN segments : Older(segments[i], buffer)
    /\ ingests \in 0 .. MaxIngests
    /\ \A v \in HeldNow : v.n <= ingests
    /\ IF subject = NoSession THEN mask = NoMask ELSE subject \in mask.sessions

\* No two files share a name, and there are names enough: two to an ingest.
NamesInv ==
    /\ claimed \in Nat
    /\ paths \in Seq(1 .. claimed) /\ Len(paths) = Len(segments)
    /\ \A i, j \in DOMAIN paths : paths[i] = paths[j] => i = j
    /\ claimed + Len(segments) + (IF buffer = {} THEN 0 ELSE 2) <= 2 * ingests

\* What a file of that name holds or held: a purge only ever shrinks it.
Comparable(held, versions) == held \subseteq versions \/ versions \subseteq held

OfItsFile(p, rollup, names, files, pins, pinned, most) ==
    rollup # NoRollup =>
        /\ rollup = Rolled(rollup.held)
        /\ rollup.held \in SUBSET Version /\ OnePerKey(rollup.held)
        /\ p <= most
        /\ \A i \in DOMAIN names : names[i] = p => files[i] \subseteq rollup.held
        /\ \A j \in DOMAIN pins : pins[j] = p => Comparable(rollup.held, pinned[j])

Good(p, rollup) == OfItsFile(p, rollup, paths, segments, fold.paths, fold.segments, claimed)

RollupsAreOfTheirFiles ==
    /\ DOMAIN sidecars = Paths /\ DOMAIN cache = Paths
    /\ \A p \in Paths : Good(p, sidecars[p]) /\ Good(p, cache[p])

\* What a fold pinned holds at least what the files of those names hold now.
PinnedInv ==
    /\ Layered(fold.segments)
    /\ fold.paths \in Seq(1 .. claimed) /\ Len(fold.paths) = Len(fold.segments)
    /\ \A i, j \in DOMAIN fold.paths : fold.paths[i] = fold.paths[j] => i = j
    /\ \A i \in DOMAIN paths, j \in DOMAIN fold.paths :
           paths[i] = fold.paths[j] => segments[i] \subseteq fold.segments[j]

Eligible(v) == Matches(v, fold.window) /\ ~Covers(fold.mask, v)
Unbuffered(v) == Eligible(v) /\ ~HoldsKey(fold.buffer, v.key)
InPinned == UNION ToSet(fold.segments)
Total == UNION ToSet(fold.counted)

\* What is the newest now, and what stood still, of the window.
WindowInv ==
    /\ \A v \in Newest(HeldNow) : Eligible(v) => v \in current
    /\ \A v \in still : v \in Newest(HeldNow) /\ Eligible(v) /\ ~Covers(mask, v)

CountedInv ==
    /\ fold.buffer \in SUBSET Version /\ OnePerKey(fold.buffer)
    /\ \A v \in fold.buffer : Eligible(v) => v \in Total
    /\ fold.counted \in Seq(SUBSET Version)
    /\ \A i \in DOMAIN fold.counted :
          /\ KeysOf(fold.counted[i]) \subseteq KeysOf(fold.buffer) \cup fold.hashes
          /\ OnePerKey(fold.counted[i])
          /\ fold.counted[i] \subseteq current
    /\ \A i, j \in DOMAIN fold.counted :
          i # j => KeysOf(fold.counted[i]) \cap KeysOf(fold.counted[j]) = {}

AtBuffer == fold.at = "buffer" => fold.counted = <<>> /\ fold.hashes = {}

\* Between the buffer and the pin: what was sealed meanwhile is in the segments.
AtPin ==
    fold.at = "pin" =>
        /\ fold.hashes = {}
        /\ \A v \in Newest(InSegments) : Unbuffered(v) => v \in current
        /\ \A v \in still : v \in fold.buffer \/ (v \in Newest(InSegments) /\ Unbuffered(v))

Walking == {"walk", "finish", "done"}
HashesFrom(left) == UNION {KeysOf(fold.segments[i]) : i \in left + 1 .. Len(fold.segments)}

\* Over the pinned segments: what is not counted yet is still to be walked.
AtWalk ==
    fold.at \in Walking =>
        /\ fold.left \in 0 .. Len(fold.segments)
        /\ fold.at = "walk" <=> fold.left > 0
        /\ fold.hashes = HashesFrom(fold.left)
        /\ \A v \in Newest(InPinned) : Unbuffered(v) => v \in current
        /\ \A v \in still : \/ v \in Total
                            \/ /\ v \in Newest(InPinned) /\ Unbuffered(v)
                               /\ \E i \in 1 .. fold.left : v \in fold.segments[i]

FoldFields == {"at", "window", "mask", "buffer", "segments", "paths", "left", "hashes", "counted"}
FoldShape ==
    /\ DOMAIN fold = FoldFields
    /\ fold.at \in {"idle", "buffer", "pin"} \cup Walking
    /\ fold.at # "idle" => fold.window \in Filter

FoldInv == fold.at # "idle" => WindowInv /\ CountedInv /\ AtBuffer /\ AtPin /\ AtWalk

RollupsInv ==
    /\ LayersInv /\ NamesInv /\ RollupsAreOfTheirFiles /\ PinnedInv /\ FoldShape
    /\ FoldInv

----------------------------------------------------------------------------
(* Versions and layers.                                                     *)

\* An element of a sequence is of the set the sequence is over.
LEMMA ElementIs ==
    ASSUME NEW S, NEW list \in Seq(S), NEW i \in DOMAIN list
    PROVE  list[i] \in S
OBVIOUS

\* What a version is made of.
LEMMA VersionIs ==
    ASSUME NEW v \in Version
    PROVE  v.key \in Keys /\ v.at \in Nat \ {0} /\ v.n \in Nat /\ v.n \in 1 .. MaxIngests
<1>1. v.key \in Keys /\ v.at \in Times /\ v.n \in 1 .. MaxIngests
  BY DEF Version
<1>2. Times \subseteq Nat \ {0} /\ MaxIngests \in Nat
  BY ReadingAssumption
<1>3. \A n \in 1 .. MaxIngests : n \in Nat
  BY <1>2
<1>4. v.at \in Nat \ {0}
  BY <1>1, <1>2, Zenon
<1> QED BY <1>1, <1>3, <1>4, Zenon

\* There are no more versions than keys where a key has one.
LEMMA FiniteByKey ==
    ASSUME NEW versions \in SUBSET Version, OnePerKey(versions)
    PROVE  IsFiniteSet(versions)
<1> DEFINE f == [v \in versions |-> v.key]
<1>1. f \in [versions -> Keys]
  BY VersionIs
<1>2. f \in Injection(versions, Keys)
  BY <1>1 DEF OnePerKey, Injection, IsInjective
<1>3. IsFiniteSet(Keys)
  BY ReadingAssumption
<1> HIDE DEF f
<1> QED BY <1>2, <1>3, FS_Injection

\* What a list of layers holds, layer by layer.
LEMMA InLayers ==
    ASSUME NEW list, NEW v
    PROVE  v \in UNION ToSet(list) <=> \E i \in DOMAIN list : v \in list[i]
BY DEF ToSet

\* A layer, and where it can be.
LEMMA LayerIs ==
    ASSUME NEW list, Layered(list), NEW i \in DOMAIN list
    PROVE  /\ Len(list) \in Nat /\ DOMAIN list = 1 .. Len(list) /\ i \in 1 .. Len(list)
           /\ list[i] \in SUBSET Version /\ OnePerKey(list[i])
           /\ i \in Nat
BY DEF Layered

\* A version whose key no later layer holds is the newest there.
LEMMA UppermostIsNewest ==
    ASSUME NEW list, Layered(list), NEW i \in DOMAIN list, NEW v \in list[i],
           \A j \in DOMAIN list : i < j => ~HoldsKey(list[j], v.key)
    PROVE  v \in Newest(UNION ToSet(list))
<1>1. v \in UNION ToSet(list)
  BY InLayers
<1>2. ASSUME NEW w \in UNION ToSet(list), w.key = v.key PROVE w.n <= v.n
  <2>1. PICK j \in DOMAIN list : w \in list[j]
    BY InLayers
  <2>2. v \in Version /\ w \in Version /\ i \in Nat /\ j \in Nat
    BY <2>1, LayerIs
  <2>3. v.n \in Nat /\ w.n \in Nat
    BY <2>2, VersionIs
  <2>4. ~(i < j)
    BY <1>2, <2>1 DEF HoldsKey
  <2>5. CASE i = j
    BY <1>2, <2>1, <2>3, <2>5 DEF Layered, OnePerKey
  <2>6. CASE j < i
    BY <1>2, <2>1, <2>3, <2>6 DEF Layered, Older
  <2> QED BY <2>2, <2>4, <2>5, <2>6
<1> QED BY <1>1, <1>2 DEF Newest

\* The newest version of a key is in no layer below one that holds the key.
LEMMA NewestIsUppermost ==
    ASSUME NEW list, Layered(list), NEW v \in Newest(UNION ToSet(list)),
           NEW i \in DOMAIN list, v \in list[i], NEW j \in DOMAIN list, i < j
    PROVE  ~HoldsKey(list[j], v.key)
<1> SUFFICES ASSUME NEW w \in list[j], w.key = v.key PROVE FALSE
  BY DEF HoldsKey
<1>1. v.n < w.n
  BY DEF Layered, Older
<1>2. w.n <= v.n
  BY InLayers DEF Newest
<1>3. v.n \in Nat /\ w.n \in Nat
  BY LayerIs, VersionIs
<1> QED BY <1>1, <1>2, <1>3

\* The newest of a list of layers and one more above them are those of that one
\* and, of the other keys, those of the list.
LEMMA NewestOverLayers ==
    ASSUME NEW list, Layered(list), NEW top \in SUBSET Version, OnePerKey(top),
           \A i \in DOMAIN list : Older(list[i], top),
           NEW v
    PROVE  v \in Newest(top \cup UNION ToSet(list)) <=>
              v \in top \/ (v \in Newest(UNION ToSet(list)) /\ ~HoldsKey(top, v.key))
<1> DEFINE low == UNION ToSet(list)
           all == top \cup low
<1>1. ASSUME NEW w \in low, NEW u \in top, w.key = u.key
      PROVE  w.n < u.n /\ w.n \in Nat /\ u.n \in Nat
  <2>1. PICK i \in DOMAIN list : w \in list[i] /\ w \in Version
    BY InLayers, LayerIs
  <2>2. w.n < u.n
    BY <1>1, <2>1 DEF Older
  <2> QED BY <2>1, <2>2, VersionIs
<1> HIDE DEF low
<1>2. ASSUME NEW u \in top, NEW w \in all, w.key = u.key PROVE w.n <= u.n
  <2>1. CASE w \in top
    BY <1>2, <2>1, VersionIs DEF OnePerKey
  <2>2. CASE w \in low
    BY <1>1, <1>2, <2>2
  <2> QED BY <2>1, <2>2
<1>3. v \in top => v \in Newest(all)
  BY <1>2 DEF Newest
<1>4. ASSUME v \in Newest(low), ~HoldsKey(top, v.key) PROVE v \in Newest(all)
  BY <1>4 DEF Newest, HoldsKey
<1>5. ASSUME v \in Newest(all), v \notin top PROVE v \in Newest(low) /\ ~HoldsKey(top, v.key)
  <2>1. v \in low
    BY <1>5 DEF Newest
  <2>2. v \in Newest(low)
    BY <1>5, <2>1 DEF Newest
  <2>3. ASSUME NEW u \in top, u.key = v.key PROVE FALSE
    <3>1. v.n < u.n /\ v.n \in Nat /\ u.n \in Nat
      BY <1>1, <2>1, <2>3
    <3>2. u.n <= v.n
      BY <1>5, <2>3 DEF Newest
    <3> QED BY <3>1, <3>2
  <2> QED BY <2>2, <2>3 DEF HoldsKey
<1> QED BY <1>3, <1>4, <1>5 DEF low

\* The newest of the store are those of the buffer and, of the other keys, those
\* of the segments.
LEMMA NewestHeld ==
    ASSUME LayersInv, NEW v
    PROVE  v \in Newest(HeldNow) <=>
              v \in buffer \/ (v \in Newest(InSegments) /\ ~HoldsKey(buffer, v.key))
BY NewestOverLayers DEF LayersInv, HeldNow, InSegments

\* What is among the newest of more is among the newest of less.
LEMMA NewestOfLess ==
    ASSUME NEW S, NEW T \in SUBSET S, NEW v \in T, v \in Newest(S)
    PROVE  v \in Newest(T)
BY DEF Newest

\* A layer put on top.
LEMMA AppendLayer ==
    ASSUME NEW list, Layered(list), NEW top \in SUBSET Version, OnePerKey(top),
           \A i \in DOMAIN list : Older(list[i], top)
    PROVE  /\ Layered(Append(list, top)) /\ Len(Append(list, top)) = Len(list) + 1
           /\ DOMAIN Append(list, top) = 1 .. Len(list) + 1
           /\ Append(list, top)[Len(list) + 1] = top
           /\ \A i \in DOMAIN list : Append(list, top)[i] = list[i]
           /\ \A i \in 1 .. Len(list) + 1 : i \in DOMAIN list \/ i = Len(list) + 1
           /\ UNION ToSet(Append(list, top)) = (UNION ToSet(list)) \cup top
<1> DEFINE new == Append(list, top)
<1>1. list \in Seq(SUBSET Version)
  BY DEF Layered
<1>2. new \in Seq(SUBSET Version) /\ Len(new) = Len(list) + 1 /\ DOMAIN new = 1 .. Len(list) + 1
  BY <1>1
<1>3. DOMAIN list = 1 .. Len(list) /\ Len(list) \in Nat
  BY <1>1
<1>4. new[Len(list) + 1] = top /\ \A i \in DOMAIN list : new[i] = list[i]
  BY <1>1
<1>5. /\ \A i \in DOMAIN new : i \in DOMAIN list \/ i = Len(list) + 1
      /\ Len(list) + 1 \in DOMAIN new /\ \A i \in DOMAIN list : i \in DOMAIN new
  BY <1>2, <1>3
<1> HIDE DEF new
<1>6. \A i \in DOMAIN new : OnePerKey(new[i])
  BY <1>4, <1>5 DEF Layered
<1>7. ASSUME NEW i \in DOMAIN new, NEW j \in DOMAIN new, i < j PROVE Older(new[i], new[j])
  <2>1. i \in DOMAIN list
    BY <1>2, <1>3, <1>7
  <2>2. CASE j \in DOMAIN list
    BY <1>4, <1>7, <2>1, <2>2 DEF Layered
  <2>3. CASE j = Len(list) + 1
    BY <1>4, <2>1, <2>3
  <2> QED BY <1>5, <2>2, <2>3
<1>8. UNION ToSet(new) = (UNION ToSet(list)) \cup top
  <2>1. ASSUME NEW v \in UNION ToSet(new) PROVE v \in (UNION ToSet(list)) \cup top
    <3>1. PICK i \in DOMAIN new : v \in new[i]
      BY InLayers
    <3>2. CASE i \in DOMAIN list
      BY <1>4, <3>1, <3>2, InLayers
    <3>3. CASE i = Len(list) + 1
      BY <1>4, <3>1, <3>3
    <3> QED BY <1>5, <3>2, <3>3
  <2>2. ASSUME NEW v \in UNION ToSet(list) PROVE v \in UNION ToSet(new)
    BY <1>4, <1>5, InLayers
  <2>3. ASSUME NEW v \in top PROVE v \in UNION ToSet(new)
    BY <1>4, <1>5, InLayers
  <2>4. UNION ToSet(new) \subseteq (UNION ToSet(list)) \cup top
    BY <2>1
  <2>5. (UNION ToSet(list)) \cup top \subseteq UNION ToSet(new)
    BY <2>2, <2>3
  <2> QED BY <2>4, <2>5
<1>9. Layered(new)
  BY <1>2, <1>6, <1>7 DEF Layered
<1> QED BY <1>2, <1>4, <1>5, <1>8, <1>9 DEF new

\* The layers below a place.
LEMMA LowerLayers ==
    ASSUME NEW list, Layered(list), NEW first \in DOMAIN list
    PROVE  LET low == SubSeq(list, 1, first - 1)
           IN  /\ Layered(low) /\ DOMAIN low = 1 .. first - 1 /\ Len(low) = first - 1
               /\ \A i \in 1 .. first - 1 : i \in DOMAIN list /\ low[i] = list[i]
<1> DEFINE low == SubSeq(list, 1, first - 1)
<1>1. list \in Seq(SUBSET Version) /\ first \in 1 .. Len(list) /\ Len(list) \in Nat
  BY DEF Layered
<1>2. low \in Seq(SUBSET Version) /\ Len(low) = first - 1 /\ DOMAIN low = 1 .. first - 1
  BY <1>1
<1>3. \A i \in 1 .. first - 1 : i \in DOMAIN list /\ low[i] = list[i]
  BY <1>1
<1> HIDE DEF low
<1>4. \A i \in DOMAIN low : OnePerKey(low[i])
  BY <1>2, <1>3 DEF Layered
<1>5. \A i, j \in DOMAIN low : i < j => Older(low[i], low[j])
  BY <1>2, <1>3 DEF Layered
<1>6. Layered(low)
  BY <1>2, <1>4, <1>5 DEF Layered
<1> QED BY <1>2, <1>3, <1>6 DEF low

\* The newest versions of the layers from a place on, as one layer.
LEMMA MergedLayer ==
    ASSUME NEW list, Layered(list), NEW first \in DOMAIN list
    PROVE  LET run == SubSeq(list, first, Len(list))
           IN  /\ Merged(run) \in SUBSET Version
               /\ OnePerKey(Merged(run))
               /\ \A i \in 1 .. first - 1 : Older(list[i], Merged(run))
               /\ \A v : v \in Merged(run) <=>
                     \E i \in DOMAIN list : /\ first <= i /\ v \in list[i]
                                            /\ \A j \in DOMAIN list : i < j =>
                                                          ~HoldsKey(list[j], v.key)
<1> DEFINE run == SubSeq(list, first, Len(list))
           Top(i, v) == /\ first <= i /\ v \in list[i]
                        /\ \A j \in DOMAIN list : i < j => ~HoldsKey(list[j], v.key)
<1>1. /\ list \in Seq(SUBSET Version) /\ first \in 1 .. Len(list) /\ Len(list) \in Nat
      /\ DOMAIN list = 1 .. Len(list) /\ first \in Int
  BY DEF Layered
<1>2. /\ Len(run) = Len(list) - first + 1 /\ DOMAIN run = 1 .. Len(list) - first + 1
      /\ \A i \in DOMAIN run : run[i] = list[i + first - 1] /\ i + first - 1 \in DOMAIN list
  BY <1>1
<1>3. \A i \in DOMAIN list : first <= i => i - first + 1 \in DOMAIN run /\ run[i - first + 1] =
              list[i]
  BY <1>1, <1>2
<1> HIDE DEF run
<1>4. ASSUME NEW v \in Merged(run) PROVE \E i \in DOMAIN list : Top(i, v)
  <2>1. PICK i \in DOMAIN run : v \in run[i] /\ \A j \in i + 1 .. Len(run) :
                ~HoldsKey(run[j], v.key)
    BY DEF Merged
  <2>2. i + first - 1 \in DOMAIN list /\ v \in list[i + first - 1] /\ first <= i + first - 1
    BY <1>1, <1>2, <2>1
  <2>3. ASSUME NEW j \in DOMAIN list, i + first - 1 < j PROVE ~HoldsKey(list[j], v.key)
    <3>1. first <= j /\ j - first + 1 \in i + 1 .. Len(run)
      BY <1>1, <1>2, <2>3
    <3> QED BY <1>3, <2>1, <3>1
  <2> QED BY <2>2, <2>3
<1>5. ASSUME NEW v, NEW i \in DOMAIN list, Top(i, v) PROVE v \in Merged(run)
  <2>1. i - first + 1 \in DOMAIN run /\ v \in run[i - first + 1]
    BY <1>3, <1>5
  <2>2. ASSUME NEW j \in i - first + 1 + 1 .. Len(run) PROVE ~HoldsKey(run[j], v.key)
    <3>1. i \in Int /\ first \in Int /\ first <= i /\ j \in Int
      BY <1>1, <1>5
    <3>2. Len(run) \in Int /\ i - first + 2 <= j /\ j <= Len(run)
      BY <1>1, <1>2, <3>1
    <3>3. DOMAIN run = 1 .. Len(run)
      BY <1>2
    <3>4. j \in DOMAIN run /\ i < j + first - 1
      BY <3>1, <3>2, <3>3
    <3>5. run[j] = list[j + first - 1] /\ j + first - 1 \in DOMAIN list
      BY <1>2, <3>4
    <3> QED BY <1>5, <3>4, <3>5
  <2>3. v \in UNION ToSet(run)
    BY <2>1, InLayers
  <2> QED BY <2>1, <2>2, <2>3 DEF Merged
<1>6. Merged(run) \in SUBSET Version
  BY <1>1, <1>4, LayerIs
<1>7. OnePerKey(Merged(run))
  <2> SUFFICES ASSUME NEW v \in Merged(run), NEW w \in Merged(run), v.key = w.key PROVE v = w
    BY DEF OnePerKey
  <2>1. PICK i \in DOMAIN list : Top(i, v)
    BY <1>4
  <2>2. PICK j \in DOMAIN list : Top(j, w)
    BY <1>4
  <2>3. ~(i < j) /\ ~(j < i)
    BY <2>1, <2>2 DEF HoldsKey
  <2>4. i = j
    BY <1>1, <2>3
  <2> QED BY <2>1, <2>2, <2>4 DEF Layered, OnePerKey
<1>8. ASSUME NEW i \in 1 .. first - 1 PROVE Older(list[i], Merged(run))
  <2>1. i \in DOMAIN list
    BY <1>1
  <2> SUFFICES ASSUME NEW v \in list[i], NEW w \in Merged(run), v.key = w.key PROVE v.n < w.n
    BY DEF Older
  <2>2. PICK j \in DOMAIN list : Top(j, w)
    BY <1>4
  <2>3. i < j
    BY <1>1, <2>2
  <2> QED BY <2>1, <2>2, <2>3 DEF Layered, Older
<1> QED BY <1>4, <1>5, <1>6, <1>7, <1>8 DEF run

\* A set of numbers has a least one.
LEMMA LeastNumber ==
    ASSUME NEW T, T \subseteq Nat, T # {}
    PROVE  \E m \in T : \A n \in T : m <= n
<1> DEFINE Below == {pair \in Nat \X Nat : pair[1] < pair[2]}
<1>1. IsWellFoundedOn(Below, Nat)
  BY NatLessThanWellFounded DEF OpToRel
<1> HIDE DEF Below
<1>2. PICK m \in T : \A n \in T : <<n, m>> \notin Below
  BY <1>1, WFMin
<1>3. ASSUME NEW n \in T PROVE m <= n
  <2>1. <<n, m>> \in Nat \X Nat /\ <<n, m>>[1] = n /\ <<n, m>>[2] = m
    OBVIOUS
  <2>2. ~(n < m)
    BY <1>2, <2>1 DEF Below
  <2> QED BY <2>2
<1> QED BY <1>3

\* A key that the layers hold is in a topmost one.
LEMMA Topmost ==
    ASSUME NEW list, Layered(list), NEW key, NEW i \in DOMAIN list, HoldsKey(list[i], key)
    PROVE  \E t \in DOMAIN list : /\ i <= t /\ HoldsKey(list[t], key)
                                  /\ \A j \in DOMAIN list : t < j => ~HoldsKey(list[j], key)
<1> DEFINE Depths == {d \in Nat : d < Len(list) /\ HoldsKey(list[Len(list) - d], key)}
<1>1. Len(list) \in Nat /\ DOMAIN list = 1 .. Len(list)
  BY LayerIs
<1>2. i \in Int /\ 1 <= i /\ i <= Len(list)
  BY <1>1
<1>3. Len(list) - i \in Nat /\ Len(list) - i < Len(list) /\ Len(list) - (Len(list) - i) = i
  BY <1>1, <1>2
<1>4. Len(list) - i \in Depths
  BY <1>3
<1>5. PICK d \in Depths : \A e \in Depths : d <= e
  <2>1. Depths \subseteq Nat /\ Depths # {}
    BY <1>4
  <2> HIDE DEF Depths
  <2> QED BY <2>1, LeastNumber
<1> DEFINE t == Len(list) - d
<1>6. t \in DOMAIN list /\ HoldsKey(list[t], key)
  BY <1>1, <1>5
<1>7. i <= t
  BY <1>1, <1>2, <1>4, <1>5
<1>8. ASSUME NEW j \in DOMAIN list, t < j, HoldsKey(list[j], key) PROVE FALSE
  <2>1. j \in Int /\ 1 <= j /\ j <= Len(list)
    BY <1>1
  <2>2. Len(list) - j \in Nat /\ Len(list) - j < Len(list) /\ Len(list) - (Len(list) - j) = j
    BY <1>1, <2>1
  <2>3. Len(list) - j \in Depths
    BY <1>8, <2>2
  <2>4. d <= Len(list) - j /\ d \in Int
    BY <1>5, <2>3
  <2> QED BY <1>1, <1>8, <2>1, <2>4
<1> HIDE DEF t
<1> QED BY <1>6, <1>7, <1>8

----------------------------------------------------------------------------
(* What the steps of the store do to its layers.                            *)

\* What a step may do to the newest versions, to those that stood still, and to
\* what the segments alone would answer.
StoreEffect ==
    /\ still' \subseteq still
    /\ \A v \in Newest(HeldNow') : v \in Newest(HeldNow) \/ ~Covers(mask', v)
    /\ \A v \in still' : v \in Newest(HeldNow) /\ ~Covers(mask, v)
                             => v \in Newest(HeldNow') /\ ~Covers(mask', v)
    /\ \A v \in Newest(InSegments') : \/ v \in Newest(InSegments) \/ v \in Newest(HeldNow)
                                      \/ subject # NoSession /\ subject' = NoSession /\ mask' =
                                                    NoMask
    /\ \A v \in still' : v \in Newest(HeldNow) /\ ~Covers(mask, v) /\ v \in Newest(InSegments)
                             => v \in Newest(InSegments')

\* Every version the store holds is one, and no later than the last ingest.
LEMMA HeldIs ==
    ASSUME LayersInv, NEW v \in HeldNow
    PROVE  v \in Version /\ v.n \in Nat /\ v.n <= ingests /\ ingests \in Nat
<1>1. v \in Version
  <2>1. CASE v \in buffer
    BY <2>1 DEF LayersInv
  <2>2. CASE v \in InSegments
    BY <2>2, InLayers, LayerIs DEF InSegments, LayersInv
  <2> QED BY <2>1, <2>2 DEF HeldNow
<1>2. ingests \in Nat
  BY ReadingAssumption DEF LayersInv
<1> QED BY <1>1, <1>2, VersionIs DEF LayersInv

\* An ingested version is newer than all there is.
LEMMA IngestLayers ==
    ASSUME LayersInv, NEW key \in Keys, NEW at \in Times, NEW session \in Sessions,
           Ingest(key, at, session)
    PROVE  LayersInv' /\ StoreEffect
<1> DEFINE v == [key |-> key, at |-> at, session |-> session, n |-> ingests + 1]
<1>1. /\ buffer' = {v} \cup {w \in buffer : w.key # key} /\ ~Covers(mask, v)
      /\ still' = {w \in still : w.key # key} /\ ingests' = ingests + 1 /\ ingests < MaxIngests
      /\ segments' = segments /\ mask' = mask /\ subject' = subject
  <2>1. \A w : HoldsKey({v}, w.key) <=> w.key = key
    BY DEF HoldsKey
  <2> QED BY <2>1 DEF Ingest, Overwrite
<1>2. ingests \in Nat /\ MaxIngests \in Nat /\ ingests' \in 0 .. MaxIngests
  BY <1>1, ReadingAssumption DEF LayersInv
<1>3. v \in Version /\ v.key = key /\ v.n = ingests + 1
  BY <1>1, <1>2 DEF Version
<1> HIDE DEF v
<1>4. InSegments' = InSegments
  BY <1>1 DEF InSegments
<1>5. HeldNow' = {v} \cup {w \in buffer : w.key # key} \cup InSegments
  BY <1>1, <1>4 DEF HeldNow
<1>6. \A w \in HeldNow : w.n < v.n /\ w.n \in Nat /\ v.n \in Nat /\ w \in Version
  BY <1>2, <1>3, HeldIs
<1>7. \A w \in HeldNow' : w = v \/ w \in HeldNow
  BY <1>5 DEF HeldNow
<1>8. \A w \in HeldNow : w.key # key => w \in HeldNow'
  BY <1>5 DEF HeldNow
<1>9. LayersInv'
  <2>1. buffer' \in SUBSET Version /\ OnePerKey(buffer')
    BY <1>1, <1>3 DEF LayersInv, OnePerKey
  <2>2. ASSUME NEW i \in DOMAIN segments PROVE Older(segments[i], buffer')
    <3> SUFFICES ASSUME NEW w \in segments[i], NEW u \in buffer', w.key = u.key PROVE w.n < u.n
      BY DEF Older
    <3>1. CASE u = v
      BY <1>6, <3>1, InLayers DEF HeldNow, InSegments
    <3>2. CASE u \in buffer
      BY <3>2 DEF LayersInv, Older
    <3> QED BY <1>1, <3>1, <3>2
  <2>3. \A w \in HeldNow' : w.n <= ingests'
    BY <1>1, <1>2, <1>3, <1>7, HeldIs
  <2> QED BY <1>1, <1>2, <2>1, <2>2, <2>3 DEF LayersInv
<1>10. ASSUME NEW w \in Newest(HeldNow') PROVE w \in Newest(HeldNow) \/ ~Covers(mask', w)
  <2>1. CASE w = v
    BY <1>1, <2>1
  <2>2. CASE w # v
    <3>1. w \in HeldNow
      BY <1>7, <2>2 DEF Newest
    <3>2. w.key # key
      <4> SUFFICES ASSUME w.key = key PROVE FALSE
        OBVIOUS
      <4>1. v.n <= w.n
        BY <1>3, <1>5 DEF Newest
      <4> QED BY <1>6, <3>1, <4>1
    <3>3. \A u \in HeldNow : u.key = w.key => u.n <= w.n
      BY <1>8, <3>2 DEF Newest
    <3> QED BY <3>1, <3>3 DEF Newest
  <2> QED BY <2>1, <2>2
<1>11. ASSUME NEW w \in still', w \in Newest(HeldNow) PROVE w \in Newest(HeldNow')
  <2>1. w.key # key /\ w \in HeldNow' /\ v.key = key
    BY <1>1, <1>3, <1>8, <1>11 DEF Newest
  <2>2. \A u \in HeldNow' : u.key = w.key => u.n <= w.n
    BY <1>7, <1>11, <2>1 DEF Newest
  <2> QED BY <2>1, <2>2 DEF Newest
<1> QED BY <1>1, <1>4, <1>9, <1>10, <1>11 DEF StoreEffect

\* A seal moves the buffer, whole, on top of the segments.
LEMMA SealLayers ==
    ASSUME LayersInv, Seal
    PROVE  LayersInv' /\ StoreEffect
<1>1. /\ segments' = Append(segments, buffer) /\ buffer' = {} /\ mask' = mask /\ subject' = subject
      /\ ingests' = ingests /\ still' = still
  BY DEF Seal, ghosts
<1>2. Layered(segments') /\ InSegments' = InSegments \cup buffer
  BY <1>1, AppendLayer DEF LayersInv, InSegments
<1>3. HeldNow' = HeldNow /\ InSegments' = HeldNow
  BY <1>1, <1>2 DEF HeldNow
<1>4. LayersInv'
  BY <1>1, <1>2, <1>3 DEF LayersInv, OnePerKey, Older
<1> QED BY <1>1, <1>3, <1>4 DEF StoreEffect

\* What a merge leaves out is superseded where it was.
LEMMA MergeLayers ==
    ASSUME LayersInv, NEW first \in DOMAIN segments, Merge(first)
    PROVE  /\ LayersInv' /\ StoreEffect
           /\ Len(segments') = first /\ first < Len(segments) /\ DOMAIN segments' = 1 .. first
           /\ \A i \in 1 .. first - 1 : i \in DOMAIN segments /\ segments'[i] = segments[i]
           /\ segments'[first] \in SUBSET Version /\ OnePerKey(segments'[first])
           /\ segments'[first] = Last(segments')
<1> DEFINE low == SubSeq(segments, 1, first - 1)
           top == Merged(SubSeq(segments, first, Len(segments)))
           Top(i, v) == /\ first <= i /\ v \in segments[i]
                        /\ \A j \in DOMAIN segments : i < j => ~HoldsKey(segments[j], v.key)
<1>1. /\ segments' = Append(low, top) /\ first < Len(segments) /\ buffer' = buffer /\ mask' = mask
      /\ subject' = subject /\ ingests' = ingests /\ still' = still
  BY DEF Merge, ghosts
<1>2. Layered(segments) /\ first \in Nat /\ 1 <= first /\ DOMAIN segments = 1 .. Len(segments)
      /\ Len(segments) \in Nat
  BY LayerIs DEF LayersInv
<1>3. /\ Layered(low) /\ DOMAIN low = 1 .. first - 1 /\ Len(low) = first - 1
      /\ \A i \in 1 .. first - 1 : i \in DOMAIN segments /\ low[i] = segments[i]
  BY <1>2, LowerLayers, Zenon
<1>4. /\ top \in SUBSET Version /\ OnePerKey(top)
      /\ \A i \in 1 .. first - 1 : Older(segments[i], top)
      /\ \A v : v \in top <=> \E i \in DOMAIN segments : Top(i, v)
  BY <1>2, MergedLayer, Zenon
<1> HIDE DEF low, top
<1>5. \A i \in DOMAIN low : Older(low[i], top)
  BY <1>3, <1>4
<1>6. /\ Layered(segments') /\ Len(segments') = Len(low) + 1 /\ DOMAIN segments' = 1 .. Len(low) + 1
      /\ segments'[Len(low) + 1] = top /\ \A i \in DOMAIN low : segments'[i] = low[i]
      /\ UNION ToSet(segments') = (UNION ToSet(low)) \cup top
  BY <1>1, <1>3, <1>4, <1>5, AppendLayer, ZenonT(40)
<1>7. /\ Len(segments') = first /\ DOMAIN segments' = 1 .. first /\ segments'[first] = top
      /\ \A i \in 1 .. first - 1 : i \in DOMAIN segments /\ segments'[i] = segments[i]
  BY <1>2, <1>3, <1>6
<1>8. segments'[first] = Last(segments')
  BY <1>7 DEF Last
<1>9. ASSUME NEW v \in InSegments' PROVE v \in InSegments
  <2>1. v \in top => v \in InSegments
    BY <1>4, InLayers DEF InSegments
  <2>2. v \in UNION ToSet(low) => v \in InSegments
    BY <1>3, InLayers DEF InSegments
  <2> QED BY <1>6, <2>1, <2>2 DEF InSegments
<1>10. ASSUME NEW v \in Newest(InSegments) PROVE v \in InSegments'
  <2>1. PICK i \in DOMAIN segments : v \in segments[i]
    BY InLayers DEF InSegments, Newest
  <2>2. \A j \in DOMAIN segments : i < j => ~HoldsKey(segments[j], v.key)
    BY <1>2, <2>1, NewestIsUppermost DEF InSegments
  <2>3. CASE first <= i
    BY <1>4, <1>6, <2>1, <2>2, <2>3 DEF InSegments
  <2>4. CASE i < first
    <3>1. i \in DOMAIN low /\ v \in low[i]
      BY <1>2, <1>3, <2>1, <2>4
    <3> QED BY <1>6, <3>1, InLayers DEF InSegments
  <2>5. first <= i \/ i < first
    BY <1>2
  <2> QED BY <2>3, <2>4, <2>5
<1>11. ASSUME NEW v \in Newest(InSegments') PROVE v \in Newest(InSegments)
  <2>1. v \in InSegments
    BY <1>9 DEF Newest
  <2>2. ASSUME NEW w \in InSegments, w.key = v.key PROVE w.n <= v.n
    <3>1. PICK i \in DOMAIN segments : w \in segments[i]
      BY InLayers DEF InSegments
    <3>2. PICK t \in DOMAIN segments : /\ i <= t /\ HoldsKey(segments[t], w.key)
                                       /\ \A j \in DOMAIN segments : t < j =>
                                                     ~HoldsKey(segments[j], w.key)
      BY <1>2, <3>1, Topmost DEF HoldsKey
    <3>3. PICK u \in segments[t] : u.key = w.key
      BY <3>2 DEF HoldsKey
    <3>4. u \in Newest(InSegments)
      BY <1>2, <3>2, <3>3, UppermostIsNewest DEF InSegments
    <3>5. u \in InSegments'
      BY <1>10, <3>4
    <3>6. u.n <= v.n /\ w.n <= u.n
      BY <2>2, <3>3, <3>4, <3>5 DEF Newest
    <3>7. u \in Version /\ w \in Version /\ v \in Version
      BY <2>1, <2>2, <3>4, HeldIs DEF Newest, HeldNow
    <3>8. u.n \in Nat /\ w.n \in Nat /\ v.n \in Nat
      BY <3>7, VersionIs
    <3> QED BY <3>6, <3>8
  <2> QED BY <2>1, <2>2 DEF Newest
<1>12. \A v \in Newest(InSegments) : v \in Newest(InSegments')
  BY <1>9, <1>10 DEF Newest
<1>13. Newest(InSegments') = Newest(InSegments)
  BY <1>11, <1>12
<1>14. \A i \in DOMAIN segments' : Older(segments'[i], buffer)
  <2>1. \A i \in 1 .. first - 1 : Older(segments'[i], buffer)
    BY <1>7 DEF LayersInv
  <2>2. Older(top, buffer)
    BY <1>4 DEF LayersInv, Older
  <2> QED BY <1>2, <1>7, <2>1, <2>2
<1>15. \A v \in HeldNow' : v \in HeldNow
  BY <1>1, <1>9 DEF HeldNow
<1>16. LayersInv'
  BY <1>1, <1>6, <1>14, <1>15 DEF LayersInv
<1>17. Newest(HeldNow') = Newest(HeldNow)
  <2>1. \A v : v \in Newest(buffer \cup InSegments') <=>
                 v \in buffer \/ (v \in Newest(InSegments') /\ ~HoldsKey(buffer, v.key))
    BY <1>6, <1>14, NewestOverLayers DEF LayersInv, InSegments
  <2>2. \A v : v \in Newest(HeldNow') <=> v \in Newest(HeldNow)
    BY <1>1, <1>13, <2>1, NewestHeld DEF HeldNow
  <2> QED BY <2>2
<1> QED BY <1>1, <1>4, <1>7, <1>8, <1>13, <1>16, <1>17 DEF StoreEffect

\* An erasure that begins only covers.
LEMMA BeginLayers ==
    ASSUME LayersInv, NEW session \in Sessions, BeginErasure(session)
    PROVE  LayersInv' /\ StoreEffect
<1>1. /\ buffer' = buffer /\ segments' = segments /\ ingests' = ingests
      /\ subject' = session /\ session \in mask'.sessions
      /\ still' = {v \in still : ~Covers(mask', v)} /\ subject = NoSession
  BY DEF BeginErasure
<1>2. HeldNow' = HeldNow /\ InSegments' = InSegments /\ session # NoSession
  BY <1>1, ReadingAssumption DEF HeldNow, InSegments
<1>3. LayersInv'
  BY <1>1, <1>2 DEF LayersInv
<1> QED BY <1>1, <1>2, <1>3 DEF StoreEffect

\* The numbers up to one.
LEMMA UpTo ==
    ASSUME NEW n \in Nat
    PROVE  IsFiniteSet(1 .. n) /\ Cardinality(1 .. n) = n
BY FS_Interval

\* What a purge leaves of the positions: fewer, in their order.
LEMMA AscendingIs ==
    ASSUME NEW positions, IsFiniteSet(positions), NEW left \in Ascending(positions)
    PROVE  /\ left \in Seq(positions) /\ Len(left) = Cardinality(positions)
           /\ DOMAIN left = 1 .. Len(left) /\ Len(left) \in Nat
           /\ \A k \in DOMAIN left : left[k] \in positions
           /\ \A k, l \in DOMAIN left : k < l => left[k] < left[l]
           /\ \A i \in positions : \E k \in DOMAIN left : left[k] = i
<1>1. Cardinality(positions) \in Nat
  BY FS_CardinalityType
<1>2. left \in [1 .. Cardinality(positions) -> positions] /\ ToSet(left) = positions
      /\ \A k, l \in DOMAIN left : k < l => left[k] < left[l]
  BY DEF Ascending
<1>3. left \in Seq(positions) /\ Len(left) = Cardinality(positions) /\ DOMAIN left = 1 .. Len(left)
  BY <1>1, <1>2
<1>4. \A i \in positions : \E k \in DOMAIN left : left[k] = i
  BY <1>2 DEF ToSet
<1> QED BY <1>1, <1>2, <1>3, <1>4

\* A purge takes the versions of its subject, wherever they are.
LEMMA PurgeLayers ==
    ASSUME LayersInv, NEW left \in Survivors, CompleteErasure(left)
    PROVE  /\ LayersInv' /\ StoreEffect
           /\ Len(segments') = Len(left) /\ Len(left) <= Len(segments) /\ Len(left) \in Nat
           /\ DOMAIN segments' = 1 .. Len(left) /\ DOMAIN left = 1 .. Len(left)
           /\ \A k \in DOMAIN left : left[k] \in DOMAIN segments /\ segments'[k] =
                         Kept(segments[left[k]])
           /\ \A k, l \in DOMAIN left : left[k] = left[l] => k = l
<1> DEFINE positions == {i \in DOMAIN segments : Kept(segments[i]) # {}}
<1>1. /\ buffer' = Kept(buffer) /\ segments' = [i \in DOMAIN left |-> Kept(segments[left[i]])]
      /\ mask' = NoMask /\ subject' = NoSession /\ subject # NoSession
      /\ ingests' = ingests /\ still' = still
  BY DEF CompleteErasure, ghosts
<1>2. Layered(segments) /\ DOMAIN segments = 1 .. Len(segments) /\ Len(segments) \in Nat
  BY DEF LayersInv, Layered
<1>3. /\ IsFiniteSet(positions) /\ Cardinality(positions) <= Len(segments)
      /\ positions \subseteq DOMAIN segments
  <2>1. IsFiniteSet(1 .. Len(segments)) /\ Cardinality(1 .. Len(segments)) = Len(segments)
    BY <1>2, UpTo, Zenon
  <2>2. positions \in SUBSET (1 .. Len(segments))
    BY <1>2
  <2> HIDE DEF positions
  <2>3. IsFiniteSet(positions) /\ Cardinality(positions) <= Cardinality(1 .. Len(segments))
    BY <2>1, <2>2, FS_Subset
  <2> QED BY <1>2, <2>1, <2>2, <2>3
<1>4. left \in Ascending(positions)
  BY DEF Survivors
<1> HIDE DEF positions
<1>5. /\ left \in Seq(positions) /\ Len(left) = Cardinality(positions)
      /\ DOMAIN left = 1 .. Len(left) /\ Len(left) \in Nat
      /\ \A k \in DOMAIN left : left[k] \in positions
      /\ \A k, l \in DOMAIN left : k < l => left[k] < left[l]
      /\ \A i \in positions : \E k \in DOMAIN left : left[k] = i
  BY <1>3, <1>4, AscendingIs
<1>6. \A k \in DOMAIN left : left[k] \in DOMAIN segments /\ left[k] \in Nat
  BY <1>2, <1>3, <1>5
<1>7. \A k, l \in DOMAIN left : left[k] = left[l] => k = l
  <2> SUFFICES ASSUME NEW k \in DOMAIN left, NEW l \in DOMAIN left, left[k] = left[l] PROVE k = l
    OBVIOUS
  <2>1. k \in Nat /\ l \in Nat /\ left[k] \in Nat
    BY <1>5, <1>6
  <2>2. ~(k < l) /\ ~(l < k)
    BY <1>5, <2>1
  <2> QED BY <2>1, <2>2
<1>8. /\ DOMAIN segments' = 1 .. Len(left) /\ Len(segments') = Len(left)
      /\ \A k \in DOMAIN left : segments'[k] = Kept(segments[left[k]])
  BY <1>1, <1>5
<1>9. \A S : Kept(S) \subseteq S
  BY DEF Kept
<1>10. Layered(segments')
  <2>1. \A k \in DOMAIN left : segments'[k] \in SUBSET Version /\ OnePerKey(segments'[k])
    BY <1>2, <1>6, <1>8, <1>9, LayerIs DEF OnePerKey
  <2>2. segments' \in Seq(SUBSET Version)
    BY <1>1, <1>5, <2>1
  <2>3. ASSUME NEW k \in DOMAIN left, NEW l \in DOMAIN left, k < l
        PROVE  Older(segments'[k], segments'[l])
    <3>1. Older(segments[left[k]], segments[left[l]])
      BY <1>2, <1>5, <1>6, <2>3 DEF Layered
    <3> QED BY <1>8, <1>9, <3>1 DEF Older
  <2> QED BY <1>5, <1>8, <2>1, <2>2, <2>3 DEF Layered
<1>11. InSegments' = Kept(InSegments)
  <2>1. ASSUME NEW v \in InSegments' PROVE v \in Kept(InSegments)
    <3>1. PICK k \in DOMAIN left : v \in Kept(segments[left[k]])
      BY <1>5, <1>8, <2>1, InLayers DEF InSegments
    <3> QED BY <1>6, <3>1, InLayers DEF Kept, InSegments
  <2>2. ASSUME NEW v \in Kept(InSegments) PROVE v \in InSegments'
    <3>1. PICK i \in DOMAIN segments : v \in segments[i]
      BY InLayers DEF Kept, InSegments
    <3>2. v \in Kept(segments[i])
      BY <3>1 DEF Kept
    <3>3. PICK k \in DOMAIN left : left[k] = i
      BY <1>5, <3>2 DEF positions
    <3>4. k \in DOMAIN segments' /\ v \in segments'[k]
      BY <1>5, <1>8, <3>2, <3>3
    <3> QED BY <3>4, InLayers DEF InSegments
  <2> QED BY <2>1, <2>2
<1>12. HeldNow' = Kept(HeldNow)
  BY <1>1, <1>11 DEF HeldNow, Kept
<1>13. \A k \in DOMAIN segments' : Older(segments'[k], buffer')
  BY <1>1, <1>5, <1>6, <1>8, <1>9 DEF LayersInv, Older
<1>14. LayersInv'
  <2>1. buffer' \in SUBSET Version /\ OnePerKey(buffer')
    BY <1>1, <1>9 DEF LayersInv, OnePerKey
  <2>2. \A v \in HeldNow' : v.n <= ingests'
    BY <1>1, <1>9, <1>12 DEF LayersInv
  <2> QED BY <1>1, <1>10, <1>13, <2>1, <2>2 DEF LayersInv
<1>15. \A v : ~Covers(mask', v)
  BY <1>1 DEF Covers, NoMask
<1>16. ASSUME NEW v, ~Covers(mask, v) PROVE v.session # subject
  BY <1>1, <1>16 DEF Covers, LayersInv
<1>17. ASSUME NEW S, NEW v \in Newest(S), ~Covers(mask, v) PROVE v \in Newest(Kept(S))
  <2>1. v \in Kept(S)
    BY <1>16, <1>17 DEF Kept, Newest
  <2> QED BY <1>9, <2>1, NewestOfLess
<1> QED BY <1>1, <1>3, <1>5, <1>6, <1>7, <1>8, <1>11, <1>12, <1>14, <1>15, <1>17 DEF StoreEffect

----------------------------------------------------------------------------
(* What the steps of the store do to names and rollups.                     *)

\* The names of the segments are among those claimed, which there is room for.
LEMMA NamesAre ==
    ASSUME LayersInv, NamesInv
    PROVE  /\ claimed \in Nat /\ Len(segments) \in Nat /\ ingests \in Nat /\ MaxIngests \in Nat
           /\ DOMAIN paths = 1 .. Len(segments) /\ DOMAIN segments = 1 .. Len(segments)
           /\ Paths = 1 .. 2 * MaxIngests /\ claimed <= 2 * MaxIngests
           /\ buffer # {} => claimed + 2 + Len(segments) <= 2 * MaxIngests
           /\ claimed + Len(segments) <= 2 * MaxIngests
           /\ \A i \in DOMAIN paths : /\ paths[i] \in 1 .. claimed /\ paths[i] \in Paths
                                      /\ paths[i] \in Nat /\ paths[i] <= claimed
<1>1. claimed \in Nat /\ Len(segments) \in Nat /\ ingests \in Nat /\ MaxIngests \in Nat
      /\ ingests <= MaxIngests
  BY ReadingAssumption DEF LayersInv, NamesInv, Layered
<1>2. DOMAIN paths = 1 .. Len(segments) /\ DOMAIN segments = 1 .. Len(segments)
  BY DEF LayersInv, NamesInv, Layered
<1>3. claimed + Len(segments) <= 2 * ingests
  BY <1>1 DEF NamesInv
<1>4. buffer # {} => claimed + Len(segments) + 2 <= 2 * ingests
  BY <1>1 DEF NamesInv
<1>5. 2 * ingests <= 2 * MaxIngests
  BY <1>1
<1>6. claimed <= 2 * MaxIngests /\ claimed + Len(segments) <= 2 * MaxIngests
  BY <1>1, <1>3, <1>5
<1>7. buffer # {} => claimed + 2 + Len(segments) <= 2 * MaxIngests
  BY <1>1, <1>4, <1>5
<1>8. \A i \in DOMAIN paths : paths[i] \in 1 .. claimed
  BY DEF NamesInv
<1>9. \A i \in 1 .. claimed : i \in Paths /\ i \in Nat /\ i <= claimed
  BY <1>1, <1>6 DEF Paths
<1> QED BY <1>1, <1>2, <1>6, <1>7, <1>8, <1>9 DEF Paths

\* A rollup stays right when the files of its name only shrink or go, and new
\* files have new names.
LEMMA StaysOfItsFile ==
    ASSUME NEW p \in Nat, NEW rollup, NEW names, NEW files, NEW pins, NEW pinned, NEW most \in Nat,
           OfItsFile(p, rollup, names, files, pins, pinned, most),
           NEW names2, NEW files2, NEW most2 \in Nat, most <= most2,
           \A i \in DOMAIN names2 :
               \/ names2[i] = most2 /\ most < most2
               \/ \E k \in DOMAIN names : names[k] = names2[i] /\ files2[i] \subseteq files[k]
    PROVE  OfItsFile(p, rollup, names2, files2, pins, pinned, most2)
<1> SUFFICES ASSUME rollup # NoRollup
             PROVE  OfItsFile(p, rollup, names2, files2, pins, pinned, most2)
  BY DEF OfItsFile
<1>1. /\ rollup = Rolled(rollup.held)
      /\ rollup.held \in SUBSET Version /\ OnePerKey(rollup.held)
      /\ p <= most
      /\ \A i \in DOMAIN names : names[i] = p => files[i] \subseteq rollup.held
      /\ \A j \in DOMAIN pins : pins[j] = p => Comparable(rollup.held, pinned[j])
  BY DEF OfItsFile
<1>2. p <= most2
  BY <1>1
<1>3. ASSUME NEW i \in DOMAIN names2, names2[i] = p PROVE files2[i] \subseteq rollup.held
  <2>1. ~(p = most2 /\ most < most2)
    BY <1>1
  <2>2. PICK k \in DOMAIN names : names[k] = p /\ files2[i] \subseteq files[k]
    BY <1>3, <2>1
  <2> QED BY <1>1, <2>2
<1> QED BY <1>1, <1>2, <1>3 DEF OfItsFile

\* A rollup of what a file holds is right for it.
LEMMA RolledIsOfItsFile ==
    ASSUME NEW p, NEW versions \in SUBSET Version, OnePerKey(versions),
           NEW names, NEW files, NEW pins, NEW pinned, NEW most, p <= most,
           \A i \in DOMAIN names : names[i] = p => files[i] \subseteq versions,
           \A j \in DOMAIN pins : pins[j] = p => Comparable(versions, pinned[j])
    PROVE  OfItsFile(p, Rolled(versions), names, files, pins, pinned, most)
<1>1. Rolled(versions).held = versions
  BY DEF Rolled
<1> HIDE DEF Rolled
<1> QED BY <1>1 DEF OfItsFile

\* A name without a rollup promises nothing.
LEMMA NothingIsOfItsFile ==
    ASSUME NEW p, NEW names, NEW files, NEW pins, NEW pinned, NEW most
    PROVE  OfItsFile(p, NoRollup, names, files, pins, pinned, most)
BY DEF OfItsFile

\* The parts of the invariant that the files are about.
FilesInv == NamesInv /\ RollupsAreOfTheirFiles /\ PinnedInv

\* An ingest leaves files and rollups alone and leaves names enough.
LEMMA IngestFiles ==
    ASSUME LayersInv, FilesInv, NEW key \in Keys, NEW at \in Times, NEW session \in Sessions,
           Ingest(key, at, session), UNCHANGED <<rollups, fold>>
    PROVE  FilesInv'
<1>1. /\ segments' = segments /\ ingests' = ingests + 1 /\ paths' = paths /\ claimed' = claimed
      /\ sidecars' = sidecars /\ cache' = cache /\ fold' = fold
  BY DEF Ingest, rollups
<1>2. NamesInv'
  <2>1. claimed \in Nat /\ Len(segments) \in Nat /\ ingests \in Nat
    BY NamesAre DEF FilesInv
  <2>2. claimed + Len(segments) <= 2 * ingests
    BY <2>1 DEF FilesInv, NamesInv
  <2>3. claimed + Len(segments) + (IF buffer' = {} THEN 0 ELSE 2) <= 2 * (ingests + 1)
    BY <2>1, <2>2
  <2> QED BY <1>1, <2>3 DEF FilesInv, NamesInv
<1>3. RollupsAreOfTheirFiles'
  BY <1>1 DEF FilesInv, RollupsAreOfTheirFiles, Good
<1>4. PinnedInv'
  BY <1>1 DEF FilesInv, PinnedInv
<1> QED BY <1>2, <1>3, <1>4 DEF FilesInv

\* A seal names its file anew and rolls up what it wrote.
LEMMA SealFiles ==
    ASSUME LayersInv, FilesInv, SealWithRollup, UNCHANGED fold
    PROVE  FilesInv'
<1> DEFINE n == Len(segments)  c == claimed + 1
<1>1. /\ segments' = Append(segments, buffer) /\ buffer # {} /\ buffer' = {} /\ ingests' = ingests
      /\ claimed' = c /\ paths' = Append(paths, c)
      /\ sidecars' = [sidecars EXCEPT ![c] = Rolled(buffer)] /\ cache' = cache /\ fold' = fold
  BY DEF SealWithRollup, Seal
<1>2. /\ claimed \in Nat /\ n \in Nat /\ ingests \in Nat /\ MaxIngests \in Nat
      /\ DOMAIN paths = 1 .. n /\ DOMAIN segments = 1 .. n /\ Paths = 1 .. 2 * MaxIngests
      /\ claimed + 2 + n <= 2 * MaxIngests
      /\ \A i \in DOMAIN paths : paths[i] \in 1 .. claimed
  BY <1>1, NamesAre DEF FilesInv
<1>3. c \in Nat /\ c \in Paths /\ claimed <= c /\ claimed < c
  BY <1>2
<1>4. /\ Len(segments') = n + 1 /\ DOMAIN segments' = 1 .. n + 1 /\ segments'[n + 1] = buffer
      /\ \A i \in 1 .. n : segments'[i] = segments[i]
      /\ \A i \in 1 .. n + 1 : i \in 1 .. n \/ i = n + 1
  BY <1>1, <1>2, AppendLayer DEF LayersInv
<1>5. /\ paths' \in Seq(1 .. c) /\ Len(paths') = n + 1 /\ DOMAIN paths' = 1 .. n + 1
      /\ paths'[n + 1] = c /\ \A i \in 1 .. n : paths'[i] = paths[i]
  <2>1. paths \in Seq(1 .. c)
    BY <1>2, <1>3 DEF FilesInv, NamesInv
  <2>2. Len(paths) = n
    BY DEF FilesInv, NamesInv
  <2> QED BY <1>1, <1>2, <1>3, <2>1, <2>2
<1>6. NamesInv'
  <2>1. \A i, j \in DOMAIN paths' : paths'[i] = paths'[j] => i = j
    BY SMTT(30), <1>2, <1>3, <1>4, <1>5 DEF FilesInv, NamesInv
  <2>2. c + (n + 1) + 0 <= 2 * ingests
    BY <1>1, <1>2 DEF FilesInv, NamesInv
  <2> QED BY <1>1, <1>3, <1>4, <1>5, <2>1, <2>2 DEF NamesInv
<1> HIDE DEF n, c
<1>7. \A i \in DOMAIN paths' :
          \/ paths'[i] = c /\ claimed < c
          \/ \E k \in DOMAIN paths : paths[k] = paths'[i] /\ segments'[i] \subseteq segments[k]
  BY <1>2, <1>3, <1>4, <1>5
<1>8. ASSUME NEW p \in Paths, NEW rollup, Good(p, rollup)
      PROVE  OfItsFile(p, rollup, paths', segments', fold.paths, fold.segments, c)
  <2>1. p \in Nat
    BY <1>2
  <2> QED BY <1>2, <1>3, <1>7, <1>8, <2>1, StaysOfItsFile DEF Good
<1>9. OfItsFile(c, Rolled(buffer), paths', segments', fold.paths, fold.segments, c)
  <2>1. buffer \in SUBSET Version /\ OnePerKey(buffer) /\ c <= c
    BY <1>3 DEF LayersInv
  <2>2. \A i \in DOMAIN paths' : paths'[i] = c => segments'[i] \subseteq buffer
    <3>1. \A i \in 1 .. n : paths'[i] # c
      BY <1>2, <1>3, <1>5
    <3> QED BY <1>4, <1>5, <3>1
  <2>3. \A j \in DOMAIN fold.paths : fold.paths[j] # c
    BY <1>2, <1>3 DEF FilesInv, PinnedInv
  <2> QED BY <2>1, <2>2, <2>3, RolledIsOfItsFile
<1>10. RollupsAreOfTheirFiles'
  <2>1. DOMAIN sidecars' = Paths /\ DOMAIN cache' = Paths
    BY <1>1 DEF FilesInv, RollupsAreOfTheirFiles
  <2>2. ASSUME NEW p \in Paths PROVE Good(p, sidecars[p])' /\ Good(p, cache[p])'
    <3>1. sidecars'[p] = IF p = c THEN Rolled(buffer) ELSE sidecars[p]
      BY <1>1 DEF FilesInv, RollupsAreOfTheirFiles
    <3>2. Good(p, sidecars[p]) /\ Good(p, cache[p])
      BY DEF FilesInv, RollupsAreOfTheirFiles
    <3> QED BY <1>1, <1>8, <1>9, <3>1, <3>2 DEF Good
  <2> QED BY <2>1, <2>2 DEF RollupsAreOfTheirFiles
<1>11. PinnedInv'
  <2>1. fold.paths \in Seq(1 .. c)
    BY <1>2, <1>3 DEF FilesInv, PinnedInv
  <2>2. ASSUME NEW i \in DOMAIN paths', NEW j \in DOMAIN fold.paths, paths'[i] = fold.paths[j]
        PROVE  segments'[i] \subseteq fold.segments[j]
    <3>1. fold.paths[j] # c
      BY <1>2, <1>3 DEF FilesInv, PinnedInv
    <3>2. PICK k \in DOMAIN paths : paths[k] = paths'[i] /\ segments'[i] \subseteq segments[k]
      BY <1>7, <2>2, <3>1
    <3> QED BY <2>2, <3>2 DEF FilesInv, PinnedInv
  <2> QED BY <1>1, <2>1, <2>2 DEF FilesInv, PinnedInv
<1> QED BY <1>6, <1>10, <1>11 DEF FilesInv

\* A merge names its output anew, and the names of its inputs go.
LEMMA MergeFiles ==
    ASSUME LayersInv, FilesInv, NEW first \in DOMAIN segments, MergeWithRollup(first),
           UNCHANGED fold
    PROVE  FilesInv'
<1> DEFINE n == Len(segments)  c == claimed + 1  top == segments'[first]  rollup == Rolled(top)
           inputs == ToSet(SubSeq(paths, first, Len(paths)))
<1>1. /\ Merge(first) /\ buffer' = buffer /\ ingests' = ingests
      /\ claimed' = c /\ paths' = Append(SubSeq(paths, 1, first - 1), c) /\ fold' = fold
  BY DEF MergeWithRollup, Merge
<1>2. /\ claimed \in Nat /\ n \in Nat /\ ingests \in Nat /\ MaxIngests \in Nat
      /\ DOMAIN paths = 1 .. n /\ DOMAIN segments = 1 .. n /\ Paths = 1 .. 2 * MaxIngests
      /\ claimed + n <= 2 * MaxIngests
      /\ \A i \in DOMAIN paths : paths[i] \in 1 .. claimed
  BY NamesAre DEF FilesInv
<1>3. /\ Len(segments') = first /\ first < n /\ DOMAIN segments' = 1 .. first
      /\ \A i \in 1 .. first - 1 : i \in DOMAIN segments /\ segments'[i] = segments[i]
      /\ top \in SUBSET Version /\ OnePerKey(top) /\ top = Last(segments')
  BY <1>1, MergeLayers
<1>4. /\ sidecars' = [p \in Paths |-> IF p = c THEN rollup
                                      ELSE IF p \in inputs THEN NoRollup ELSE sidecars[p]]
      /\ cache' = cache \/ cache' = [cache EXCEPT ![c] = rollup]
  BY <1>1, <1>3 DEF MergeWithRollup
<1>5. first \in Nat /\ 1 <= first /\ c \in Nat /\ c \in Paths /\ claimed <= c /\ claimed < c
  BY <1>2, <1>3
<1>6. /\ paths' \in Seq(1 .. c) /\ Len(paths') = first /\ DOMAIN paths' = 1 .. first
      /\ paths'[first] = c
      /\ \A i \in 1 .. first - 1 : i \in DOMAIN paths /\ paths'[i] = paths[i]
      /\ \A i \in 1 .. first : i \in 1 .. first - 1 \/ i = first
  <2>1. paths \in Seq(1 .. c)
    BY <1>2, <1>5 DEF FilesInv, NamesInv
  <2>2. Len(paths) = n
    BY DEF FilesInv, NamesInv
  <2>3. /\ SubSeq(paths, 1, first - 1) \in Seq(1 .. c) /\ Len(SubSeq(paths, 1, first - 1)) =
                first - 1
        /\ \A i \in 1 .. first - 1 : i \in DOMAIN paths /\ SubSeq(paths, 1, first - 1)[i] = paths[i]
    BY <1>2, <1>3, <1>5, <2>1, <2>2
  <2>4. \A i \in 1 .. first : i \in 1 .. first - 1 \/ i = first
    BY <1>5
  <2> QED BY <1>1, <1>2, <1>5, <2>3, <2>4
<1>7. NamesInv'
  <2>1. \A i, j \in DOMAIN paths' : paths'[i] = paths'[j] => i = j
    <3>1. \A i \in 1 .. first - 1 : i \in DOMAIN paths /\ paths'[i] = paths[i]
      BY <1>6
    <3>2. \A i \in DOMAIN paths : paths[i] # c
      BY <1>2
    <3> HIDE DEF c
    <3> QED BY <1>6, <3>1, <3>2 DEF FilesInv, NamesInv
  <2>2. c + first <= claimed + n
    BY <1>2, <1>3, <1>5
  <2>3. c + first + (IF buffer = {} THEN 0 ELSE 2) <= 2 * ingests
    BY <1>2, <1>5, <2>2 DEF FilesInv, NamesInv
  <2> QED BY <1>1, <1>3, <1>5, <1>6, <2>1, <2>3 DEF NamesInv
<1> HIDE DEF n, c, top, rollup, inputs
<1>8. \A i \in DOMAIN paths' :
          \/ paths'[i] = c /\ claimed < c
          \/ \E k \in DOMAIN paths : paths[k] = paths'[i] /\ segments'[i] \subseteq segments[k]
  BY <1>2, <1>3, <1>5, <1>6
<1>9. ASSUME NEW p \in Paths, NEW old, Good(p, old)
      PROVE  OfItsFile(p, old, paths', segments', fold.paths, fold.segments, c)
  <2>1. p \in Nat
    BY <1>2
  <2> QED BY <1>2, <1>5, <1>8, <1>9, <2>1, StaysOfItsFile DEF Good
<1>fresh. \A j \in DOMAIN fold.paths : fold.paths[j] # c
  <2>1. fold.paths \in Seq(1 .. claimed)
    BY DEF FilesInv, PinnedInv
  <2>2. \A j \in DOMAIN fold.paths : fold.paths[j] \in 1 .. claimed
    BY <2>1, ElementIs
  <2> QED BY <1>2, <1>5, <2>2
<1>10. OfItsFile(c, rollup, paths', segments', fold.paths, fold.segments, c)
  <2>1. \A i \in DOMAIN paths' : paths'[i] = c => segments'[i] \subseteq top
    <3>1. \A i \in 1 .. first - 1 : paths'[i] # c
      BY SMTT(30), <1>2, <1>5, <1>6
    <3> QED BY <1>6, <3>1 DEF top
  <2> QED BY <1>3, <1>5, <1>fresh, <2>1, RolledIsOfItsFile DEF rollup
<1>11. RollupsAreOfTheirFiles'
  <2>1. DOMAIN sidecars' = Paths /\ DOMAIN cache' = Paths
    BY <1>4 DEF FilesInv, RollupsAreOfTheirFiles
  <2>2. ASSUME NEW p \in Paths PROVE Good(p, sidecars[p])' /\ Good(p, cache[p])'
    <3>1. Good(p, sidecars[p]) /\ Good(p, cache[p])
      BY DEF FilesInv, RollupsAreOfTheirFiles
    <3>2. (sidecars'[p] = rollup /\ p = c) \/ sidecars'[p] = NoRollup \/ sidecars'[p] = sidecars[p]
      BY <1>4
    <3>3. (cache'[p] = rollup /\ p = c) \/ cache'[p] = cache[p]
      BY <1>4 DEF FilesInv, RollupsAreOfTheirFiles
    <3> QED BY <1>1, <1>9, <1>10, <3>1, <3>2, <3>3, NothingIsOfItsFile DEF Good
  <2> QED BY <2>1, <2>2 DEF RollupsAreOfTheirFiles
<1>12. PinnedInv'
  <2>1. fold.paths \in Seq(1 .. c)
    BY <1>2, <1>5 DEF FilesInv, PinnedInv
  <2>2. ASSUME NEW i \in DOMAIN paths', NEW j \in DOMAIN fold.paths, paths'[i] = fold.paths[j]
        PROVE  segments'[i] \subseteq fold.segments[j]
    <3>1. fold.paths[j] # c
      BY <1>fresh
    <3>2. PICK k \in DOMAIN paths : paths[k] = paths'[i] /\ segments'[i] \subseteq segments[k]
      BY <1>8, <2>2, <3>1
    <3> QED BY <2>2, <3>2 DEF FilesInv, PinnedInv
  <2>3. claimed' = c /\ fold' = fold
    BY <1>1
  <2> QED BY <2>1, <2>2, <2>3 DEF FilesInv, PinnedInv
<1> QED BY <1>7, <1>11, <1>12 DEF FilesInv

\* An erasure that begins touches no file.
LEMMA BeginFiles ==
    ASSUME LayersInv, FilesInv, NEW session \in Sessions, BeginErasure(session),
           UNCHANGED <<rollups, fold>>
    PROVE  FilesInv'
<1>1. /\ segments' = segments /\ ingests' = ingests /\ paths' = paths /\ claimed' = claimed
      /\ sidecars' = sidecars /\ cache' = cache /\ fold' = fold /\ buffer' = buffer
  BY DEF BeginErasure, rollups
<1>2. NamesInv'
  BY <1>1 DEF FilesInv, NamesInv
<1>3. RollupsAreOfTheirFiles'
  BY <1>1 DEF FilesInv, RollupsAreOfTheirFiles, Good
<1>4. PinnedInv'
  BY <1>1 DEF FilesInv, PinnedInv
<1> QED BY <1>2, <1>3, <1>4 DEF FilesInv

\* A purge leaves the names to what it leaves of the files, and their rollups are
\* of that.
LEMMA PurgeFiles ==
    ASSUME LayersInv, FilesInv, NEW left \in Survivors, PurgeWithRollups(left), UNCHANGED fold
    PROVE  FilesInv'
<1> DEFINE rewritten(p) == \E i \in DOMAIN segments :
                               paths[i] = p /\ Kept(segments[i]) # segments[i]
           named(p) == CHOOSE i \in DOMAIN segments : paths[i] = p
           rollup(p) == IF Kept(segments[named(p)]) = {} THEN NoRollup
                        ELSE Rolled(Kept(segments[named(p)]))
<1>1. /\ CompleteErasure(left) /\ buffer' = Kept(buffer) /\ ingests' = ingests
      /\ claimed' = claimed /\ paths' = [i \in DOMAIN left |-> paths[left[i]]] /\ fold' = fold
      /\ sidecars' = [p \in Paths |-> IF rewritten(p) THEN rollup(p) ELSE sidecars[p]]
      /\ cache' = [p \in Paths |-> IF rewritten(p) /\ cache[p] # NoRollup
                                   THEN rollup(p) ELSE cache[p]]
  BY DEF PurgeWithRollups, CompleteErasure
<1>2. /\ claimed \in Nat /\ Len(segments) \in Nat /\ ingests \in Nat /\ MaxIngests \in Nat
      /\ DOMAIN paths = DOMAIN segments /\ Paths = 1 .. 2 * MaxIngests
      /\ \A i \in DOMAIN paths : paths[i] \in 1 .. claimed /\ paths[i] \in Nat /\
                    paths[i] <= claimed
  BY NamesAre DEF FilesInv
<1>3. /\ Len(segments') = Len(left) /\ Len(left) <= Len(segments) /\ Len(left) \in Nat
      /\ DOMAIN segments' = 1 .. Len(left) /\ DOMAIN left = 1 .. Len(left)
      /\ \A k \in DOMAIN left : left[k] \in DOMAIN segments /\ segments'[k] =
                    Kept(segments[left[k]])
      /\ \A k, l \in DOMAIN left : left[k] = left[l] => k = l
  BY <1>1, PurgeLayers
<1>4. \A S : Kept(S) \subseteq S
  BY DEF Kept
<1>5. /\ paths' \in Seq(1 .. claimed) /\ Len(paths') = Len(left) /\ DOMAIN paths' = 1 .. Len(left)
      /\ \A k \in DOMAIN left : paths'[k] = paths[left[k]]
  <2>1. \A k \in DOMAIN left : paths[left[k]] \in 1 .. claimed
    BY <1>2, <1>3
  <2> QED BY <1>1, <1>3, <2>1
<1>6. NamesInv'
  <2>1. \A i, j \in DOMAIN paths' : paths'[i] = paths'[j] => i = j
    BY <1>2, <1>3, <1>5 DEF FilesInv, NamesInv
  <2>2. (IF buffer' = {} THEN 0 ELSE 2) <= (IF buffer = {} THEN 0 ELSE 2)
    BY <1>1, <1>4
  <2>3. claimed + Len(left) + (IF buffer' = {} THEN 0 ELSE 2) <= 2 * ingests
    <3>1. claimed + Len(segments) + (IF buffer = {} THEN 0 ELSE 2) <= 2 * ingests
      BY DEF FilesInv, NamesInv
    <3>2. (IF buffer' = {} THEN 0 ELSE 2) \in Nat /\ (IF buffer = {} THEN 0 ELSE 2) \in Nat
      OBVIOUS
    <3> QED BY <1>2, <1>3, <2>2, <3>1, <3>2
  <2> QED BY <1>1, <1>2, <1>3, <1>5, <2>1, <2>3 DEF NamesInv
<1>7. \A i \in DOMAIN paths' :
          \/ paths'[i] = claimed /\ claimed < claimed
          \/ \E k \in DOMAIN paths : paths[k] = paths'[i] /\ segments'[i] \subseteq segments[k]
  BY <1>2, <1>3, <1>4, <1>5
<1>8. ASSUME NEW p \in Paths, NEW old, Good(p, old)
      PROVE  OfItsFile(p, old, paths', segments', fold.paths, fold.segments, claimed)
  <2>1. p \in Nat /\ claimed <= claimed
    BY <1>2
  <2> QED BY <1>2, <1>7, <1>8, <2>1, StaysOfItsFile DEF Good
<1>9. ASSUME NEW p \in Paths, rewritten(p)
      PROVE  OfItsFile(p, rollup(p), paths', segments', fold.paths, fold.segments, claimed)
  <2>1. PICK f \in DOMAIN segments : paths[f] = p
    BY <1>9
  <2>2. named(p) = f
    <3>1. \A k \in DOMAIN segments : paths[k] = p => k = f
      BY <1>2, <2>1 DEF FilesInv, NamesInv
    <3> QED BY <2>1, <3>1
  <2> HIDE DEF named
  <2>3. rollup(p) = IF Kept(segments[f]) = {} THEN NoRollup ELSE Rolled(Kept(segments[f]))
    BY <2>2
  <2>4. Kept(segments[f]) \in SUBSET Version /\ OnePerKey(Kept(segments[f]))
    BY <1>4, LayerIs DEF LayersInv, OnePerKey
  <2>5. \A k \in DOMAIN paths' : paths'[k] = p => segments'[k] \subseteq Kept(segments[f])
    BY <1>2, <1>3, <1>5, <2>1 DEF FilesInv, NamesInv
  <2>6. \A j \in DOMAIN fold.paths :
            fold.paths[j] = p => Comparable(Kept(segments[f]), fold.segments[j])
    BY <1>2, <1>4, <2>1 DEF FilesInv, PinnedInv, Comparable
  <2>7. p <= claimed
    BY <1>2, <2>1
  <2>8. OfItsFile(p, Rolled(Kept(segments[f])), paths', segments', fold.paths, fold.segments,
                claimed)
    BY <2>4, <2>5, <2>6, <2>7, RolledIsOfItsFile
  <2> QED BY <2>3, <2>8, NothingIsOfItsFile
<1> HIDE DEF rewritten, named, rollup
<1>10. RollupsAreOfTheirFiles'
  <2>1. DOMAIN sidecars' = Paths /\ DOMAIN cache' = Paths
    BY <1>1
  <2>2. ASSUME NEW p \in Paths PROVE Good(p, sidecars[p])' /\ Good(p, cache[p])'
    <3>1. Good(p, sidecars[p]) /\ Good(p, cache[p])
      BY DEF FilesInv, RollupsAreOfTheirFiles
    <3>2. (sidecars'[p] = rollup(p) /\ rewritten(p)) \/ sidecars'[p] = sidecars[p]
      BY <1>1
    <3>3. (cache'[p] = rollup(p) /\ rewritten(p)) \/ cache'[p] = cache[p]
      BY <1>1
    <3> QED BY <1>1, <1>8, <1>9, <3>1, <3>2, <3>3 DEF Good
  <2> QED BY <2>1, <2>2 DEF RollupsAreOfTheirFiles
<1>11. PinnedInv'
  <2>1. ASSUME NEW i \in DOMAIN paths', NEW j \in DOMAIN fold.paths, paths'[i] = fold.paths[j]
        PROVE  segments'[i] \subseteq fold.segments[j]
    <3>1. PICK k \in DOMAIN paths : paths[k] = paths'[i] /\ segments'[i] \subseteq segments[k]
      BY <1>2, <1>7, <2>1
    <3> QED BY <2>1, <3>1 DEF FilesInv, PinnedInv
  <2> QED BY <1>1, <2>1 DEF FilesInv, PinnedInv
<1> QED BY <1>6, <1>10, <1>11 DEF FilesInv

----------------------------------------------------------------------------
(* What the steps of the store do to a fold.                                *)

\* An answer from the start leaves out only what is covered or does not match.
LEMMA AnswerIs ==
    ASSUME NEW view, NEW f, NEW v \in Newest(Held(view)), v \in Version
    PROVE  v \in Answer(view, f, Start) <=> ~Covers(view.mask, v) /\ Matches(v, f)
<1>1. v.at \in Nat \ {0}
  BY VersionIs
<1>2. After(v, Start)
  BY <1>1 DEF After, Before, Start
<1> QED BY <1>2 DEF Answer, Selects

\* What the layers hold are versions, and within a layer one to a key.
LEMMA LayersAreVersions ==
    ASSUME NEW list, Layered(list), NEW v \in UNION ToSet(list)
    PROVE  v \in Version
BY InLayers, LayerIs

\* What the steps of the store add to the answers of the time.
StoreAnswers ==
    current' = current \cup Answer(Live(mask)', fold.window, Start)
                       \cup (IF subject' = NoSession /\ subject # NoSession
                             THEN Answer([Live(mask)' EXCEPT !.buffer = {}], fold.window, Start)
                             ELSE {})

\* A fold is right whatever the store does beside it.
LEMMA StoreKeepsFold ==
    ASSUME LayersInv', FoldInv, StoreEffect, fold' = fold, fold.at # "idle" => StoreAnswers
    PROVE  FoldInv'
<1> SUFFICES ASSUME fold.at # "idle" PROVE (WindowInv /\ CountedInv /\ AtBuffer /\ AtPin /\ AtWalk)'
  BY DEF FoldInv
<1>1. WindowInv /\ CountedInv /\ AtBuffer /\ AtPin /\ AtWalk /\ StoreAnswers
  BY DEF FoldInv
<1>2. current \subseteq current' /\ still' \subseteq still
  BY <1>1 DEF StoreAnswers, StoreEffect
<1>3. \A v \in HeldNow' : v \in Version
  BY LayersAreVersions DEF LayersInv, HeldNow, InSegments
<1>4. Held(Live(mask)') = HeldNow' /\ Live(mask)'.mask = mask'
  BY DEF Held, Live, HeldNow, InSegments
<1>5. ASSUME NEW v \in Newest(HeldNow'), Eligible(v) PROVE v \in current'
  <2>1. CASE v \in Newest(HeldNow)
    BY <1>1, <1>2, <1>5, <2>1 DEF WindowInv
  <2>2. CASE ~Covers(mask', v)
    <3>1. v \in Version
      BY <1>3, <1>5 DEF Newest
    <3>2. v \in Answer(Live(mask)', fold.window, Start)
      BY <1>4, <1>5, <2>2, <3>1, AnswerIs DEF Eligible
    <3> QED BY <1>1, <3>2 DEF StoreAnswers
  <2> QED BY <1>5, <2>1, <2>2 DEF StoreEffect
<1>6. ASSUME NEW v \in still'
      PROVE  v \in Newest(HeldNow') /\ Eligible(v) /\ ~Covers(mask', v) /\ v \in Newest(HeldNow)
             /\ ~Covers(mask, v)
  BY <1>1, <1>2 DEF WindowInv, StoreEffect
<1>7. WindowInv'
  BY <1>5, <1>6 DEF WindowInv, Eligible
<1>8. CountedInv'
  BY <1>1, <1>2 DEF CountedInv, Eligible, Total
<1>9. AtBuffer'
  BY <1>1 DEF AtBuffer
<1>10. AtPin'
  <2> SUFFICES ASSUME fold.at = "pin"
               PROVE  /\ fold.hashes = {}
                      /\ \A v \in Newest(InSegments') : Unbuffered(v) => v \in current'
                      /\ \A v \in still' : v \in fold.buffer \/ (v \in Newest(InSegments') /\
                                    Unbuffered(v))
    BY DEF AtPin, Unbuffered, Eligible
  <2>1. fold.hashes = {}
    BY <1>1 DEF AtPin
  <2>2. ASSUME NEW v \in Newest(InSegments'), Unbuffered(v) PROVE v \in current'
    <3>1. CASE v \in Newest(InSegments)
      BY <1>1, <1>2, <2>2, <3>1 DEF AtPin
    <3>2. CASE v \in Newest(HeldNow)
      BY <1>1, <1>2, <2>2, <3>2 DEF WindowInv, Unbuffered
    <3>3. CASE subject # NoSession /\ subject' = NoSession /\ mask' = NoMask
      <4> DEFINE view == [Live(mask)' EXCEPT !.buffer = {}]
      <4>1. view = [buffer |-> {}, segments |-> segments', mask |-> mask']
        BY DEF Live
      <4>2. Held(view) = InSegments' /\ view.mask = mask'
        BY <4>1 DEF Held, InSegments
      <4>3. v \in Version
        BY <1>3, <2>2 DEF Newest, HeldNow
      <4>4. ~Covers(mask', v)
        BY <3>3 DEF Covers, NoMask
      <4> HIDE DEF view
      <4>5. v \in Answer(view, fold.window, Start)
        BY <2>2, <4>2, <4>3, <4>4, AnswerIs DEF Unbuffered, Eligible
      <4> QED BY <1>1, <3>3, <4>5 DEF StoreAnswers, view
    <3> QED BY <2>2, <3>1, <3>2, <3>3 DEF StoreEffect
  <2>3. ASSUME NEW v \in still'
       PROVE v \in fold.buffer \/ (v \in Newest(InSegments') /\ Unbuffered(v))
    <3>1. v \in fold.buffer \/ (v \in Newest(InSegments) /\ Unbuffered(v))
      BY <1>1, <1>2 DEF AtPin
    <3> QED BY <1>6, <3>1 DEF StoreEffect
  <2> QED BY <2>1, <2>2, <2>3
<1>11. AtWalk'
  BY <1>1, <1>2 DEF AtWalk, Unbuffered, Eligible, InPinned, Total, HashesFrom
<1> QED BY <1>7, <1>8, <1>9, <1>10, <1>11

\* Every step of the store keeps the invariant.
LEMMA StoreKeeps ==
    ASSUME RollupsInv, StoreStep
    PROVE  RollupsInv'
<1>1. LayersInv /\ FilesInv /\ FoldShape /\ FoldInv
  BY DEF RollupsInv, FilesInv
<1>2. fold' = fold /\ (fold.at # "idle" => StoreAnswers)
  BY DEF StoreStep, StoreAnswers
<1>3. LayersInv' /\ StoreEffect /\ FilesInv'
  <2>1. CASE \E key \in Keys, at \in Times, session \in Sessions :
                 Ingest(key, at, session) /\ UNCHANGED rollups
    <3>1. PICK key \in Keys, at \in Times, session \in Sessions :
              Ingest(key, at, session) /\ UNCHANGED rollups
      BY <2>1
    <3>2. UNCHANGED <<rollups, fold>>
      BY <1>2, <3>1
    <3> QED BY <1>1, <3>1, <3>2, IngestLayers, IngestFiles
  <2>2. CASE SealWithRollup
    <3>1. Seal
      BY <2>2 DEF SealWithRollup
    <3> QED BY <1>1, <1>2, <2>2, <3>1, SealLayers, SealFiles
  <2>3. CASE \E first \in DOMAIN segments : MergeWithRollup(first)
    <3>1. PICK first \in DOMAIN segments : MergeWithRollup(first)
      BY <2>3
    <3>2. Merge(first)
      BY <3>1 DEF MergeWithRollup
    <3>3. LayersInv' /\ StoreEffect
      BY <1>1, <3>2, MergeLayers, Zenon
    <3>4. FilesInv'
      BY <1>1, <1>2, <3>1, MergeFiles, Zenon
    <3> QED BY <3>3, <3>4
  <2>4. CASE \E session \in Sessions : BeginErasure(session) /\ UNCHANGED rollups
    <3>1. PICK session \in Sessions : BeginErasure(session) /\ UNCHANGED rollups
      BY <2>4
    <3>2. UNCHANGED <<rollups, fold>>
      BY <1>2, <3>1
    <3> QED BY <1>1, <3>1, <3>2, BeginLayers, BeginFiles
  <2>5. CASE \E left \in Survivors : PurgeWithRollups(left)
    <3>1. PICK left \in Survivors : PurgeWithRollups(left)
      BY <2>5
    <3>2. CompleteErasure(left)
      BY <3>1 DEF PurgeWithRollups
    <3>3. LayersInv' /\ StoreEffect
      BY <1>1, <3>2, PurgeLayers, Zenon
    <3>4. FilesInv'
      BY <1>1, <1>2, <3>1, PurgeFiles, Zenon
    <3> QED BY <3>3, <3>4
  <2> QED BY <2>1, <2>2, <2>3, <2>4, <2>5 DEF StoreStep
<1>4. FoldInv'
  BY <1>1, <1>2, <1>3, StoreKeepsFold
<1>5. FoldShape'
  BY <1>1, <1>2 DEF FoldShape
<1> QED BY <1>3, <1>4, <1>5 DEF RollupsInv, FilesInv

----------------------------------------------------------------------------
(* The steps of a fold.                                                     *)

\* A fold begins with nothing counted, and what the window holds as what stands.
LEMMA BeginFoldKeeps ==
    ASSUME RollupsInv, NEW window \in Folded, BeginFold(window)
    PROVE  RollupsInv'
<1>1. /\ fold.at = "idle"
      /\ fold' = [NoFold EXCEPT !.at = "buffer", !.window = window, !.mask = mask]
      /\ still' = Answer(Live(mask), window, Start) /\ current' = still'
      /\ buffer' = buffer /\ segments' = segments /\ mask' = mask /\ subject' = subject
      /\ ingests' = ingests /\ paths' = paths /\ claimed' = claimed /\ sidecars' = sidecars
      /\ cache' = cache
  BY DEF BeginFold, store, rollups
<1>2. /\ DOMAIN fold' = FoldFields
      /\ fold'.at = "buffer" /\ fold'.window = window /\ fold'.mask = mask
      /\ fold'.buffer = {} /\ fold'.segments = <<>> /\ fold'.paths = <<>> /\ fold'.left = 0
      /\ fold'.hashes = {} /\ fold'.counted = <<>>
  BY <1>1 DEF NoFold, FoldFields
<1>3. LayersInv' /\ NamesInv'
  BY <1>1 DEF RollupsInv, LayersInv, NamesInv, HeldNow, InSegments
<1>4. FoldShape'
  BY <1>2, FoldedAssumption DEF FoldShape
<1>5. PinnedInv'
  BY <1>2 DEF PinnedInv, Layered
<1>6. RollupsAreOfTheirFiles'
  <2>1. ASSUME NEW p, NEW rollup, Good(p, rollup)
        PROVE  OfItsFile(p, rollup, paths, segments, fold'.paths, fold'.segments, claimed)
    BY <1>2, <2>1 DEF Good, OfItsFile
  <2> QED BY <1>1, <2>1 DEF RollupsInv, RollupsAreOfTheirFiles, Good
<1>7. WindowInv'
  <2>1. Held(Live(mask)) = HeldNow /\ Live(mask).mask = mask /\ HeldNow' = HeldNow
    BY <1>1 DEF Held, Live, HeldNow, InSegments
  <2>2. \A v \in Newest(HeldNow) : v \in Version
    BY HeldIs DEF RollupsInv, Newest
  <2>3. \A v \in Newest(HeldNow) : v \in still' <=> ~Covers(mask, v) /\ Matches(v, window)
    BY <1>1, <2>1, <2>2, AnswerIs
  <2>4. still' \subseteq Newest(HeldNow)
    BY <1>1, <2>1 DEF Answer
  <2> QED BY <1>1, <1>2, <2>1, <2>3, <2>4 DEF WindowInv, Eligible
<1>8. CountedInv'
  BY <1>2 DEF CountedInv, OnePerKey
<1>9. (AtBuffer /\ AtPin /\ AtWalk)'
  BY <1>2 DEF AtBuffer, AtPin, AtWalk, Walking
<1> QED BY <1>3, <1>4, <1>5, <1>6, <1>7, <1>8, <1>9 DEF RollupsInv, FoldInv

\* What stays when only the fold moves on, with the same window and pins.
LEMMA MovesOn ==
    ASSUME RollupsInv, fold.at # "idle", UNCHANGED <<readingVars, paths, claimed, current>>,
           DOMAIN fold' = FoldFields, fold'.window = fold.window, fold'.mask = fold.mask
    PROVE  /\ LayersInv' /\ NamesInv' /\ WindowInv'
           /\ fold'.at \in {"idle", "buffer", "pin"} \cup Walking => FoldShape'
           /\ still' = still /\ current' = current
           /\ HeldNow' = HeldNow /\ InSegments' = InSegments
           /\ \A v : Eligible(v)' <=> Eligible(v)
<1>1. /\ buffer' = buffer /\ segments' = segments /\ mask' = mask /\ subject' = subject
      /\ ingests' = ingests /\ still' = still /\ current' = current
      /\ paths' = paths /\ claimed' = claimed
  BY DEF readingVars, store, ghosts
<1>2. HeldNow' = HeldNow /\ InSegments' = InSegments
  BY <1>1 DEF HeldNow, InSegments
<1>3. LayersInv' /\ NamesInv'
  BY <1>1, <1>2 DEF RollupsInv, LayersInv, NamesInv
<1>4. \A v : Eligible(v)' <=> Eligible(v)
  BY DEF Eligible
<1>5. WindowInv'
  BY <1>1, <1>2, <1>4 DEF RollupsInv, FoldInv, WindowInv
<1>6. fold'.at \in {"idle", "buffer", "pin"} \cup Walking => FoldShape'
  BY DEF RollupsInv, FoldShape
<1> QED BY <1>1, <1>2, <1>3, <1>4, <1>5, <1>6

\* What a sequence holds with one part more, if it is one.
WithPart(list, part) == IF part = {} THEN list ELSE Append(list, part)

\* Appending a part to a list adds exactly its elements.
LEMMA Appended ==
    ASSUME NEW list \in Seq(SUBSET Version), NEW part \in SUBSET Version
    PROVE  /\ WithPart(list, part) \in Seq(SUBSET Version)
           /\ UNION ToSet(WithPart(list, part)) = (UNION ToSet(list)) \cup part
           /\ \A i \in DOMAIN WithPart(list, part) :
                  \/ i \in DOMAIN list /\ WithPart(list, part)[i] = list[i]
                  \/ WithPart(list, part)[i] = part /\ i = Len(list) + 1
<1> DEFINE longer == WithPart(list, part)
<1>1. CASE part = {}
  BY <1>1 DEF WithPart
<1>2. CASE part # {}
  <2>1. /\ longer \in Seq(SUBSET Version) /\ DOMAIN longer = 1 .. Len(list) + 1
        /\ DOMAIN list = 1 .. Len(list) /\ Len(list) \in Nat
        /\ longer[Len(list) + 1] = part /\ \A i \in 1 .. Len(list) : longer[i] = list[i]
    BY <1>2 DEF WithPart
  <2> HIDE DEF longer
  <2>2. \A i \in 1 .. Len(list) + 1 : i \in 1 .. Len(list) \/ i = Len(list) + 1
    BY <2>1
  <2>3. /\ Len(list) + 1 \in 1 .. Len(list) + 1
        /\ \A i \in 1 .. Len(list) : i \in 1 .. Len(list) + 1
    BY <2>1
  <2>4. ASSUME NEW v PROVE v \in UNION ToSet(longer) <=> v \in UNION ToSet(list) \/ v \in part
    <3>1. v \in UNION ToSet(longer) <=> \E i \in DOMAIN longer : v \in longer[i]
      BY InLayers
    <3>2. v \in UNION ToSet(list) <=> \E i \in DOMAIN list : v \in list[i]
      BY InLayers
    <3> QED BY <2>1, <2>2, <2>3, <3>1, <3>2
  <2>5. UNION ToSet(longer) = (UNION ToSet(list)) \cup part
    BY <2>4
  <2> QED BY <2>1, <2>2, <2>5 DEF longer
<1> QED BY <1>1, <1>2

\* The buffer is counted first: what is newest in it is the newest there is.
LEMMA FoldBufferKeeps ==
    ASSUME RollupsInv, FoldBuffer
    PROVE  RollupsInv'
<1> DEFINE buffered == {v \in buffer : Matches(v, fold.window) /\ ~Covers(fold.mask, v)}
<1>1. /\ fold.at = "buffer" /\ UNCHANGED <<readingVars, rollups, current>>
      /\ fold' = [fold EXCEPT !.at = "pin", !.buffer = buffer,
                              !.counted = IF buffered = {} THEN @ ELSE Append(@, buffered)]
  BY DEF FoldBuffer
<1>2. WindowInv /\ CountedInv /\ AtBuffer /\ LayersInv
  BY <1>1 DEF RollupsInv, FoldInv
<1>3. fold.counted = <<>> /\ fold.hashes = {}
  BY <1>1, <1>2 DEF AtBuffer
<1>4. /\ DOMAIN fold' = FoldFields
      /\ fold'.at = "pin" /\ fold'.window = fold.window /\ fold'.mask = fold.mask
      /\ fold'.buffer = buffer /\ fold'.segments = fold.segments /\ fold'.paths = fold.paths
      /\ fold'.left = fold.left /\ fold'.hashes = {}
      /\ fold'.counted = IF buffered = {} THEN <<>> ELSE Append(<<>>, buffered)
  BY <1>1, <1>3 DEF RollupsInv, FoldShape, FoldFields
<1>5. \A v : v \in buffered <=> v \in buffer /\ Eligible(v)
  BY DEF Eligible
<1> HIDE DEF buffered
<1>6. /\ LayersInv' /\ NamesInv' /\ WindowInv' /\ FoldShape' /\ still' = still /\ current' = current
      /\ HeldNow' = HeldNow /\ InSegments' = InSegments
      /\ \A v : Eligible(v)' <=> Eligible(v)
  <2>1. UNCHANGED <<readingVars, paths, claimed, current>> /\ fold.at # "idle"
    BY <1>1 DEF rollups
  <2> QED BY <1>4, <2>1, MovesOn
<1>7. buffered \in SUBSET Version /\ buffer \in SUBSET Version /\ OnePerKey(buffer)
  BY <1>2, <1>5 DEF LayersInv
<1>8. /\ fold'.counted \in Seq(SUBSET Version) /\ Total' = buffered
      /\ \A i \in DOMAIN fold'.counted : i = 1 /\ fold'.counted[i] = buffered
  <2> DEFINE none == <<>>
  <2>1. none \in Seq(SUBSET Version) /\ Len(none) = 0 /\ DOMAIN none = {} /\ UNION ToSet(none) = {}
    BY DEF ToSet
  <2>2. fold'.counted = WithPart(none, buffered)
    BY <1>4 DEF WithPart
  <2> HIDE DEF none
  <2>3. /\ WithPart(none, buffered) \in Seq(SUBSET Version)
        /\ UNION ToSet(WithPart(none, buffered)) = (UNION ToSet(none)) \cup buffered
        /\ \A i \in DOMAIN WithPart(none, buffered) :
               \/ i \in DOMAIN none /\ WithPart(none, buffered)[i] = none[i]
               \/ WithPart(none, buffered)[i] = buffered /\ i = Len(none) + 1
    BY <1>7, <2>1, Appended
  <2> QED BY <2>1, <2>2, <2>3 DEF Total
<1>9. \A v \in buffered : v \in current
  BY <1>2, <1>5, NewestHeld DEF WindowInv
<1>10. CountedInv'
  <2>1. OnePerKey(buffered) /\ KeysOf(buffered) \subseteq KeysOf(buffer)
    BY <1>5, <1>7 DEF OnePerKey, KeysOf
  <2>2. \A v \in fold'.buffer : Eligible(v)' => v \in Total'
    BY <1>4, <1>5, <1>6, <1>8
  <2> QED BY <1>4, <1>6, <1>7, <1>8, <1>9, <2>1, <2>2 DEF CountedInv
<1>11. AtPin'
  <2>1. \A v : Unbuffered(v)' <=> Eligible(v) /\ ~HoldsKey(buffer, v.key)
    BY <1>4, <1>6 DEF Unbuffered
  <2>2. \A v \in Newest(InSegments) : Unbuffered(v)' => v \in current
    BY <1>2, <2>1, NewestHeld DEF WindowInv
  <2>3. \A v \in still : v \in buffer \/ (v \in Newest(InSegments) /\ Unbuffered(v)')
    BY <1>2, <2>1, NewestHeld DEF WindowInv
  <2> QED BY <1>4, <1>6, <2>2, <2>3 DEF AtPin
<1>12. AtBuffer' /\ AtWalk'
  BY <1>4 DEF AtBuffer, AtWalk, Walking
<1>13. PinnedInv' /\ RollupsAreOfTheirFiles'
  <2>1. segments' = segments /\ paths' = paths /\ claimed' = claimed /\ sidecars' = sidecars
        /\ cache' = cache
    BY <1>1 DEF readingVars, store, rollups
  <2> QED BY <1>4, <2>1 DEF RollupsInv, PinnedInv, RollupsAreOfTheirFiles, Good
<1> QED BY <1>6, <1>10, <1>11, <1>12, <1>13 DEF RollupsInv, FoldInv

\* The pin takes the segments as they are.
LEMMA PinKeeps ==
    ASSUME RollupsInv, PinForFold
    PROVE  RollupsInv'
<1>1. /\ fold.at = "pin" /\ UNCHANGED <<readingVars, rollups, current>>
      /\ fold' = [fold EXCEPT !.at = IF segments = <<>> THEN "finish" ELSE "walk",
                              !.segments = segments, !.paths = paths, !.left = Len(segments)]
  BY DEF PinForFold
<1>2. WindowInv /\ CountedInv /\ AtPin /\ LayersInv /\ NamesInv
  BY <1>1 DEF RollupsInv, FoldInv
<1>3. /\ DOMAIN fold' = FoldFields
      /\ fold'.at = (IF segments = <<>> THEN "finish" ELSE "walk")
      /\ fold'.window = fold.window /\ fold'.mask = fold.mask
      /\ fold'.buffer = fold.buffer /\ fold'.segments = segments /\ fold'.paths = paths
      /\ fold'.left = Len(segments) /\ fold'.hashes = fold.hashes /\ fold'.counted = fold.counted
  BY <1>1 DEF RollupsInv, FoldShape, FoldFields
<1>4. fold'.at \in Walking /\ fold'.at \in {"idle", "buffer", "pin"} \cup Walking
  BY <1>3 DEF Walking
<1>5. /\ LayersInv' /\ NamesInv' /\ WindowInv' /\ FoldShape' /\ still' = still /\ current' = current
      /\ HeldNow' = HeldNow /\ InSegments' = InSegments
      /\ \A v : Eligible(v)' <=> Eligible(v)
  <2>1. UNCHANGED <<readingVars, paths, claimed, current>> /\ fold.at # "idle"
    BY <1>1 DEF rollups
  <2> QED BY <1>3, <1>4, <2>1, MovesOn
<1>6. /\ segments' = segments /\ paths' = paths /\ claimed' = claimed /\ sidecars' = sidecars
      /\ cache' = cache
  BY <1>1 DEF readingVars, store, rollups
<1>7. Len(segments) \in Nat /\ DOMAIN segments = 1 .. Len(segments) /\ DOMAIN paths =
              DOMAIN segments
      /\ claimed \in Nat
  BY <1>2, NamesAre
<1>8. CountedInv'
  BY <1>2, <1>3, <1>5 DEF CountedInv, Total
<1>9. AtWalk'
  <2>1. fold'.left \in 0 .. Len(fold'.segments) /\ (fold'.at = "walk" <=> fold'.left > 0)
    <3>1. segments = <<>> <=> Len(segments) = 0
      BY <1>2 DEF LayersInv, Layered
    <3> QED BY <1>3, <1>7, <3>1
  <2>2. fold'.hashes = HashesFrom(fold.left)'
    <3>1. Len(segments) + 1 .. Len(segments) = {}
      BY <1>7
    <3>2. fold.hashes = {}
      BY <1>1, <1>2 DEF AtPin
    <3> QED BY <1>3, <3>1, <3>2 DEF HashesFrom
  <2>3. InPinned' = InSegments /\ Total' = Total
    BY <1>3 DEF InPinned, InSegments, Total
  <2>4. \A v : Unbuffered(v)' <=> Unbuffered(v)
    BY <1>3, <1>5 DEF Unbuffered
  <2>5. \A v \in Newest(InSegments) : Unbuffered(v) => v \in current
    BY <1>1, <1>2 DEF AtPin
  <2>6. ASSUME NEW v \in still
        PROVE  \/ v \in Total
               \/ /\ v \in Newest(InSegments) /\ Unbuffered(v)
                  /\ \E i \in 1 .. Len(segments) : v \in segments[i]
    <3>1. CASE v \in fold.buffer
      BY <1>2, <3>1 DEF WindowInv, CountedInv
    <3>2. CASE v \in Newest(InSegments) /\ Unbuffered(v)
      <4>1. \E i \in DOMAIN segments : v \in segments[i]
        BY <3>2, InLayers DEF Newest, InSegments
      <4> QED BY <1>7, <3>2, <4>1
    <3> QED BY <1>1, <1>2, <3>1, <3>2 DEF AtPin
  <2> QED BY <1>3, <1>5, <2>1, <2>2, <2>3, <2>4, <2>5, <2>6 DEF AtWalk
<1>10. AtBuffer' /\ AtPin'
  BY <1>3 DEF AtBuffer, AtPin
<1>11. PinnedInv'
  BY <1>2, <1>3, <1>6, <1>7 DEF LayersInv, NamesInv, PinnedInv
<1>12. RollupsAreOfTheirFiles'
  <2>1. ASSUME NEW p, NEW rollup, Good(p, rollup)
        PROVE  OfItsFile(p, rollup, paths, segments, paths, segments, claimed)
    BY <2>1 DEF Good, OfItsFile, Comparable
  <2> QED BY <1>3, <1>6, <2>1 DEF RollupsInv, RollupsAreOfTheirFiles, Good
<1> QED BY <1>5, <1>8, <1>9, <1>10, <1>11, <1>12 DEF RollupsInv, FoldInv

\* A part of a finite set that is as large as the set is the set.
LEMMA SameSize ==
    ASSUME NEW S, IsFiniteSet(S), NEW T \in SUBSET S, Cardinality(T) = Cardinality(S)
    PROVE  T = S
BY FS_Subset

\* Of two sets of versions, one in the other, a rollup that is believed for the one
\* is that one's: it would count fewer or more.
LEMMA BelievedIsOf ==
    ASSUME NEW entry, NEW versions \in SUBSET Version, OnePerKey(versions),
           entry = Rolled(entry.held), entry.held \in SUBSET Version, OnePerKey(entry.held),
           Comparable(entry.held, versions), Believed(entry, versions)
    PROVE  entry.held = versions
<1> DEFINE held == entry.held
<1>1. Binding(held) = Binding(versions)
  <2>1. entry.binding = Binding(held)
    BY DEF Rolled
  <2> QED BY <2>1 DEF Believed
<1>2. Cardinality(held) = Cardinality(versions)
  BY <1>1 DEF Binding
<1>3. IsFiniteSet(held) /\ IsFiniteSet(versions)
  BY FiniteByKey
<1> HIDE DEF held
<1>4. CASE held \subseteq versions
  <2>1. held \in SUBSET versions
    BY <1>4
  <2> QED BY <1>2, <1>3, <2>1, SameSize DEF held
<1>5. CASE versions \subseteq held
  <2>1. versions \in SUBSET held
    BY <1>5
  <2> QED BY <1>2, <1>3, <2>1, SameSize DEF held
<1> QED BY <1>4, <1>5 DEF Comparable, held

\* The rollup that a fold obtains for a segment it pinned counts what it pinned,
\* and so does the sidecar that it looks the hashes up in.
LEMMA PinnedRollups ==
    ASSUME RollupsInv, NEW i \in DOMAIN fold.paths
    PROVE  LET path == fold.paths[i]  versions == fold.segments[i]
           IN  /\ Obtained(path, versions).held = versions
               /\ Good(path, Obtained(path, versions)) /\ Good(path, Rolled(versions))
               /\ Hashes(path, versions) = KeysOf(versions)
               /\ path \in Paths /\ versions \in SUBSET Version /\ OnePerKey(versions)
<1> DEFINE path == fold.paths[i]  versions == fold.segments[i]
<1>1. LayersInv /\ NamesInv /\ RollupsAreOfTheirFiles /\ PinnedInv
  BY DEF RollupsInv
<1>2. claimed \in Nat /\ Paths = 1 .. 2 * MaxIngests /\ claimed <= 2 * MaxIngests /\
              MaxIngests \in Nat
  BY <1>1, NamesAre
<1>3. DOMAIN fold.paths = DOMAIN fold.segments
  BY <1>1 DEF PinnedInv, Layered
<1>4. versions \in SUBSET Version /\ OnePerKey(versions)
  BY <1>1, <1>3, LayerIs DEF PinnedInv
<1>5. path \in 1 .. claimed
  <2>1. fold.paths \in Seq(1 .. claimed)
    BY <1>1 DEF PinnedInv
  <2> QED BY <2>1, ElementIs
<1>6. path \in Paths /\ path <= claimed
  BY <1>2, <1>5
<1>7. Good(path, cache[path]) /\ Good(path, sidecars[path])
  BY <1>1, <1>6 DEF RollupsAreOfTheirFiles
<1>8. \A k \in DOMAIN paths : paths[k] = path => segments[k] \subseteq versions
  BY <1>1 DEF PinnedInv
<1>9. \A j \in DOMAIN fold.paths : fold.paths[j] = path => Comparable(versions, fold.segments[j])
  BY <1>1 DEF PinnedInv, Comparable
<1> HIDE DEF path, versions
<1>10. Good(path, Rolled(versions))
  BY <1>4, <1>6, <1>8, <1>9, RolledIsOfItsFile DEF Good
<1>11. ASSUME NEW entry, Good(path, entry), Believed(entry, versions)
       PROVE  entry.held = versions
  <2>1. /\ entry = Rolled(entry.held)
        /\ entry.held \in SUBSET Version /\ OnePerKey(entry.held)
        /\ \A j \in DOMAIN fold.paths : fold.paths[j] = path =>
                      Comparable(entry.held, fold.segments[j])
    BY <1>11 DEF Good, OfItsFile, Believed
  <2>2. Comparable(entry.held, versions)
    BY <2>1 DEF path, versions
  <2> QED BY <1>4, <1>11, <2>1, <2>2, BelievedIsOf
<1>12. Rolled(versions).held = versions
  BY DEF Rolled
<1>13. Obtained(path, versions).held = versions /\ Good(path, Obtained(path, versions))
  BY <1>7, <1>10, <1>11, <1>12 DEF Obtained
<1>14. Hashes(path, versions) = KeysOf(versions)
  BY <1>7, <1>11 DEF Hashes
<1> QED BY <1>4, <1>6, <1>10, <1>13, <1>14 DEF path, versions

\* A key that is held is among the keys.
LEMMA KeysAre ==
    ASSUME NEW versions, NEW key
    PROVE  key \in KeysOf(versions) <=> HoldsKey(versions, key)
BY DEF KeysOf, HoldsKey

\* What is counted of a pinned segment, whichever way it is counted: what the
\* window holds of it and nothing newer is known to supersede.
FreshOf(versions) == {v \in versions : Unbuffered(v) /\ v.key \notin fold.hashes}

\* What the fold takes of a segment.
LEMMA SegmentCounts ==
    ASSUME RollupsInv, fold.at = "walk"
    PROVE  LET position == fold.left
               path == fold.paths[position]
               versions == fold.segments[position]
               rollup == Obtained(path, versions)
               inside == \A v \in rollup.held : Matches(v, fold.window)
               superseded == KeysOf(rollup.held) \cap (fold.hashes \cup KeysOf(fold.buffer)) # {}
               survivors == {v \in versions : /\ Matches(v, fold.window) /\ ~Covers(fold.mask, v)
                                              /\ ~HoldsKey(fold.buffer, v.key)
                                              /\ ~SupersededInFold(position, v.key)}
               counts == IF ~MayHold(rollup.held, fold.window) THEN {}
                         ELSE IF inside /\ ~superseded /\ fold.mask = NoMask THEN rollup.held
                         ELSE survivors
           IN  /\ counts = FreshOf(versions) /\ rollup.held = versions
               /\ position \in DOMAIN fold.paths /\ position \in DOMAIN fold.segments
               /\ position \in 1 .. Len(fold.segments) /\ Len(fold.segments) \in Nat
               /\ fold.hashes = HashesFrom(position)
<1> DEFINE position == fold.left
           path == fold.paths[position]
           versions == fold.segments[position]
           rollup == Obtained(path, versions)
           inside == \A v \in rollup.held : Matches(v, fold.window)
           superseded == KeysOf(rollup.held) \cap (fold.hashes \cup KeysOf(fold.buffer)) # {}
           survivors == {v \in versions : /\ Matches(v, fold.window) /\ ~Covers(fold.mask, v)
                                          /\ ~HoldsKey(fold.buffer, v.key)
                                          /\ ~SupersededInFold(position, v.key)}
           counts == IF ~MayHold(rollup.held, fold.window) THEN {}
                     ELSE IF inside /\ ~superseded /\ fold.mask = NoMask THEN rollup.held
                     ELSE survivors
<1>1. AtWalk /\ PinnedInv /\ FoldShape
  BY DEF RollupsInv, FoldInv
<1>2. position \in 0 .. Len(fold.segments) /\ position > 0 /\ fold.hashes = HashesFrom(position)
  BY <1>1 DEF AtWalk, Walking
<1>3. /\ Len(fold.segments) \in Nat /\ DOMAIN fold.segments = 1 .. Len(fold.segments)
      /\ DOMAIN fold.paths = 1 .. Len(fold.segments)
  BY <1>1 DEF PinnedInv, Layered
<1>4. position \in 1 .. Len(fold.segments) /\ position \in DOMAIN fold.paths
  BY <1>2, <1>3
<1>5. rollup.held = versions /\ versions \in SUBSET Version
  BY <1>4, PinnedRollups
<1> HIDE DEF rollup
<1>6. ASSUME NEW key PROVE SupersededInFold(position, key) <=> key \in fold.hashes
  <2>1. \A i \in position + 1 .. Len(fold.segments) :
            Hashes(fold.paths[i], fold.segments[i]) = KeysOf(fold.segments[i])
    <3>1. \A i \in position + 1 .. Len(fold.segments) : i \in DOMAIN fold.paths
      BY <1>3, <1>4
    <3> QED BY <3>1, PinnedRollups
  <2>2. key \in fold.hashes <=> \E i \in position + 1 .. Len(fold.segments) :
                key \in KeysOf(fold.segments[i])
    BY <1>2 DEF HashesFrom
  <2> QED BY <2>1, <2>2, KeysAre DEF SupersededInFold
<1>7. survivors = FreshOf(versions)
  BY <1>6 DEF FreshOf, Unbuffered, Eligible
<1>8. ASSUME ~MayHold(rollup.held, fold.window) PROVE FreshOf(versions) = {}
  <2> SUFFICES ASSUME NEW v \in versions, Matches(v, fold.window) PROVE FALSE
    BY DEF FreshOf, Unbuffered, Eligible
  <2>1. v.at \in fold.window.since .. fold.window.until
    BY DEF Matches
  <2>2. fold.window.since \in Nat /\ fold.window.until \in Nat
    <3>1. fold.window.since \in Times /\ fold.window.until \in Times
      BY <1>1 DEF FoldShape, Filter
    <3> QED BY <3>1, ReadingAssumption
  <2>3. v.at >= fold.window.since /\ v.at <= fold.window.until
    BY <2>1, <2>2
  <2> QED BY <1>5, <1>8, <2>3 DEF MayHold
<1>9. ASSUME inside, ~superseded, fold.mask = NoMask PROVE FreshOf(versions) = versions
  <2> SUFFICES ASSUME NEW v \in versions PROVE Unbuffered(v) /\ v.key \notin fold.hashes
    BY DEF FreshOf
  <2>1. Matches(v, fold.window) /\ ~Covers(fold.mask, v)
    BY <1>5, <1>9 DEF Covers, NoMask
  <2>2. v.key \in KeysOf(versions)
    BY DEF KeysOf
  <2>3. v.key \notin fold.hashes /\ v.key \notin KeysOf(fold.buffer)
    BY <1>5, <1>9, <2>2
  <2> QED BY <2>1, <2>3, KeysAre DEF Unbuffered, Eligible
<1>10. counts = FreshOf(versions)
  BY <1>5, <1>7, <1>8, <1>9
<1> QED BY <1>2, <1>3, <1>4, <1>5, <1>10 DEF rollup

\* One segment: what is fresh in it is counted, and its rollup may be kept.
LEMMA FoldSegmentKeeps ==
    ASSUME RollupsInv, FoldSegment
    PROVE  RollupsInv'
<1> DEFINE position == fold.left
           path == fold.paths[position]
           versions == fold.segments[position]
           rollup == Obtained(path, versions)
           inside == \A v \in rollup.held : Matches(v, fold.window)
           superseded == KeysOf(rollup.held) \cap (fold.hashes \cup KeysOf(fold.buffer)) # {}
           survivors == {v \in versions : /\ Matches(v, fold.window) /\ ~Covers(fold.mask, v)
                                          /\ ~HoldsKey(fold.buffer, v.key)
                                          /\ ~SupersededInFold(position, v.key)}
           counts == IF ~MayHold(rollup.held, fold.window) THEN {}
                     ELSE IF inside /\ ~superseded /\ fold.mask = NoMask THEN rollup.held
                     ELSE survivors
           fresh == FreshOf(versions)
<1>1. /\ fold.at = "walk" /\ UNCHANGED <<readingVars, paths, claimed, current>>
      /\ fold' = [fold EXCEPT !.at = IF position = 1 THEN "finish" ELSE "walk",
                              !.left = position - 1,
                              !.hashes = @ \cup KeysOf(rollup.held),
                              !.counted = IF counts = {} THEN @ ELSE Append(@, counts)]
      /\ cache' = [cache EXCEPT ![path] = rollup] /\ sidecars' \in Healed(path, versions)
  BY DEF FoldSegment
<1>2. /\ counts = fresh /\ rollup.held = versions
      /\ position \in DOMAIN fold.paths /\ position \in DOMAIN fold.segments
      /\ position \in 1 .. Len(fold.segments) /\ Len(fold.segments) \in Nat
      /\ fold.hashes = HashesFrom(position)
  BY <1>1, SegmentCounts
<1>3. /\ DOMAIN fold' = FoldFields
      /\ fold'.at = (IF position = 1 THEN "finish" ELSE "walk") /\ fold'.left = position - 1
      /\ fold'.window = fold.window /\ fold'.mask = fold.mask
      /\ fold'.buffer = fold.buffer /\ fold'.segments = fold.segments /\ fold'.paths = fold.paths
      /\ fold'.hashes = fold.hashes \cup KeysOf(versions)
      /\ fold'.counted = WithPart(fold.counted, fresh)
  <2> HIDE DEF counts, rollup, versions, fresh
  <2> QED BY <1>1, <1>2 DEF RollupsInv, FoldShape, FoldFields, WithPart, position
<1>4. /\ Good(path, rollup) /\ Good(path, Rolled(versions)) /\ path \in Paths
      /\ versions \in SUBSET Version /\ OnePerKey(versions)
  BY <1>2, PinnedRollups
<1> HIDE DEF path, versions, rollup, inside, superseded, survivors, counts, fresh
<1>5. CountedInv /\ AtWalk /\ PinnedInv /\ LayersInv /\ Layered(fold.segments)
  BY <1>1 DEF RollupsInv, FoldInv, PinnedInv
<1>6. \A v : v \in fresh <=> v \in versions /\ Unbuffered(v) /\ v.key \notin fold.hashes
  BY DEF fresh, FreshOf
<1>7. fresh \in SUBSET Version /\ OnePerKey(fresh)
  BY <1>4, <1>6 DEF OnePerKey
<1>8. /\ fold'.counted \in Seq(SUBSET Version)
      /\ Total' = Total \cup fresh
      /\ \A i \in DOMAIN fold'.counted :
             \/ i \in DOMAIN fold.counted /\ fold'.counted[i] = fold.counted[i]
             \/ fold'.counted[i] = fresh /\ i = Len(fold.counted) + 1
  BY SMTT(30), <1>3, <1>5, <1>7, Appended DEF CountedInv, Total
<1>9. /\ paths' = paths /\ claimed' = claimed /\ segments' = segments /\ mask' = mask
      /\ subject' = subject /\ buffer' = buffer /\ ingests' = ingests /\ still' = still
      /\ current' = current
  BY <1>1 DEF readingVars, store, ghosts
<1>10. LayersInv' /\ NamesInv' /\ WindowInv' /\ FoldShape'
  <2>1. fold'.at \in {"idle", "buffer", "pin"} \cup Walking
    BY <1>3 DEF Walking
  <2>2. fold.at # "idle"
    BY <1>1
  <2> QED BY <1>1, <1>3, <2>1, <2>2, MovesOn
<1>11. \A v \in fresh : v \in current /\ v \in Newest(InPinned)
  <2> SUFFICES ASSUME NEW v \in fresh PROVE v \in current /\ v \in Newest(InPinned)
    OBVIOUS
  <2>1. \A j \in DOMAIN fold.segments : position < j => ~HoldsKey(fold.segments[j], v.key)
    <3> SUFFICES ASSUME NEW j \in DOMAIN fold.segments, position < j,
                        HoldsKey(fold.segments[j], v.key)
                 PROVE  FALSE
      OBVIOUS
    <3>1. j \in position + 1 .. Len(fold.segments)
      BY <1>2, <1>5, LayerIs
    <3>2. v.key \in KeysOf(fold.segments[j])
      BY KeysAre
    <3> QED BY <1>2, <1>6, <3>1, <3>2 DEF HashesFrom
  <2>2. v \in fold.segments[position]
    BY <1>6 DEF versions
  <2>3. v \in Newest(InPinned)
    BY <1>2, <1>5, <2>1, <2>2, UppermostIsNewest DEF InPinned
  <2> QED BY <1>1, <1>5, <1>6, <2>3 DEF AtWalk, Walking
<1>12. CountedInv'
  <2>1. KeysOf(fresh) \subseteq KeysOf(versions)
    BY <1>6 DEF KeysOf
  <2>2. \A i \in DOMAIN fold.counted : KeysOf(fold.counted[i]) \cap KeysOf(fresh) = {}
    <3> SUFFICES ASSUME NEW i \in DOMAIN fold.counted, NEW key \in KeysOf(fold.counted[i]),
                        key \in KeysOf(fresh)
                 PROVE  FALSE
      OBVIOUS
    <3>1. key \in KeysOf(fold.buffer) \cup fold.hashes
      BY <1>5 DEF CountedInv
    <3>2. PICK v \in fresh : v.key = key
      BY DEF KeysOf
    <3>3. ~HoldsKey(fold.buffer, key) /\ key \notin fold.hashes
      BY <1>6, <3>2 DEF Unbuffered
    <3> QED BY <3>1, <3>3, KeysAre
  <2>3. \A i \in DOMAIN fold'.counted :
            /\ KeysOf(fold'.counted[i]) \subseteq KeysOf(fold.buffer) \cup fold.hashes \cup KeysOf(versions)

            /\ OnePerKey(fold'.counted[i]) /\ fold'.counted[i] \subseteq current
    BY <1>5, <1>7, <1>8, <1>11, <2>1 DEF CountedInv
  <2>4. \A i, j \in DOMAIN fold'.counted :
            i # j => KeysOf(fold'.counted[i]) \cap KeysOf(fold'.counted[j]) = {}
    BY <1>5, <1>8, <2>2 DEF CountedInv
  <2>5. \A v : Eligible(v)' <=> Eligible(v)
    BY <1>3 DEF Eligible
  <2>6. \A v \in fold.buffer : Eligible(v)' => v \in Total'
    BY <1>5, <1>8, <2>5 DEF CountedInv
  <2>7. KeysOf(fold'.buffer) = KeysOf(fold.buffer)
    BY <1>3
  <2> QED BY <1>3, <1>5, <1>8, <1>9, <2>3, <2>4, <2>6, <2>7 DEF CountedInv
<1>13. AtWalk'
  <2>1. fold'.left \in 0 .. Len(fold'.segments) /\ (fold'.at = "walk" <=> fold'.left > 0)
    BY <1>2, <1>3
  <2>2. fold'.hashes = HashesFrom(fold.left)'
    <3>1. \A i : i \in position .. Len(fold.segments)
                    <=> i \in position + 1 .. Len(fold.segments) \/ i = position
      BY <1>2
    <3>2. fold'.left + 1 = position
      BY <1>2, <1>3
    <3>3. HashesFrom(position) \cup KeysOf(fold.segments[position])
              = UNION {KeysOf(fold.segments[i]) : i \in position .. Len(fold.segments)}
      BY <3>1 DEF HashesFrom
    <3>4. HashesFrom(fold.left)' = UNION {KeysOf(fold.segments[i]) :
                  i \in position .. Len(fold.segments)}
      BY <1>3, <3>2 DEF HashesFrom
    <3> QED BY <1>2, <1>3, <3>3, <3>4 DEF versions
  <2>3. InPinned' = InPinned /\ \A v : Unbuffered(v)' <=> Unbuffered(v)
    BY <1>3 DEF InPinned, Unbuffered, Eligible
  <2>4. ASSUME NEW v \in still
        PROVE  \/ v \in Total'
               \/ /\ v \in Newest(InPinned) /\ Unbuffered(v)
                  /\ \E i \in 1 .. position - 1 : v \in fold.segments[i]
    <3>1. CASE v \in Total
      BY <1>8, <3>1
    <3>2. CASE /\ v \in Newest(InPinned) /\ Unbuffered(v)
               /\ \E i \in 1 .. position : v \in fold.segments[i]
      <4>1. PICK i \in 1 .. position : v \in fold.segments[i]
        BY <3>2
      <4>2. CASE i = position
        <5>1. \A j \in position + 1 .. Len(fold.segments) : ~HoldsKey(fold.segments[j], v.key)
          <6> SUFFICES ASSUME NEW j \in position + 1 .. Len(fold.segments)
                       PROVE  ~HoldsKey(fold.segments[j], v.key)
            OBVIOUS
          <6>1. j \in DOMAIN fold.segments /\ position < j
            BY <1>2, <1>5, LayerIs
          <6> QED BY <1>2, <1>5, <3>2, <4>1, <4>2, <6>1, NewestIsUppermost DEF InPinned
        <5>2. v.key \notin fold.hashes
          BY <1>2, <5>1, KeysAre DEF HashesFrom
        <5>3. v \in fresh
          BY <1>6, <3>2, <4>1, <4>2, <5>2 DEF versions
        <5> QED BY <1>8, <5>3
      <4>3. CASE i # position
        <5>1. i \in 1 .. position - 1
          BY <1>2, <4>3
        <5> QED BY <3>2, <4>1, <5>1
      <4> QED BY <4>2, <4>3
    <3> QED BY <1>1, <1>5, <3>1, <3>2 DEF AtWalk, Walking
  <2>5. \A v \in Newest(InPinned) : Unbuffered(v) => v \in current
    BY <1>1, <1>5 DEF AtWalk, Walking
  <2> HIDE DEF position
  <2> QED BY <1>3, <1>9, <2>1, <2>2, <2>3, <2>4, <2>5 DEF AtWalk
<1>14. AtBuffer' /\ AtPin'
  BY <1>3 DEF AtBuffer, AtPin
<1>15. PinnedInv'
  BY <1>3, <1>5, <1>9 DEF PinnedInv
<1>16. RollupsAreOfTheirFiles'
  <2>1. ASSUME NEW p, NEW entry PROVE Good(p, entry) <=>
            OfItsFile(p, entry, paths', segments', fold'.paths, fold'.segments, claimed')
    BY <1>3, <1>9 DEF Good
  <2>2. RollupsAreOfTheirFiles
    BY DEF RollupsInv
  <2>3. sidecars' = sidecars \/ sidecars' = [sidecars EXCEPT ![path] = Rolled(versions)]
    BY <1>1 DEF Healed
  <2>4. DOMAIN sidecars' = Paths /\ DOMAIN cache' = Paths
    BY <1>1, <2>2, <2>3 DEF RollupsAreOfTheirFiles
  <2>5. ASSUME NEW p \in Paths PROVE Good(p, sidecars[p])' /\ Good(p, cache[p])'
    <3>1. cache'[p] = IF p = path THEN rollup ELSE cache[p]
      BY <1>1, <2>2 DEF RollupsAreOfTheirFiles
    <3>2. sidecars'[p] = sidecars[p] \/ (p = path /\ sidecars'[p] = Rolled(versions))
      <4>1. DOMAIN sidecars = Paths
        BY <2>2 DEF RollupsAreOfTheirFiles
      <4>2. CASE sidecars' = [sidecars EXCEPT ![path] = Rolled(versions)]
        BY <4>1, <4>2
      <4> QED BY <2>3, <4>2
    <3>3. Good(p, sidecars'[p]) /\ Good(p, cache'[p])
      BY <1>4, <2>2, <3>1, <3>2 DEF RollupsAreOfTheirFiles
    <3> QED BY <2>1, <3>3 DEF Good
  <2> QED BY <2>4, <2>5 DEF RollupsAreOfTheirFiles
<1> QED BY <1>10, <1>12, <1>13, <1>14, <1>15, <1>16 DEF RollupsInv, FoldInv

\* What a fold leaves in the cache at its end was there.
LEMMA FinishKeeps ==
    ASSUME RollupsInv, FinishFold
    PROVE  RollupsInv'
<1>1. /\ fold.at = "finish" /\ UNCHANGED <<readingVars, paths, claimed, sidecars, current>>
      /\ fold' = [fold EXCEPT !.at = "done"]
      /\ cache' = [p \in Paths |-> IF p \in ToSet(paths) THEN cache[p] ELSE NoRollup]
  BY DEF FinishFold
<1>2. /\ DOMAIN fold' = FoldFields
      /\ fold'.at = "done" /\ fold'.window = fold.window /\ fold'.mask = fold.mask
      /\ fold'.buffer = fold.buffer /\ fold'.segments = fold.segments /\ fold'.paths = fold.paths
      /\ fold'.left = fold.left /\ fold'.hashes = fold.hashes /\ fold'.counted = fold.counted
  BY <1>1 DEF RollupsInv, FoldShape, FoldFields
<1>3. /\ paths' = paths /\ claimed' = claimed /\ segments' = segments /\ mask' = mask
      /\ subject' = subject /\ buffer' = buffer /\ ingests' = ingests /\ still' = still
      /\ current' = current /\ sidecars' = sidecars
  BY <1>1 DEF readingVars, store, ghosts
<1>4. WindowInv /\ CountedInv /\ AtWalk
  BY <1>1 DEF RollupsInv, FoldInv
<1>5. LayersInv' /\ NamesInv' /\ WindowInv' /\ FoldShape' /\ PinnedInv'
  <2>1. fold'.at \in {"idle", "buffer", "pin"} \cup Walking /\ fold.at # "idle"
    BY <1>1, <1>2 DEF Walking
  <2>2. LayersInv' /\ NamesInv' /\ WindowInv' /\ FoldShape'
    BY <1>1, <1>2, <2>1, MovesOn
  <2>3. PinnedInv'
    BY <1>2, <1>3 DEF RollupsInv, PinnedInv
  <2> QED BY <2>2, <2>3
<1>6. CountedInv' /\ AtBuffer' /\ AtPin'
  BY <1>2, <1>3, <1>4 DEF CountedInv, Total, Eligible, AtBuffer, AtPin
<1>7. AtWalk'
  <2>1. \A v : Unbuffered(v)' <=> Unbuffered(v)
    BY <1>2 DEF Unbuffered, Eligible
  <2>2. InPinned' = InPinned /\ Total' = Total /\ HashesFrom(fold.left)' = HashesFrom(fold.left)
    BY <1>2 DEF InPinned, Total, HashesFrom
  <2>3. fold.at \in Walking /\ fold'.at \in Walking /\ fold.at # "walk" /\ fold'.at # "walk"
    BY <1>1, <1>2 DEF Walking
  <2> QED BY <1>2, <1>3, <1>4, <2>1, <2>2, <2>3 DEF AtWalk
<1>8. RollupsAreOfTheirFiles'
  <2>1. ASSUME NEW p, NEW entry, Good(p, entry)
        PROVE  OfItsFile(p, entry, paths', segments', fold'.paths, fold'.segments, claimed')
    BY <1>2, <1>3, <2>1 DEF Good
  <2>2. \A p \in Paths : cache'[p] = cache[p] \/ cache'[p] = NoRollup
    BY <1>1
  <2> QED BY <1>1, <1>3, <2>1, <2>2, NothingIsOfItsFile DEF RollupsInv, RollupsAreOfTheirFiles, Good
<1> QED BY <1>5, <1>6, <1>7, <1>8 DEF RollupsInv, FoldInv

\* A restart has no fold to disturb, and loses rollups only.
LEMMA RestartKeeps ==
    ASSUME RollupsInv, Restart
    PROVE  RollupsInv'
<1>1. /\ fold.at = "idle" /\ UNCHANGED <<readingVars, paths, claimed, fold, current>>
      /\ DOMAIN cache' = Paths /\ DOMAIN sidecars' = Paths
      /\ \A p \in Paths : cache'[p] = NoRollup
      /\ \A p \in Paths : sidecars'[p] = NoRollup \/ sidecars'[p] = sidecars[p]
  <2>1. PICK lost \in SUBSET ToSet(paths) :
            sidecars' = [p \in Paths |-> IF p \in lost \/ p \notin ToSet(paths)
                                         THEN NoRollup ELSE sidecars[p]]
    BY DEF Restart
  <2> QED BY <2>1 DEF Restart
<1>2. /\ paths' = paths /\ claimed' = claimed /\ segments' = segments /\ mask' = mask
      /\ subject' = subject /\ buffer' = buffer /\ ingests' = ingests /\ fold' = fold
  BY <1>1 DEF readingVars, store
<1>3. LayersInv' /\ NamesInv' /\ FoldShape' /\ PinnedInv' /\ FoldInv'
  BY <1>1, <1>2 DEF RollupsInv, LayersInv, NamesInv, FoldShape, PinnedInv, FoldInv, HeldNow,
     InSegments
<1>4. RollupsAreOfTheirFiles'
  <2>1. ASSUME NEW p, NEW entry, Good(p, entry)
        PROVE  OfItsFile(p, entry, paths', segments', fold'.paths, fold'.segments, claimed')
    BY <1>2, <2>1 DEF Good
  <2> QED BY <1>1, <2>1, NothingIsOfItsFile DEF RollupsInv, RollupsAreOfTheirFiles, Good
<1> QED BY <1>3, <1>4 DEF RollupsInv

\* An empty store without rollups and without a fold satisfies the invariant.
LEMMA RollupsInitInv ==
    ASSUME RollupsInit
    PROVE  RollupsInv
<1>1. /\ buffer = {} /\ segments = <<>> /\ mask = NoMask /\ subject = NoSession /\ ingests = 0
      /\ paths = <<>> /\ claimed = 0 /\ fold = NoFold
      /\ DOMAIN sidecars = Paths /\ DOMAIN cache = Paths
      /\ \A p \in Paths : sidecars[p] = NoRollup /\ cache[p] = NoRollup
  BY DEF RollupsInit, ReadingInit
<1>2. /\ DOMAIN fold = FoldFields /\ fold.at = "idle" /\ fold.window = Everything
      /\ fold.segments = <<>> /\ fold.paths = <<>>
  BY <1>1 DEF NoFold, FoldFields
<1>3. HeldNow = {}
  BY <1>1 DEF HeldNow, InSegments, ToSet
<1>4. MaxIngests \in Nat
  BY ReadingAssumption
<1>5. LayersInv
  BY <1>1, <1>3, <1>4 DEF LayersInv, Layered, OnePerKey
<1>6. NamesInv
  BY <1>1 DEF NamesInv
<1>7. RollupsAreOfTheirFiles
  BY <1>1, NothingIsOfItsFile DEF RollupsAreOfTheirFiles, Good
<1>8. PinnedInv
  BY <1>2 DEF PinnedInv, Layered
<1>9. FoldShape /\ FoldInv
  BY <1>2 DEF FoldShape, FoldInv
<1> QED BY <1>5, <1>6, <1>7, <1>8, <1>9 DEF RollupsInv

\* The invariant speaks of allVars only.
LEMMA RollupsStutter ==
    ASSUME RollupsInv, UNCHANGED allVars
    PROVE  RollupsInv'
<1>1. /\ paths' = paths /\ claimed' = claimed /\ segments' = segments /\ mask' = mask
      /\ subject' = subject /\ buffer' = buffer /\ ingests' = ingests /\ still' = still
      /\ current' = current /\ sidecars' = sidecars /\ cache' = cache /\ fold' = fold
  BY DEF allVars, readingVars, store, ghosts, rollups
<1>2. HeldNow' = HeldNow /\ InSegments' = InSegments /\ InPinned' = InPinned /\ Total' = Total
  BY <1>1 DEF HeldNow, InSegments, InPinned, Total
<1>3. (LayersInv /\ NamesInv /\ PinnedInv /\ FoldShape)'
  BY <1>1, <1>2 DEF RollupsInv, LayersInv, NamesInv, PinnedInv, FoldShape
<1>4. RollupsAreOfTheirFiles'
  BY <1>1 DEF RollupsInv, RollupsAreOfTheirFiles, Good
<1>5. FoldInv'
  <2> SUFFICES ASSUME fold.at # "idle"
               PROVE  (WindowInv /\ CountedInv /\ AtBuffer /\ AtPin /\ AtWalk)'
    BY <1>1 DEF FoldInv
  <2>1. WindowInv /\ CountedInv /\ AtBuffer /\ AtPin /\ AtWalk
    BY DEF RollupsInv, FoldInv
  <2>2. (WindowInv /\ CountedInv)'
    BY <1>1, <1>2, <2>1 DEF WindowInv, CountedInv, Eligible
  <2>3. (AtBuffer /\ AtPin /\ AtWalk)'
    BY <1>1, <1>2, <2>1 DEF AtBuffer, AtPin, AtWalk, Unbuffered, Eligible, HashesFrom
  <2> QED BY <2>2, <2>3
<1> QED BY <1>3, <1>4, <1>5 DEF RollupsInv

\* The inductive invariant, for every reachable state.
LEMMA RollupsAlways == RollupsSpec => []RollupsInv
<1>1. RollupsInit => RollupsInv
  BY RollupsInitInv
<1>2. RollupsInv /\ [RollupsNext]_allVars => RollupsInv'
  <2> SUFFICES ASSUME RollupsInv, [RollupsNext]_allVars PROVE RollupsInv'
    OBVIOUS
  <2>1. CASE StoreStep
    BY <2>1, StoreKeeps
  <2>2. CASE Restart
    BY <2>2, RestartKeeps
  <2>3. CASE \E window \in Folded : BeginFold(window)
    BY <2>3, BeginFoldKeeps
  <2>4. CASE FoldBuffer
    BY <2>4, FoldBufferKeeps
  <2>5. CASE PinForFold
    BY <2>5, PinKeeps
  <2>6. CASE FoldSegment
    BY <2>6, FoldSegmentKeeps
  <2>7. CASE FinishFold
    BY <2>7, FinishKeeps
  <2>8. CASE UNCHANGED allVars
    BY <2>8, RollupsStutter
  <2> QED BY <2>1, <2>2, <2>3, <2>4, <2>5, <2>6, <2>7, <2>8 DEF RollupsNext, FoldStep
<1> QED BY <1>1, <1>2, PTL DEF RollupsSpec

\* Whatever is sealed, merged and rewritten under an aggregation, and whichever
\* rollups it finds in the cache and on disk, it counts no span twice, misses none
\* that stood still, and counts nothing that was not an answer at some moment
\* while it ran (fold_analytics, cached_rollup, rollup_file::load, seal_segment,
\* install_cached_rollups, replace_cached_rollups).
THEOREM AggregatesAreRight == RollupsSpec => []AggregatesCountOnce
<1>1. RollupsInv => AggregatesCountOnce
  <2> SUFFICES ASSUME RollupsInv, fold.at = "done"
               PROVE  /\ \A i, j \in DOMAIN fold.counted :
                            i # j => KeysOf(fold.counted[i]) \cap KeysOf(fold.counted[j]) = {}
                      /\ \A v, w \in Total : v.key = w.key => v = w
                      /\ still \subseteq Total
                      /\ Total \subseteq current
    BY DEF AggregatesCountOnce, Total
  <2>1. CountedInv /\ AtWalk
    BY DEF RollupsInv, FoldInv
  <2>2. \A i, j \in DOMAIN fold.counted :
            i # j => KeysOf(fold.counted[i]) \cap KeysOf(fold.counted[j]) = {}
    BY <2>1 DEF CountedInv
  <2>3. ASSUME NEW v \in Total, NEW w \in Total, v.key = w.key PROVE v = w
    <3>1. PICK i \in DOMAIN fold.counted : v \in fold.counted[i]
      BY InLayers DEF Total
    <3>2. PICK j \in DOMAIN fold.counted : w \in fold.counted[j]
      BY InLayers DEF Total
    <3>3. v.key \in KeysOf(fold.counted[i]) /\ w.key \in KeysOf(fold.counted[j])
      BY <3>1, <3>2 DEF KeysOf
    <3>4. i = j
      BY <2>2, <2>3, <3>3
    <3> QED BY <2>1, <2>3, <3>1, <3>2, <3>4 DEF CountedInv, OnePerKey
  <2>4. still \subseteq Total
    <3>1. fold.at \in Walking /\ fold.left = 0
      <4>1. fold.at \in Walking /\ fold.at # "walk"
        BY DEF Walking
      <4>2. fold.left \in 0 .. Len(fold.segments) /\ ~(fold.left > 0)
        BY <2>1, <4>1 DEF AtWalk
      <4>3. Len(fold.segments) \in Nat
        BY DEF RollupsInv, PinnedInv, Layered
      <4> QED BY <4>1, <4>2, <4>3
    <3>2. 1 .. fold.left = {}
      BY <3>1
    <3> QED BY <2>1, <3>1, <3>2 DEF AtWalk
  <2>5. Total \subseteq current
    BY <2>1, InLayers DEF CountedInv, Total
  <2> QED BY <2>2, <2>3, <2>4, <2>5
<1> QED BY <1>1, RollupsAlways, PTL

----------------------------------------------------------------------------
(* Scans.                                                                   *)

\* Over layers, what a scan selects source by source is the newest of each key.
LEMMA MatchedIs ==
    ASSUME NEW view, Layered(view.segments), view.buffer \in SUBSET Version, OnePerKey(view.buffer),
           \A i \in DOMAIN view.segments : Older(view.segments[i], view.buffer),
           NEW f \in Filter, NEW cursor
    PROVE  Matched(view, f, cursor) = Answer(view, f, cursor)
<1> DEFINE list == view.segments
           low == UNION ToSet(list)
           Part(i) == {v \in Probe(list[i], f) :
                          Selects(view, f, cursor, v) /\ ~Superseded(view, i, v.key)}
<1>1. \A v : v \in Newest(Held(view)) <=>
                 v \in view.buffer \/ (v \in Newest(low) /\ ~HoldsKey(view.buffer, v.key))
  BY NewestOverLayers DEF Held
<1>2. \A v : v \in Matched(view, f, cursor) <=>
                 \/ v \in view.buffer /\ Selects(view, f, cursor, v)
                 \/ \E i \in Unpruned(view, f) : v \in Part(i)
  BY DEF Matched
<1>3. ASSUME NEW v \in Answer(view, f, cursor), v \notin view.buffer
      PROVE  \E i \in Unpruned(view, f) : v \in Part(i)
  <2>1. v \in Newest(low) /\ ~HoldsKey(view.buffer, v.key) /\ Selects(view, f, cursor, v)
    BY <1>1, <1>3 DEF Answer
  <2>2. PICK i \in DOMAIN list : v \in list[i]
    BY <2>1, InLayers DEF Newest
  <2>3. \A j \in i + 1 .. Len(list) : ~HoldsKey(list[j], v.key)
    <3> SUFFICES ASSUME NEW j \in i + 1 .. Len(list) PROVE ~HoldsKey(list[j], v.key)
      OBVIOUS
    <3>1. j \in DOMAIN list /\ i < j
      BY <2>2, LayerIs
    <3> QED BY <2>1, <2>2, <3>1, NewestIsUppermost
  <2>4. ~Superseded(view, i, v.key)
    BY <2>1, <2>3 DEF Superseded
  <2>5. Matches(v, f)
    BY <2>1 DEF Selects
  <2>6. MayHold(list[i], f)
    <3>1. f.since \in Nat /\ f.until \in Nat
      <4>1. f.since \in Times /\ f.until \in Times
        BY DEF Filter
      <4> QED BY <4>1, ReadingAssumption
    <3>2. v.at >= f.since /\ v.at <= f.until
      BY <2>5, <3>1 DEF Matches
    <3> QED BY <2>2, <3>2 DEF MayHold
  <2>7. v \in Probe(list[i], f)
    BY <2>2, <2>5 DEF Probe, Matches
  <2> QED BY <2>1, <2>2, <2>4, <2>6, <2>7 DEF Unpruned
<1>4. ASSUME NEW i \in Unpruned(view, f), NEW v \in Part(i) PROVE v \in Answer(view, f, cursor)
  <2>1. /\ i \in DOMAIN list /\ v \in list[i] /\ Selects(view, f, cursor, v)
        /\ ~HoldsKey(view.buffer, v.key)
        /\ \A j \in i + 1 .. Len(list) : ~HoldsKey(list[j], v.key)
    BY DEF Unpruned, Probe, Superseded
  <2>2. \A j \in DOMAIN list : i < j => ~HoldsKey(list[j], v.key)
    <3> SUFFICES ASSUME NEW j \in DOMAIN list, i < j PROVE ~HoldsKey(list[j], v.key)
      OBVIOUS
    <3>1. j \in i + 1 .. Len(list)
      BY <2>1, LayerIs
    <3> QED BY <2>1, <3>1
  <2>3. v \in Newest(low)
    BY <2>1, <2>2, UppermostIsNewest
  <2> QED BY <1>1, <2>1, <2>3 DEF Answer
<1>5. ASSUME NEW v \in view.buffer
      PROVE  v \in Answer(view, f, cursor) <=> Selects(view, f, cursor, v)
  BY <1>1 DEF Answer
<1> HIDE DEF Part, low, list
<1>6. \A v : v \in Matched(view, f, cursor) <=> v \in Answer(view, f, cursor)
  BY <1>2, <1>3, <1>4, <1>5
<1> QED BY <1>6

\* The layers are in order whatever the store does, with readers or without.
LEMMA LayersAlways == ReadingSpec => []LayersInv
<1>1. ReadingInit => LayersInv
  <2> SUFFICES ASSUME ReadingInit PROVE LayersInv
    OBVIOUS
  <2>1. /\ buffer = {} /\ segments = <<>> /\ mask = NoMask /\ subject = NoSession /\ ingests = 0
    BY DEF ReadingInit
  <2>2. HeldNow = {}
    BY <2>1 DEF HeldNow, InSegments, ToSet
  <2>3. MaxIngests \in Nat
    BY ReadingAssumption
  <2> QED BY <2>1, <2>2, <2>3 DEF LayersInv, Layered, OnePerKey
<1>2. LayersInv /\ [ReadingNext]_readingVars => LayersInv'
  <2> SUFFICES ASSUME LayersInv, [ReadingNext]_readingVars PROVE LayersInv'
    OBVIOUS
  <2>1. CASE \E key \in Keys, at \in Times, session \in Sessions : Ingest(key, at, session)
    BY <2>1, IngestLayers
  <2>2. CASE Seal
    BY <2>2, SealLayers
  <2>3. CASE \E first \in DOMAIN segments : Merge(first)
    <3>1. PICK first \in DOMAIN segments : Merge(first)
      BY <2>3
    <3> QED BY <3>1, MergeLayers, Zenon
  <2>4. CASE \E session \in Sessions : BeginErasure(session)
    BY <2>4, BeginLayers
  <2>5. CASE \E left \in Survivors : CompleteErasure(left)
    <3>1. PICK left \in Survivors : CompleteErasure(left)
      BY <2>5
    <3> QED BY <3>1, PurgeLayers, Zenon
  <2>6. CASE UNCHANGED <<store, ingests>>
    BY <2>6 DEF LayersInv, HeldNow, InSegments, store
  <2>7. \/ \E key \in Keys, at \in Times, session \in Sessions : Ingest(key, at, session)
        \/ Seal
        \/ \E first \in DOMAIN segments : Merge(first)
        \/ \E session \in Sessions : BeginErasure(session)
        \/ \E left \in Survivors : CompleteErasure(left)
        \/ UNCHANGED <<store, ingests>>
    BY DEF ReadingNext, BeginExport, BeginListing, Pin, ExportPage, NextPage, ListPage, readingVars
  <2> QED BY <2>1, <2>2, <2>3, <2>4, <2>5, <2>6, <2>7
<1> QED BY <1>1, <1>2, PTL DEF ReadingSpec

\* A scan without a limit, of everything or from a cursor, answers with the newest
\* version of each key that its filter selects and nothing else, in order, however
\* the versions are spread over the buffer and the segments and whatever the time
\* bounds prune (query_view_costed without a limit, fold_view).
ScansAreCurrent ==
    \A f \in Filter : \A cursor :
        Unlimited(Live(mask), f, cursor) = Sorted(Answer(Live(mask), f, cursor))

\* So it is in every state that ingests, seals, merges, erasures and restarts lead
\* to (admit, seal_with_permit, merge_run, purge_subject_locked).
THEOREM ScansAnswerTheNewest == ReadingSpec => []ScansAreCurrent
<1>1. LayersInv => ScansAreCurrent
  <2> SUFFICES ASSUME LayersInv, NEW f \in Filter, NEW cursor
               PROVE  Matched(Live(mask), f, cursor) = Answer(Live(mask), f, cursor)
    BY DEF ScansAreCurrent, Unlimited
  <2>1. Live(mask).buffer = buffer /\ Live(mask).segments = segments
    BY DEF Live
  <2> HIDE DEF Live
  <2> QED BY <2>1, MatchedIs DEF LayersInv
<1> QED BY <1>1, LayersAlways, PTL
=============================================================================

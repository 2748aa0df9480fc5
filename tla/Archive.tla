------------------------------ MODULE Archive ------------------------------
(***************************************************************************)
(* One snapshot id of the object-storage archive (src/src/object_storage): *)
(* publishers that upload a pin, deleters, and cleaners that sweep what an *)
(* interrupted publication left, all working on one prefix of a bucket.    *)
(*                                                                         *)
(* The bucket gives atomic requests and conditional creates, nothing more; *)
(* every request is a step.  A client may stop at any point, which stands  *)
(* for a crash, a failed read, and a write that failed without effect; a   *)
(* write whose answer was lost has happened before its client stops; a     *)
(* write that timed out may happen later, or never.                        *)
(*                                                                         *)
(* Simplifications: ids are independent, so there is one; a pack is known  *)
(* by the pin it was cut from, so a digest check compares pins; the pin    *)
(* has been validated (Directory.tla says what a pin is); readers do not   *)
(* change the bucket and are the operator Visible.                         *)
(***************************************************************************)
EXTENDS Naturals, FiniteSets

CONSTANTS
    Clients,      \* processes that work on the id
    Identity,     \* the store each client is configured for, or Unconfigured
    Unconfigured,
    PinOf,        \* the pin each client publishes
    AckCoversLate,\* does the word that no publisher runs cover requests on their way?
    PackCount,    \* the pack objects of a pin, named by their index
    None,
    MaxOps,       \* bound: operations begun
    MaxLate       \* bound: requests that outlive their client's patience

VARIABLES
    tombstone,    \* the deletion tombstone: the store it records, or None
    marker,       \* the upload intent: the store it records, or None
    manifest,     \* the snapshot manifest: its store and pin, or None
    objects,      \* for each pack, the pin whose bytes it holds, or None
    clients,      \* where each client is in its operation
    late,         \* requests still on their way
    published,    \* history: what a publication that returned Ok published
    askers,       \* history: identities that asked for the id's deletion
    ops, delays   \* bounds

bucket == <<tombstone, marker, manifest, objects>>
others == <<late, published, askers, ops, delays>>
vars == <<bucket, clients, others>>

Packs == 1 .. PackCount
Stores == {Identity[c] : c \in Clients}
Pins == {PinOf[c] : c \in Clients}

ASSUME ArchiveAssumption ==
    /\ DOMAIN Identity = Clients
    /\ DOMAIN PinOf = Clients
    /\ None \notin Stores \cup Pins \cup {Unconfigured}
    /\ None \notin [store: Stores, pin: Pins]
    /\ AckCoversLate \in BOOLEAN
    /\ PackCount \in Nat \ {0}
    /\ MaxOps \in Nat
    /\ MaxLate \in Nat

Snapshot == [store: Stores, pin: Pins]

Idle == [at |-> "idle"]

Init ==
    /\ tombstone = None
    /\ marker = None
    /\ manifest = None
    /\ objects = [k \in Packs |-> None]
    /\ clients = [c \in Clients |-> Idle]
    /\ late = {}
    /\ published = None
    /\ askers = {}
    /\ ops = 0
    /\ delays = 0

At(c, place) == clients[c].at = place

Become(c, state) == clients' = [clients EXCEPT ![c] = state]

Goto(c, place) == Become(c, [clients[c] EXCEPT !.at = place])

\* check_identity: an unconfigured client accepts any store, a configured one
\* its own only.
CheckIdentity(c, recorded) == Identity[c] = Unconfigured \/ recorded = Identity[c]

----------------------------------------------------------------------------
(* Requests.                                                               *)

\* A conditional create leaves an object that is there alone.
Create(object, value) == IF object = None THEN value ELSE object

\* What each write does to the bucket when it arrives.
Apply(r) ==
    /\ tombstone' = IF r.write = "retire" THEN Create(tombstone, r.store) ELSE tombstone
    /\ marker' = CASE r.write = "claim" -> Create(marker, r.store)
                   [] r.write = "unmark" -> None
                   [] OTHER -> marker
    /\ manifest' = CASE r.write = "commit" -> Create(manifest, r.snapshot)
                     [] r.write = "unlist" -> None
                     [] OTHER -> manifest
    /\ objects' = CASE r.write = "put" -> [objects EXCEPT ![r.pack] = r.pin]
                    [] r.write = "remove" -> [objects EXCEPT ![r.pack] = None]
                    [] OTHER -> objects

\* The client sends r and goes on with the answer, or gives up waiting.
Send(c, r, then) ==
    \/ /\ Apply(r)
       /\ Become(c, then)
       /\ UNCHANGED others
    \/ /\ delays < MaxLate
       /\ delays' = delays + 1
       /\ late' = late \cup {r}
       /\ Become(c, Idle)
       /\ UNCHANGED <<bucket, published, askers, ops>>

Reads == UNCHANGED <<bucket, others>>

\* The operator's word: while a cleanup decides and its retirement of the id is
\* on its way, no publisher of the id makes a request; one that was stalled may
\* go on afterwards.
Quiescent ==
    /\ \A c \in Clients :
        /\ clients[c].at \notin {"c-tombstone", "c-manifest", "c-intent"}
        /\ At(c, "retire") => ~clients[c].sweeping
    /\ \A r \in late : r.write = "retire" => ~r.sweeping

Arrive(r) ==
    /\ r \in late
    /\ r.write \in {"claim", "put", "commit"} /\ AckCoversLate => Quiescent
    /\ Apply(r)
    /\ late' = late \ {r}
    /\ UNCHANGED <<clients, published, askers, ops, delays>>

Begin(c, op) ==
    /\ At(c, "idle")
    /\ ops < MaxOps
    /\ ops' = ops + 1
    /\ Goto(c, op)
    /\ UNCHANGED <<bucket, late, published, delays>>

\* A crash, a read that failed, or a write that failed without effect.
GiveUp(c) ==
    /\ ~At(c, "idle")
    /\ Become(c, Idle)
    /\ Reads

----------------------------------------------------------------------------
(* publish.rs.                                                             *)

BeginPublish(c) == Begin(c, "p-tombstone") /\ UNCHANGED askers

PublisherAt(c, place) == At(c, place) /\ Quiescent

CheckUnretired(c) ==
    /\ PublisherAt(c, "p-tombstone")
    /\ Become(c, IF tombstone = None THEN [at |-> "p-manifest"] ELSE Idle)
    /\ Reads

CheckUnpublished(c) ==
    /\ PublisherAt(c, "p-manifest")
    /\ Become(c, IF manifest = None THEN [at |-> "p-claim"] ELSE Idle)
    /\ Reads

\* The marker is created; the one that finds it there loses.
Claim(c) ==
    /\ PublisherAt(c, "p-claim")
    /\ Send(c, [write |-> "claim", store |-> Identity[c]],
            IF marker = None THEN [at |-> "p-pack", pack |-> 1] ELSE Idle)

PutPack(c) ==
    /\ PublisherAt(c, "p-pack")
    /\ Send(c, [write |-> "put", pack |-> clients[c].pack, pin |-> PinOf[c]],
            [clients[c] EXCEPT !.at = "p-verify"])

\* The pack is read back in full before the next one, or the fence, is next.
VerifyPack(c) ==
    /\ PublisherAt(c, "p-verify")
    /\ LET k == clients[c].pack IN
       Become(c, IF objects[k] # PinOf[c] THEN Idle
                 ELSE IF k < PackCount THEN [at |-> "p-pack", pack |-> k + 1]
                 ELSE [at |-> "p-refence"])
    /\ Reads

Refence(c) ==
    /\ PublisherAt(c, "p-refence")
    /\ Become(c, IF tombstone = None THEN [at |-> "p-marker"] ELSE Idle)
    /\ Reads

\* A marker that is gone means a cleanup swept this upload.
CheckMarker(c) ==
    /\ PublisherAt(c, "p-marker")
    /\ Become(c, IF marker # None THEN [at |-> "p-commit"] ELSE Idle)
    /\ Reads

Commit(c) ==
    /\ PublisherAt(c, "p-commit")
    /\ Send(c, [write |-> "commit", snapshot |-> [store |-> Identity[c], pin |-> PinOf[c]]],
            IF manifest = None THEN [at |-> "p-recheck"] ELSE Idle)

\* Mutant: the manifest's create is the last word.
Recheck_Skip(c) ==
    /\ PublisherAt(c, "p-recheck")
    /\ Become(c, [at |-> "p-unmark"])
    /\ Reads

\* A tombstone that landed meanwhile turns the manifest into debris.
Recheck(c) ==
    /\ PublisherAt(c, "p-recheck")
    /\ Become(c, IF tombstone = None THEN [at |-> "p-unmark"] ELSE Idle)
    /\ Reads

Unmark(c) ==
    /\ PublisherAt(c, "p-unmark")
    /\ Send(c, [write |-> "unmark"], [at |-> "p-ok"])

ReturnOk(c) ==
    /\ At(c, "p-ok")
    /\ published' = [store |-> Identity[c], pin |-> PinOf[c]]
    /\ Become(c, Idle)
    /\ UNCHANGED <<bucket, late, askers, ops, delays>>

----------------------------------------------------------------------------
(* admin.rs: the manifest gate, retirement and the sweep.                  *)

\* fetch_manifest: the tombstone first ...
Fence(c) ==
    /\ At(c, "fence")
    /\ IF tombstone = None THEN Goto(c, "get") ELSE Become(c, Idle)
    /\ Reads

\* ... then the manifest and whose it is.
GetManifest(c) ==
    /\ At(c, "get")
    /\ Become(c, IF manifest = None \/ ~CheckIdentity(c, manifest.store) THEN Idle
                 ELSE IF clients[c].deleting
                 THEN [at |-> "retire", store |-> manifest.store, sweeping |-> FALSE]
                 ELSE [at |-> "c-marker"])
    /\ Reads

\* retire_id: whoever loses the create must be allowed by the winner's record.
Retire(c) ==
    /\ At(c, "retire")
    /\ Send(c, [write |-> "retire", store |-> clients[c].store, sweeping |-> clients[c].sweeping],
            IF tombstone # None /\ ~CheckIdentity(c, tombstone) THEN Idle
            ELSE IF clients[c].sweeping THEN [at |-> "list"] ELSE [at |-> "d-unlist"])

\* sweep_prefix lists everything but the tombstone and removes it one by one.
List(c) ==
    /\ At(c, "list")
    /\ LET found == {[write |-> "remove", pack |-> k] : k \in {j \in Packs : objects[j] # None}}
                    \cup (IF marker # None THEN {[write |-> "unmark"]} ELSE {})
                    \cup (IF manifest # None THEN {[write |-> "unlist"]} ELSE {})
       IN Become(c, [at |-> "sweep", todo |-> found])
    /\ Reads

Sweep(c) ==
    /\ At(c, "sweep")
    /\ \E r \in clients[c].todo : Send(c, r, [clients[c] EXCEPT !.todo = @ \ {r}])

----------------------------------------------------------------------------
(* delete and cleanup.                                                     *)

BeginDelete(c) == Begin(c, "d-tombstone") /\ askers' = askers \cup {Identity[c]}

\* A tombstone means an earlier delete committed: its sweep is finished.
ResumeOrDelete(c) ==
    /\ At(c, "d-tombstone")
    /\ Become(c, IF tombstone = None THEN [at |-> "d-manifest"]
                 ELSE IF CheckIdentity(c, tombstone) THEN [at |-> "list"] ELSE Idle)
    /\ Reads

\* Without a manifest there is nothing to delete, or an upload to leave alone.
DeleteManifested(c) ==
    /\ At(c, "d-manifest")
    /\ Become(c, IF manifest = None THEN Idle ELSE [at |-> "fence", deleting |-> TRUE])
    /\ Reads

Unlist(c) ==
    /\ At(c, "d-unlist")
    /\ Send(c, [write |-> "unlist"], [at |-> "list"])

BeginCleanup(c) == Begin(c, "c-tombstone") /\ UNCHANGED askers

CleanRetired(c) ==
    /\ At(c, "c-tombstone")
    /\ Goto(c, IF tombstone # None THEN "d-tombstone" ELSE "c-manifest")
    /\ Reads

\* A complete snapshot only loses its marker; anything else is swept, which
\* the caller must have acknowledged to be safe.
CleanManifested(c) ==
    /\ At(c, "c-manifest")
    /\ \/ manifest # None /\ Become(c, [at |-> "fence", deleting |-> FALSE])
       \/ manifest = None /\ Goto(c, "c-intent")
    /\ Reads

CleanMarker(c) ==
    /\ At(c, "c-marker")
    /\ Become(c, IF marker = None THEN Idle ELSE [at |-> "c-unmark"])
    /\ Reads

RemoveMarker(c) ==
    /\ At(c, "c-unmark")
    /\ Send(c, [write |-> "unmark"], Idle)

\* Mutant: the sweeper signs the tombstone itself.
SweptStore_Own(c) == Identity[c]

\* The store an abandoned upload recorded, or the sweeper's own without one.
SweptStore(c) == IF marker # None THEN marker ELSE Identity[c]

\* Mutant: an upload without a manifest is swept without retiring its id.
CleanIntent_Unfenced(c) ==
    /\ At(c, "c-intent")
    /\ Become(c, IF marker # None /\ ~CheckIdentity(c, marker) THEN Idle ELSE [at |-> "list"])
    /\ Reads

CleanIntent(c) ==
    /\ At(c, "c-intent")
    /\ Become(c, IF marker # None /\ ~CheckIdentity(c, marker) THEN Idle
                 ELSE [at |-> "retire", store |-> SweptStore(c), sweeping |-> TRUE])
    /\ Reads

----------------------------------------------------------------------------

Publish(c) ==
    \/ BeginPublish(c) \/ CheckUnretired(c) \/ CheckUnpublished(c) \/ Claim(c)
    \/ PutPack(c) \/ VerifyPack(c) \/ Refence(c) \/ CheckMarker(c) \/ Commit(c)
    \/ Recheck(c) \/ Unmark(c) \/ ReturnOk(c)

Delete(c) ==
    \/ BeginDelete(c) \/ ResumeOrDelete(c) \/ DeleteManifested(c) \/ Unlist(c)
    \/ Fence(c) \/ GetManifest(c) \/ Retire(c) \/ List(c) \/ Sweep(c)

Cleanup(c) ==
    \/ BeginCleanup(c) \/ CleanRetired(c) \/ CleanManifested(c) \/ CleanMarker(c)
    \/ RemoveMarker(c) \/ CleanIntent(c)

Next ==
    \/ \E c \in Clients : Publish(c) \/ Delete(c) \/ Cleanup(c) \/ GiveUp(c)
    \/ \E r \in late : Arrive(r)

Spec == Init /\ [][Next]_vars

----------------------------------------------------------------------------

TypeOK ==
    /\ tombstone \in Stores \cup {None}
    /\ marker \in Stores \cup {None}
    /\ manifest \in Snapshot \cup {None}
    /\ objects \in [Packs -> Pins \cup {None}]
    /\ DOMAIN clients = Clients
    /\ \A c \in Clients : "pack" \in DOMAIN clients[c] => clients[c].pack \in Packs
    /\ Cardinality(late) <= MaxLate
    /\ published \in Snapshot \cup {None}
    /\ askers \subseteq Stores
    /\ ops \in 0 .. MaxOps
    /\ delays \in 0 .. MaxLate

\* Readers require a manifest and no tombstone (fetch_manifest).
Visible == manifest # None /\ tombstone = None

Complete(snapshot) == \A k \in Packs : objects[k] = snapshot.pin

(* Whatever crashes, times out or arrives late, a snapshot a reader would  *)
(* open has every object of its manifest, with the bytes the manifest was  *)
(* written for: a partial snapshot is never visible (publish.rs: the       *)
(* manifest is last; admin.rs: the tombstone is first).                    *)
VisibleIsComplete == Visible => Complete(manifest)

(* A publication that returned Ok stays visible and whole until someone    *)
(* entitled to it asks for its deletion: a cleanup never takes it, with or *)
(* without a publisher that went to sleep and came back.                   *)
PublishedStays ==
    published # None /\ askers \cap {Unconfigured, published.store} = {}
        => Visible /\ manifest = published /\ Complete(published)

\* A visible snapshot is whole, and a published one stays (publish_pin, delete,
\* cleanup).
SnapshotsAreWhole == VisibleIsComplete /\ PublishedStays

(* Whoever retires the id, the tombstone keeps the evidence of whose it    *)
(* was: the store of the manifest that is there, or of the marker of the   *)
(* upload that is swept, and no later delete overwrites it (retire_id).    *)
RetirementKeepsOwner ==
    [][/\ tombstone # None => tombstone' = tombstone
       /\ tombstone' # tombstone =>
            IF manifest # None THEN tombstone' = manifest.store
            ELSE marker # None => tombstone' = marker]_vars

=============================================================================

------------------------------ MODULE Payloads -------------------------------
(***************************************************************************)
(* Offloaded values: content-addressed files beside the store, written by  *)
(* ingest, promoted into dataset examples, and swept by retention          *)
(* (src/src/payload.rs, and the callers of it in lib.rs, analytics.rs and  *)
(* evals.rs).                                                              *)
(*                                                                         *)
(* A sweep decides from references it gathered earlier, in three places    *)
(* one after the other, while ingest re-uses files, seals move spans from  *)
(* the buffer to segments and promotions copy references.  What protects a *)
(* file in the meantime is the registry of recent touches.                 *)
(*                                                                         *)
(* Time passes in ticks, kept as ages that stop growing where they no      *)
(* longer matter.  An ingest, a promotion or a sweep takes at most Window  *)
(* ticks.                                                                  *)
(***************************************************************************)
EXTENDS Integers, FiniteSets

CONSTANTS
    None,         \* no content, no age
    Contents,     \* the values long enough to be offloaded
    Clients,
    Window,       \* bound: ticks an operation may last
    Immunity,     \* TOUCH_IMMUNITY
    Ttl,          \* the earliest configured window of retention
    MaxOps,       \* bound: ingests and promotions
    MaxCrashes    \* bound: restarts

\* The registry outlasts an ingest and the sweep that missed its span.
ASSUME PayloadsAssumption ==
    /\ Window \in Nat \ {0}
    /\ Ttl \in Nat \ {0}
    /\ Immunity \in Nat
    /\ Immunity > 2 * Window

VARIABLES
    files,     \* the age of the file of each content, or None
    touched,   \* recent_payloads: ticks since the last touch, or None
    buffer,    \* the spans in the write buffer, by the content they refer to
    segments,  \* the spans in segments
    examples,  \* the contents that dataset examples refer to
    op,        \* the call of each client
    seal,      \* what a seal in flight has drained
    sweep,     \* compact_expired, in the maintenance thread
    ops, crashes  \* bounds

spans == <<buffer, segments, examples, seal>>
vars == <<files, touched, spans, op, sweep, ops, crashes>>

Old == Ttl + Window

Span == [content : Contents, age : 0 .. Old]

Idle == [at |-> "idle", content |-> None, age |-> 0]

NotSweeping == [at |-> "idle", age |-> 0, refs |-> {}, left |-> {}, temps |-> {}]

Init ==
    /\ files = [c \in Contents |-> None]
    /\ touched = [c \in Contents |-> None]
    /\ buffer = {}
    /\ segments = {}
    /\ examples = {}
    /\ op = [p \in Clients |-> Idle]
    /\ seal = {}
    /\ sweep = NotSweeping
    /\ ops = 0
    /\ crashes = 0

At(p, place) == op[p].at = place
Goto(p, place) == op' = [op EXCEPT ![p].at = place]

ContentsOf(some) == {s.content : s \in some}

Stored(c) == files[c] # None

Touch(c) == touched' = [touched EXCEPT ![c] = 0]

----------------------------------------------------------------------------
(* Ingest: store_payload, then admission.                                  *)

Begin(p, c, place) ==
    /\ At(p, "idle")
    /\ ops < MaxOps
    /\ ops' = ops + 1
    /\ op' = [op EXCEPT ![p] = [at |-> place, content |-> c, age |-> 0]]
    /\ Touch(c)
    /\ UNCHANGED <<files, spans, sweep, crashes>>

Offload(p, c) == Begin(p, c, "touched")

\* The file is there, or a temporary file is written and synced.
CheckFile(p) ==
    /\ At(p, "touched")
    /\ Goto(p, IF Stored(op[p].content) THEN "stored" ELSE "writing")
    /\ UNCHANGED <<files, touched, spans, sweep, ops, crashes>>

RenameFile(p) ==
    /\ At(p, "writing")
    /\ \E a \in 0 .. op[p].age : files' = [files EXCEPT ![op[p].content] = a]
    /\ Goto(p, "stored")
    /\ UNCHANGED <<touched, spans, sweep, ops, crashes>>

\* The span's own time is the client's.
Admit(p) ==
    /\ At(p, "stored")
    /\ \E a \in 0 .. Ttl : buffer' = buffer \cup {[content |-> op[p].content, age |-> a]}
    /\ op' = [op EXCEPT ![p] = Idle]
    /\ UNCHANGED <<files, touched, segments, examples, seal, sweep, ops, crashes>>

\* Admission refuses the batch, and its file stays behind.
Refuse(p) ==
    /\ At(p, "stored")
    /\ op' = [op EXCEPT ![p] = Idle]
    /\ UNCHANGED <<files, touched, spans, sweep, ops, crashes>>

----------------------------------------------------------------------------
(* Promotion: a version whose examples carry the reference.                *)

Promote(p, c) == Begin(p, c, "asked")

VerifyRef(p) ==
    /\ At(p, "asked")
    /\ op' = [op EXCEPT ![p] = IF Stored(op[p].content) THEN [@ EXCEPT !.at = "verified"]
                                                         ELSE Idle]
    /\ UNCHANGED <<files, touched, spans, sweep, ops, crashes>>

CreateDatasetVersion(p) ==
    /\ At(p, "verified")
    /\ examples' = examples \cup {op[p].content}
    /\ op' = [op EXCEPT ![p] = Idle]
    /\ UNCHANGED <<files, touched, buffer, segments, seal, sweep, ops, crashes>>

----------------------------------------------------------------------------
(* Seals: the drain is a copy, and leaves the buffer after the publish.    *)

Drain ==
    /\ seal = {}
    /\ buffer # {}
    /\ seal' = buffer
    /\ UNCHANGED <<files, touched, buffer, segments, examples, op, sweep, ops, crashes>>

Publish ==
    /\ seal # {}
    /\ ~(seal \subseteq segments)
    /\ segments' = segments \cup seal
    /\ UNCHANGED <<files, touched, buffer, examples, seal, op, sweep, ops, crashes>>

Evict ==
    /\ seal # {}
    /\ seal \subseteq segments
    /\ buffer' = buffer \ seal
    /\ seal' = {}
    /\ UNCHANGED <<files, touched, segments, examples, op, sweep, ops, crashes>>

----------------------------------------------------------------------------
(* compact_expired: expiry under the permit of the seals, then the         *)
(* references, then the files.                                             *)

Step(from, to) ==
    /\ sweep.at = from
    /\ sweep' = to

Expired(some) == {s \in some : s.age >= Ttl}

Expire ==
    /\ seal = {}
    /\ Step("idle", [NotSweeping EXCEPT !.at = "prune"])
    /\ buffer' = buffer \ Expired(buffer)
    /\ segments' = segments \ Expired(segments)
    /\ UNCHANGED <<files, touched, examples, seal, op, ops, crashes>>

\* Mutant: a touch protects for no longer than one operation.
Pruned_Early == [c \in Contents |-> IF touched[c] # None /\ touched[c] < Window
                                    THEN touched[c] ELSE None]

\* Mutant: the registry is never pruned.
Pruned_Never == touched

\* prune_touch_registry
Pruned == [c \in Contents |-> IF touched[c] # None /\ touched[c] < Immunity
                              THEN touched[c] ELSE None]

Prune ==
    /\ Step("prune", [sweep EXCEPT !.at = "buffer"])
    /\ touched' = Pruned
    /\ UNCHANGED <<files, spans, op, ops, crashes>>

Gather(from, to, some) ==
    /\ Step(from, [sweep EXCEPT !.at = to, !.refs = @ \cup some])
    /\ UNCHANGED <<files, touched, spans, op, ops, crashes>>

\* live_payload_refs, in this order.
GatherBuffer == Gather("buffer", "examples", ContentsOf(buffer))
GatherExamples == Gather("examples", "segments", examples)
GatherSegments == Gather("segments", "list", ContentsOf(segments))

\* sweep_expired prunes again and starts on the directories.
ListFiles ==
    /\ Step("list", [sweep EXCEPT !.at = "files", !.left = {c \in Contents : Stored(c)},
                                  !.temps = {p \in Clients : At(p, "writing")}])
    /\ touched' = Pruned
    /\ UNCHANGED <<files, spans, op, ops, crashes>>

\* Older than the cutoff, referred to by nothing gathered, and not touched:
\* the registry is locked from the last check to the removal.
Removable(c) ==
    /\ Stored(c)
    /\ files[c] >= Ttl + sweep.age
    /\ c \notin sweep.refs
    /\ touched[c] = None

SweepFile(c) ==
    /\ c \in sweep.left
    /\ Step("files", [sweep EXCEPT !.left = @ \ {c}])
    /\ files' = IF Removable(c) THEN [files EXCEPT ![c] = None] ELSE files
    /\ UNCHANGED <<touched, spans, op, ops, crashes>>

EndSweep ==
    /\ sweep.left = {}
    /\ Step("files", NotSweeping)
    /\ UNCHANGED <<files, touched, spans, op, ops, crashes>>

\* A temporary file that was listed is renamed before its metadata is read,
\* and the error ends the sweep.
SweepFails ==
    /\ \E p \in sweep.temps : ~At(p, "writing")
    /\ Step("files", NotSweeping)
    /\ UNCHANGED <<files, touched, spans, op, ops, crashes>>

Sweep == \/ Expire \/ Prune \/ GatherBuffer \/ GatherExamples \/ GatherSegments
         \/ ListFiles \/ (\E c \in Contents : SweepFile(c)) \/ EndSweep \/ SweepFails

----------------------------------------------------------------------------

\* The death of the process: the buffer comes back from the log, the
\* registry does not.
Restart ==
    /\ crashes < MaxCrashes
    /\ crashes' = crashes + 1
    /\ touched' = [c \in Contents |-> None]
    /\ op' = [p \in Clients |-> Idle]
    /\ seal' = {}
    /\ sweep' = NotSweeping
    /\ UNCHANGED <<files, buffer, segments, examples, ops>>

Later(age, bound) == IF age = None \/ age = bound THEN age ELSE age + 1

Aged(some) == {[s EXCEPT !.age = Later(@, Old)] : s \in some}

Tick ==
    /\ \A p \in Clients : op[p].age < Window
    /\ sweep.age < Window
    /\ files' = [c \in Contents |-> Later(files[c], Old)]
    /\ touched' = [c \in Contents |-> Later(touched[c], Immunity)]
    /\ buffer' = Aged(buffer)
    /\ segments' = Aged(segments)
    /\ seal' = Aged(seal)
    /\ op' = [p \in Clients |-> IF At(p, "idle") THEN Idle ELSE [op[p] EXCEPT !.age = @ + 1]]
    /\ sweep' = IF sweep.at # "idle" THEN [sweep EXCEPT !.age = @ + 1] ELSE sweep
    /\ UNCHANGED <<examples, ops, crashes>>

Finish(p) == CheckFile(p) \/ RenameFile(p) \/ Admit(p) \/ Refuse(p) \/ VerifyRef(p) \/ CreateDatasetVersion(p)

Next ==
    \/ \E p \in Clients, c \in Contents : Offload(p, c) \/ Promote(p, c)
    \/ \E p \in Clients : Finish(p)
    \/ Drain \/ Publish \/ Evict
    \/ Sweep
    \/ Restart
    \/ Tick

Spec == Init /\ [][Next]_vars

\* The maintenance thread runs at its cadence, seals and calls come to an
\* end, and time passes.
FairSpec ==
    /\ Spec
    /\ WF_vars(Sweep)
    /\ WF_vars(Publish \/ Evict)
    /\ \A p \in Clients : WF_vars(Finish(p))
    /\ WF_vars(Tick)

----------------------------------------------------------------------------
(* Properties.                                                             *)

\* The variables stay within their types; a span being sealed is readable in
\* the buffer or in a segment until it is evicted, and no operation outlives
\* its window (lib.rs:5488, payload.rs:341).
TypeOK ==
    /\ files \in [Contents -> 0 .. Old \cup {None}]
    /\ touched \in [Contents -> 0 .. Immunity \cup {None}]
    /\ buffer \subseteq Span /\ segments \subseteq Span
    /\ examples \subseteq Contents
    /\ ContentsOf(seal) \subseteq ContentsOf(buffer) \cup ContentsOf(segments)
    /\ \A p \in Clients : op[p].age \in 0 .. Window
    /\ sweep.age \in 0 .. Window
    /\ sweep.refs \subseteq Contents

\* Every value a visible span or a dataset example refers to has its file,
\* whatever a sweep gathered and when (payload.rs:468-517, 325-331,
\* analytics.rs:1244-1300, lib.rs:3936-3943).
BodiesAreKept ==
    \A c \in ContentsOf(buffer) \cup ContentsOf(segments) \cup examples : Stored(c)

\* A file no example refers to goes away in the end, once the spans that
\* referred to it have expired (payload.rs:455-461, lib.rs:4470-4521).
NothingLingers ==
    \A c \in Contents : Stored(c) ~> (~Stored(c) \/ c \in examples)
=============================================================================

-------------------------------- MODULE Evals --------------------------------
(***************************************************************************)
(* The evaluation entities (src/src/evals.rs) and the scores addressed to  *)
(* them (src/src/annotations.rs): two JSONL logs, each with its replayed   *)
(* state, appended under a mutex that spans validation, append and apply,  *)
(* and rewritten when a tenant is erased or annotations age out.           *)
(*                                                                         *)
(* A mutation is therefore one step, with an outcome: it may be answered,  *)
(* fail before or after its bytes reached the file, or die with the        *)
(* process on the way.  A body is named by its content, and an example by  *)
(* its body.  The refs of bodies to payload files are in Payloads.         *)
(***************************************************************************)
EXTENDS Integers, FiniteSets, SequencesExt

CONSTANTS
    Tenants,
    Bodies,
    Nil,
    Scopes,         \* what is explored together: the log found, the outcomes of a mutation,
                    \* and bounds on the mutations and the erasures
    MaxVersions, MaxExperiments, \* bounds, of the entities in the log
    MaxDeaths       \* bound: deaths and power losses

ASSUME EvalsAssumption ==
    /\ \A s \in Scopes : s.outcomes \subseteq {"ok", "failed", "unsynced", "died"}
                         /\ s.mutations \in Nat
                         /\ s.erasures \in Nat
    /\ MaxVersions \in Nat
    /\ IsFiniteSet(Bodies)

VARIABLES
    scope,
    log,       \* evals.jsonl: its lines, and how many of them are synced
    mem,       \* State of EvalLog: the records in force, and the id floors
    notes,     \* annotations.jsonl
    entries,   \* entries of AnnotationLog
    up,
    pending,   \* the tenants an erasure covers (tombstones.jsonl, durable)
    stage,     \* how far the purge of each of them is
    acked,     \* history: records whose writer was answered, and not erased since
    issued,    \* history: the ids answered, in order
    written,   \* history: who wrote, and which bodies, since its own last erasure
    mutations, erasures, deaths  \* bounds

logs == <<log, mem, notes, entries>>
history == <<acked, issued, written>>
evalsVars == <<scope, logs, up, pending, stage, history, mutations, erasures, deaths>>

----------------------------------------------------------------------------
(* Records, by the names of LogRecord.                                     *)

Dataset(d, t) == [kind |-> "dataset", dataset |-> d, tenant |-> t]
Example(b) == [kind |-> "example", body |-> b]
Version(v, t) == [kind |-> "version", version |-> v, tenant |-> t]
Experiment(e, v, t) == [kind |-> "experiment", experiment |-> e, on |-> v, tenant |-> t]
Run(e, b, t) == [kind |-> "run", experiment |-> e, body |-> b, tenant |-> t]
Tombstone(v, t) == [kind |-> "tombstone", version |-> v, tenant |-> t]
Counters(d, e) == [kind |-> "counters", datasets |-> d, experiments |-> e]
Score(e, b, t) == [kind |-> "score", experiment |-> e, body |-> b, tenant |-> t]
Note(t, aged) == [kind |-> "note", aged |-> aged, tenant |-> t]

\* The start of a line whose rest was never written.
Torn == [kind |-> "torn"]

\* A version is named by the digest of its manifest.
VersionId(d, parent, bodies) == [dataset |-> d, parent |-> parent, bodies |-> bodies]

Of(m, kind) == {r \in m.records : r.kind = kind}

SameEntity(r, s) ==
    /\ r.kind = s.kind
    /\ \/ r = s
       \/ r.kind = "dataset" /\ r.dataset = s.dataset
       \/ r.kind = "experiment" /\ r.experiment = s.experiment
       \/ r.kind \in {"version", "tombstone"} /\ r.version = s.version

Larger(x, y) == IF x > y THEN x ELSE y

NoRecords == [records |-> {}, datasetFloor |-> 0, experimentFloor |-> 0]

\* State::apply, of one line.
Apply(m, r) ==
    IF r.kind = "counters"
    THEN [m EXCEPT !.datasetFloor = Larger(@, r.datasets),
                   !.experimentFloor = Larger(@, r.experiments)]
    ELSE [m EXCEPT !.records = {s \in @ : ~SameEntity(s, r)} \cup {r}]

\* Some line after the i-th has another record of this entity.
Superseded(r, lines, i) == \E j \in i + 1 .. Len(lines) : SameEntity(r, lines[j]) /\ lines[j] # r

FloorsOf(lines) == {l \in ToSet(lines) : l.kind = "counters"}

\* All these lines applied in their order (MCEvals compares it with Apply): the last
\* record of an entity stands, and a floor is never lowered.
ApplyAll(m, lines) ==
    [records |-> {r \in m.records : ~Superseded(r, lines, 0)}
                 \cup {lines[i] : i \in {j \in DOMAIN lines : /\ lines[j].kind # "counters"
                                                             /\ ~Superseded(lines[j], lines, j)}},
     datasetFloor |-> Max({m.datasetFloor} \cup {l.datasets : l \in FloorsOf(lines)}),
     experimentFloor |-> Max({m.experimentFloor} \cup {l.experiments : l \in FloorsOf(lines)})]

Replay(lines) == ApplyAll(NoRecords, lines)

NextDatasetId(m) ==
    Larger(m.datasetFloor, Max({0} \cup {r.dataset : r \in Of(m, "dataset")})) + 1

NextExperimentId(m) ==
    Larger(m.experimentFloor, Max({0} \cup {r.experiment : r \in Of(m, "experiment")})) + 1

\* What a record relies on is there, and of its tenant.
Relies(r, m) ==
    /\ r.kind = "version" =>
          /\ Dataset(r.version.dataset, r.tenant) \in m.records
          /\ r.version.parent # Nil => /\ Version(r.version.parent, r.tenant) \in m.records
                                       /\ r.version.parent.dataset = r.version.dataset
    /\ r.kind = "experiment" => Version(r.on, r.tenant) \in m.records
    /\ r.kind = "tombstone" => Version(r.version, r.tenant) \in m.records
    /\ r.kind = "run" => \E e \in Of(m, "experiment") : /\ e.experiment = r.experiment
                                                      /\ e.tenant = r.tenant
                                                      /\ r.body \in e.on.bodies

Filled(m) == \A v \in Of(m, "version") : \A b \in v.version.bodies : Example(b) \in m.records

Whole(m) == Filled(m) /\ \A r \in m.records : Relies(r, m)

IsRecord(r) ==
    \/ r.kind = "dataset" /\ r = Dataset(r.dataset, r.tenant) /\ r.dataset \in Nat \ {0}
    \/ r.kind = "example" /\ r = Example(r.body)
    \/ r.kind = "version" /\ r = Version(r.version, r.tenant)
    \/ r.kind = "experiment" /\ r = Experiment(r.experiment, r.on, r.tenant)
                             /\ r.experiment \in Nat \ {0}
    \/ r.kind = "run" /\ r = Run(r.experiment, r.body, r.tenant)
    \/ r.kind = "tombstone" /\ r = Tombstone(r.version, r.tenant)
    \/ r.kind = "counters" /\ r = Counters(r.datasets, r.experiments)
                           /\ r.datasets \in Nat /\ r.experiments \in Nat

\* A log to begin with: records that rely on nothing that is missing, and no body
\* that no version lists.
Sound(lines) ==
    /\ lines \in Seq(ToSet(lines))
    /\ \A r \in ToSet(lines) :
          IsRecord(r) /\ (r.kind \notin {"example", "counters"} => r.tenant \in Tenants)
    /\ Whole(Replay(lines))
    /\ \A x \in Of(Replay(lines), "example") :
          \E v \in Of(Replay(lines), "version") : x.body \in v.version.bodies

ASSUME LogsAreSound == \A s \in Scopes : Sound(s.lines)

----------------------------------------------------------------------------
(* Files.                                                                  *)

Empty == [lines |-> <<>>, synced |-> 0]

\* What opening a file makes of it: a torn last line is cut off, and any
\* other malformed line refuses the open.
Healed(lines) == IF lines # <<>> /\ Last(lines) = Torn THEN Front(lines) ELSE lines

Opens(lines) == \A i \in 1 .. Len(lines) - 1 : lines[i] # Torn

\* The files a loss of power may leave of this one.
Images(file) ==
    UNION {LET kept == SubSeq(file.lines, 1, k)
           IN  {kept} \cup IF k < Len(file.lines) THEN {Append(kept, Torn)} ELSE {}
           : k \in file.synced .. Len(file.lines)}

\* append_lines: the bytes, then the sync.  A death may leave any prefix.
Appended(file, recs, outcome) ==
    CASE outcome = "ok" -> {[lines |-> file.lines \o recs, synced |-> Len(file.lines) + Len(recs)]}
      [] outcome = "unsynced" -> {[file EXCEPT !.lines = @ \o recs]}
      [] outcome = "died" -> {[file EXCEPT !.lines = @ \o SubSeq(recs, 1, k)] : k \in 0 .. Len(recs)}
                             \cup {[file EXCEPT !.lines = @ \o SubSeq(recs, 1, k) \o <<Torn>>]
                                   : k \in 0 .. Len(recs) - 1}
      [] OTHER -> {file}

\* A rewrite: staged, synced, renamed, and the directory synced.  A death
\* leaves the old file or the new one.
Rewritten(file, recs, outcome) ==
    (IF outcome \in {"ok", "died"} THEN {[lines |-> recs, synced |-> Len(recs)]} ELSE {})
    \cup (IF outcome # "ok" THEN {file} ELSE {})

----------------------------------------------------------------------------

EvalsInit ==
    /\ scope \in Scopes
    /\ log = [lines |-> scope.lines, synced |-> Len(scope.lines)]
    /\ mem = Replay(scope.lines)
    /\ notes = Empty
    /\ entries = {}
    /\ up = TRUE
    /\ pending = {}
    /\ stage = [t \in Tenants |-> "idle"]
    /\ acked = {r \in mem.records : r.kind # "example"}
    /\ issued = [datasets |-> SetToSeq({r.dataset : r \in Of(mem, "dataset")}),
                 experiments |-> <<>>]
    /\ written = {<<r.tenant, Nil>> : r \in acked}
                 \cup UNION {{v.tenant} \X v.version.bodies : v \in Of(mem, "version")}
    /\ mutations = 0
    /\ erasures = 0
    /\ deaths = 0

Outcome(o) ==
    /\ up
    /\ o \in scope.outcomes
    /\ (o = "died") => deaths < MaxDeaths
    /\ up' = (o # "died")
    /\ deaths' = IF o = "died" THEN deaths + 1 ELSE deaths

Writes(t, bodies) == written' = written \cup ({t} \X ({Nil} \cup bodies))

\* A mutation of the eval log for tenant t: refused while an erasure covers
\* t; applied in memory and answered only if the append came back.
Mutate(t, recs, o) ==
    /\ Outcome(o)
    /\ t \notin pending
    /\ mutations < scope.mutations
    /\ mutations' = mutations + 1
    /\ log' \in Appended(log, recs, o)
    /\ IF o = "ok"
       THEN /\ mem' = ApplyAll(mem, recs)
            /\ acked' = acked \cup {r \in ToSet(recs) : r.kind # "example"}
       ELSE UNCHANGED <<mem, acked>>
    /\ UNCHANGED <<scope, notes, entries, pending, stage, erasures>>

\* Who may name a dataset: the operator, and a principal bound to its tenant.
InScope(who, t) == who \in {Nil, t}

CreateDataset(t, o) ==
    LET id == NextDatasetId(mem) IN
    /\ Mutate(t, <<Dataset(id, t)>>, o)
    /\ issued' = IF o = "ok" THEN [issued EXCEPT !.datasets = Append(@, id)] ELSE issued
    /\ Writes(t, {})

\* A parent must be a live version of the same dataset.
Derives(d, parent) ==
    \/ parent = Nil
    \/ /\ \E p \in Of(mem, "version") : p.version = parent /\ parent.dataset = d
       /\ \A s \in Of(mem, "tombstone") : s.version # parent

\* Bodies the log already has are not written again.
Unstored(bodies) == SetToSeq({Example(b) : b \in bodies} \ mem.records)

CreateVersion(who, d, parent, bodies, o) ==
    LET t == d.tenant
        v == Version(VersionId(d.dataset, parent, bodies), t)
    IN  /\ InScope(who, t)
        /\ Derives(d.dataset, parent)
        /\ v \notin mem.records
        /\ Cardinality(Of(mem, "version")) < MaxVersions
        /\ Mutate(t, Append(Unstored(bodies), v), o)
        /\ Writes(t, bodies)
        /\ UNCHANGED issued

\* The same version or tombstone again: the record that stands is answered.
Refind(who, r) ==
    /\ up
    /\ InScope(who, r.tenant)
    /\ r.tenant \notin pending
    /\ r.kind = "version" => Derives(r.version.dataset, r.version.parent)
    /\ r \notin acked
    /\ acked' = acked \cup {r}
    /\ UNCHANGED <<scope, logs, up, pending, stage, issued, written, mutations, erasures, deaths>>

Live(v) == \A s \in Of(mem, "tombstone") : s.version # v.version

CreateExperiment(who, v, o) ==
    LET id == NextExperimentId(mem) IN
    /\ InScope(who, v.tenant)
    /\ Live(v)
    /\ Cardinality(Of(mem, "experiment")) < MaxExperiments
    /\ Mutate(v.tenant, <<Experiment(id, v.version, v.tenant)>>, o)
    /\ issued' = IF o = "ok" THEN [issued EXCEPT !.experiments = Append(@, id)] ELSE issued
    /\ Writes(v.tenant, {})

InManifest(e, b) == \E v \in Of(mem, "version") : v.version = e.on /\ b \in v.version.bodies

RecordRun(who, e, b, o) ==
    /\ InScope(who, e.tenant)
    /\ InManifest(e, b)
    /\ Mutate(e.tenant, <<Run(e.experiment, b, e.tenant)>>, o)
    /\ Writes(e.tenant, {})
    /\ UNCHANGED issued

TombstoneVersion(who, v, o) ==
    /\ InScope(who, v.tenant)
    /\ Live(v)
    /\ Mutate(v.tenant, <<Tombstone(v.version, v.tenant)>>, o)
    /\ Writes(v.tenant, {})
    /\ UNCHANGED issued

----------------------------------------------------------------------------
(* Annotations.                                                            *)

\* validate_score: the experiment is the tenant's, and lists the example.
Addressed(a) ==
    a.kind = "score" => \E e \in Of(mem, "experiment") :
                           /\ e.experiment = a.experiment
                           /\ e.tenant = a.tenant
                           /\ InManifest(e, a.body)

Annotate(a, o) ==
    /\ Outcome(o)
    /\ a.tenant \notin pending
    /\ Addressed(a)
    /\ mutations < scope.mutations
    /\ mutations' = mutations + 1
    /\ notes' \in Appended(notes, <<a>>, o)
    /\ IF o = "ok"
       THEN entries' = entries \cup {a} /\ acked' = acked \cup {a}
       ELSE UNCHANGED <<entries, acked>>
    /\ Writes(a.tenant, {})
    /\ UNCHANGED <<scope, log, mem, pending, stage, issued, erasures>>

RewriteKeeping(kept, o) ==
    /\ notes' \in IF kept = entries THEN {notes} ELSE Rewritten(notes, SetToSeq(kept), o)
    /\ entries' = IF o = "ok" THEN kept ELSE entries

\* Mutant: scores age like trace annotations do.
Ages_Scores(a) == IF a.kind = "note" THEN a.aged ELSE TRUE

\* drop_older_than: scores are exempt.
Ages(a) == a.kind # "score" /\ a.aged

DropOlderThan(o) ==
    LET kept == {a \in entries : ~Ages(a)} IN
    /\ Outcome(o)
    /\ kept # entries
    /\ RewriteKeeping(kept, o)
    /\ acked' = {r \in acked : r.kind # "note" \/ ~r.aged}
    /\ UNCHANGED <<scope, log, mem, pending, stage, issued, written, mutations, erasures>>

----------------------------------------------------------------------------
(* The erasure of a tenant, as far as these logs go.                       *)

BeginErasure(t) ==
    /\ up
    /\ erasures < scope.erasures
    /\ erasures' = erasures + 1
    /\ t \notin pending
    /\ pending' = pending \cup {t}
    /\ stage' = [stage EXCEPT ![t] = "notes"]
    /\ acked' = {r \in acked : r.tenant # t}
    /\ UNCHANGED <<scope, logs, up, issued, written, mutations, deaths>>

DropAnnotations(t, o) ==
    /\ stage[t] = "notes"
    /\ Outcome(o)
    /\ RewriteKeeping({a \in entries : a.tenant # t}, o)
    /\ stage' = IF o = "ok" THEN [stage EXCEPT ![t] = "evals"] ELSE stage
    /\ UNCHANGED <<scope, log, mem, pending, history, mutations, erasures>>

\* Mutant: the bodies are dropped with the versions of the tenant.
Surviving_Unlisted(t) ==
    Bodies \ UNION {v.version.bodies : v \in {r \in Of(mem, "version") : r.tenant = t}}

\* The bodies some version of another tenant lists.
Surviving(t) == UNION {v.version.bodies : v \in {r \in Of(mem, "version") : r.tenant # t}}

\* Mutant: the purge forgets the bodies.
Survivors_Bodies(t) == {r \in mem.records : r.kind = "example" \/ r.tenant # t}

Survivors(t) ==
    {r \in mem.records : IF r.kind = "example" THEN r.body \in Surviving(t) ELSE r.tenant # t}

\* Mutant: the next ids are those after the survivors.
Floors_Forgotten == Counters(mem.datasetFloor, mem.experimentFloor)

\* Floors over every id there was, before what survives.
Floors == Counters(NextDatasetId(mem) - 1, NextExperimentId(mem) - 1)

\* The code writes them by kind; the file is replaced as a whole, and one record of each
\* entity replays the same in any order.
PurgedLines(t) == <<Floors>> \o SetToSeq(Survivors(t))

PurgeTenant(t, o) ==
    /\ stage[t] = "evals"
    /\ Outcome(o)
    /\ IF Survivors(t) = mem.records
       THEN UNCHANGED <<log, mem>>
       ELSE /\ log' \in Rewritten(log, PurgedLines(t), o)
            /\ mem' = IF o = "ok" THEN Replay(PurgedLines(t)) ELSE mem
    /\ stage' = IF o = "ok" THEN [stage EXCEPT ![t] = "settle"] ELSE stage
    /\ UNCHANGED <<scope, notes, entries, pending, history, mutations, erasures>>

Settle(t) ==
    /\ up
    /\ stage[t] = "settle"
    /\ stage' = [stage EXCEPT ![t] = "idle"]
    /\ pending' = pending \ {t}
    /\ written' = {w \in written : w[1] # t}
    /\ UNCHANGED <<scope, logs, up, acked, issued, mutations, erasures, deaths>>

----------------------------------------------------------------------------
(* Failures.                                                               *)

LosePower ==
    /\ deaths < MaxDeaths
    /\ deaths' = deaths + 1
    /\ up' = FALSE
    /\ \E l \in Images(log), n \in Images(notes) :
          /\ log' = [lines |-> l, synced |-> Len(l)]
          /\ notes' = [lines |-> n, synced |-> Len(n)]
    /\ UNCHANGED <<scope, mem, entries, pending, stage, history, mutations, erasures>>

\* What a dead process left in its files, the kernel has written by now.
Open ==
    /\ ~up
    /\ Opens(log.lines)
    /\ Opens(notes.lines)
    /\ LET l == Healed(log.lines)
           n == Healed(notes.lines)
       IN  /\ log' = [lines |-> l, synced |-> Len(l)]
           /\ notes' = [lines |-> n, synced |-> Len(n)]
           /\ mem' = Replay(l)
           /\ entries' = ToSet(n)
    /\ up' = TRUE
    /\ stage' = [t \in Tenants |-> IF t \in pending THEN "notes" ELSE "idle"]
    /\ UNCHANGED <<scope, pending, history, mutations, erasures, deaths>>

EvalsNext ==
    \/ \E o \in scope.outcomes :
          \/ \E t \in Tenants : CreateDataset(t, o)
          \/ \E who \in Tenants \cup {Nil}, d \in Of(mem, "dataset"),
                parent \in {Nil} \cup {v.version : v \in Of(mem, "version")},
                bodies \in (SUBSET Bodies) \ {{}} : CreateVersion(who, d, parent, bodies, o)
          \/ \E who \in Tenants \cup {Nil}, v \in Of(mem, "version") :
                CreateExperiment(who, v, o) \/ TombstoneVersion(who, v, o)
          \/ \E who \in Tenants \cup {Nil}, e \in Of(mem, "experiment"), b \in Bodies :
                RecordRun(who, e, b, o)
          \/ \E e \in Of(mem, "experiment"), b \in Bodies, t \in Tenants :
                Annotate(Score(e.experiment, b, t), o)
          \/ \E t \in Tenants, aged \in BOOLEAN : Annotate(Note(t, aged), o)
          \/ DropOlderThan(o)
          \/ \E t \in Tenants : DropAnnotations(t, o) \/ PurgeTenant(t, o)
    \/ \E who \in Tenants \cup {Nil}, r \in Of(mem, "version") \cup Of(mem, "tombstone") :
          Refind(who, r)
    \/ \E t \in Tenants : BeginErasure(t) \/ Settle(t)
    \/ LosePower
    \/ Open

EvalsSpec == EvalsInit /\ [][EvalsNext]_evalsVars

----------------------------------------------------------------------------
(* Properties.                                                             *)

\* The variables stay within their types, an entity has one record, and a
\* tenant whose purge is under way is covered by the erasure's mask
\* (evals.rs:425-436, lib.rs:5995).
EvalsTypeOK ==
    /\ \A f \in {log, notes} : f.synced \in 0 .. Len(f.lines)
    /\ mem.datasetFloor \in Nat /\ mem.experimentFloor \in Nat
    /\ \A r, s \in mem.records : SameEntity(r, s) => r = s
    /\ \A a \in entries : a.kind \in {"score", "note"} /\ a.tenant \in Tenants
    /\ pending \subseteq Tenants
    /\ stage \in [Tenants -> {"idle", "notes", "evals", "settle"}]
    /\ \A t \in Tenants : (stage[t] # "idle") = (t \in pending)
    /\ up \in BOOLEAN
    /\ written \subseteq Tenants \X ({Nil} \cup Bodies)

\* What a client was answered for is in force, and would be after a loss of
\* power now, unless its tenant was erased or it is a trace annotation past
\* its window: scores never age out (evals.rs:613, annotations.rs:304, 478).
AckedSurvives ==
    /\ up => acked \subseteq mem.records \cup entries
    /\ \A l \in Images(log), n \in Images(notes) :
          Opens(l) /\ Opens(n)
          /\ acked \subseteq Replay(Healed(l)).records \cup ToSet(Healed(n))

\* In memory and in any file a loss of power leaves, a version has its
\* dataset, its parent and all its bodies, experiments and tombstones their
\* version, runs and scores their experiment and example (evals.rs:606-612,
\* 709-714, 1287, lib.rs:3813).
NothingDangles ==
    /\ up => Whole(mem)
    /\ \A l \in Images(log) : Opens(l) => Whole(Replay(Healed(l)))
    /\ up => \A a \in entries : Addressed(a)

\* No id is answered twice, whatever was purged or lost in between
\* (evals.rs:477-494, 1338-1342).
IdsAreFresh == IsInjective(issued.datasets) /\ IsInjective(issued.experiments)

\* Once the erasure of a tenant has settled there is no record of it, nor a
\* body that only it posted, that was not written since (evals.rs:1287-1420,
\* annotations.rs:440).
ErasedStaysErased ==
    \A l \in Images(log), n \in Images(notes) : Opens(l) /\ Opens(n) =>
        \A r \in Replay(Healed(l)).records \cup ToSet(Healed(n)) :
            IF r.kind = "example"
            THEN \E t \in Tenants : <<t, r.body>> \in written
            ELSE <<r.tenant, Nil>> \in written
=============================================================================

------------------------------ MODULE Tenancy -------------------------------
(***************************************************************************)
(* Whose data a credential reads and writes (src/src/auth.rs, the routes   *)
(* of src/src/bin/traza-server.rs, the tools of src/src/mcp.rs and the     *)
(* scoped operations of src/src/lib.rs, evals.rs and annotations.rs).      *)
(*                                                                         *)
(* The store is one record, so that an answer can be asked of all of it or *)
(* of the part of one tenant.  A request is answered whole, an erasure     *)
(* included: the interleavings inside are those of Erasure and Evals.      *)
(* Only promote_failures is taken in two steps, its reads and its writes.  *)
(* A trace has one span and is its own session; datasets share one name;   *)
(* a span carries a content and the server makes the reference of it.      *)
(***************************************************************************)
EXTENDS FiniteSets, Integers, SequencesExt

CONSTANTS
    Tenants,   \* those that credentials are bound to
    Default,   \* the tenant of what names none
    Unbound,   \* the binding of an operator credential
    Traces, Refs, Nil,
    AuthConfigs, \* what is explored together: the credentials of a server
    MaxOps,    \* bound: requests that change something
    MaxIds     \* bound: datasets, and experiments, ever made

\* What a credential may do, and to whose data.
Principals == [scope: {"ro", "rw", "admin"}, tenant: Tenants \cup {Unbound}]

ASSUME TenancyAssumption ==
    /\ IsFiniteSet(Tenants) /\ Traces # {} /\ Refs # {} /\ MaxIds \in Nat
    /\ AuthConfigs \subseteq SUBSET Principals
    /\ {Unbound, Nil, "403"} \cap (Tenants \cup {Default}) = {} /\ Unbound # Nil
    /\ Nil \notin Refs \cup Traces \cup 1 .. MaxIds

VARIABLES
    credentials, \* what AuthConfig has from start to end; without tokens, an open admin
    store,       \* what the server keeps
    promoting,   \* promotions that have read and not yet written
    ops          \* bound: requests taken

tenancyVars == <<credentials, store, promoting, ops>>

Owners == Tenants \cup {Default}
Ids == 1 .. MaxIds

Span == [tenant: Owners, trace: Traces, ref: Refs \cup {Nil}]
Example == [id: Traces, ref: Refs \cup {Nil}, from: Owners \cup {Nil}]
Note == [tenant: Owners, trace: Traces \cup {Nil}, experiment: Ids \cup {Nil},
         example: Traces \cup {Nil}]
Subject == [kind: {"trace"}, tenant: Owners, trace: Traces]
           \cup [kind: {"tenant"}, tenant: Owners]
           \cup [kind: {"payload"}, ref: Refs]

Empty == [spans |-> {}, notes |-> {}, datasets |-> {}, versions |-> {}, tombstones |-> {},
          experiments |-> {}, runs |-> {}, files |-> {}, erasures |-> {},
          lastDataset |-> 0, lastExperiment |-> 0]

----------------------------------------------------------------------------
(* Credentials *)

\* The HTTP methods of a scope; ro reads, rw and admin also POST.
Permits(scope, method) == method = "GET" \/ (method = "POST" /\ scope \in {"rw", "admin"})

PermitsErasure(scope) == scope = "admin"

\* The verdict on a head: destruction needs admin, the operator's surfaces need
\* an unbound credential, and MCP is authorized tool by tool.
Authorized(p, method, surface) ==
    /\ CASE surface = "mcp" -> TRUE
         [] surface = "destructive" -> PermitsErasure(p.scope)
         [] OTHER -> Permits(p.scope, method)
    /\ surface = "operator" => p.tenant = Unbound

\* The MCP tools that write need more than a ro token.
ToolWrites(p) == p.scope \in {"rw", "admin"}

Refused == "403"

\* The tenant a request is about, from the one it names and the binding.
BindTenant(named, bound) ==
    CASE bound = Unbound -> named
      [] bound # Unbound /\ named \in {Nil, bound} -> bound
      [] OTHER -> Refused

Within(tenant, scope) == scope \in {Nil, Unbound} \/ tenant = scope

----------------------------------------------------------------------------
(* What a tenant holds *)

DatasetIn(s, scope, id) == {d \in s.datasets : d.id = id /\ Within(d.tenant, scope)}
ExperimentIn(s, scope, id) == {e \in s.experiments : e.id = id /\ Within(e.tenant, scope)}
OwnerOf(s, version) == (CHOOSE d \in s.datasets : d.id = version.dataset).tenant
Live(s, version) == version \in s.versions \ s.tombstones

RefsOf(things) == {x.ref : x \in things} \ {Nil}
SpanRefs(s, tenant) == RefsOf({x \in s.spans : x.tenant = tenant})
ExampleRefs(s, tenant) ==
    UNION {RefsOf(v.examples) : v \in {w \in s.versions : OwnerOf(s, w) = tenant}}
Reachable(s, tenant, ref) == ref \in SpanRefs(s, tenant) \cup ExampleRefs(s, tenant)
LiveRefs(s) == RefsOf(s.spans) \cup UNION {RefsOf(v.examples) : v \in s.versions}

----------------------------------------------------------------------------
(* Reads.  Each is the answer of store s to a binding. *)

SpansOf(s, tenant) == {x \in s.spans : Within(x.tenant, tenant)}

\* GET /v1/spans; /v1/export and /v1/tail bind a tenant and select as it does.
SpansAnswer(s, bound, named) ==
    LET tenant == BindTenant(named, bound)
    IN IF tenant = Refused THEN Refused ELSE SpansOf(s, tenant)

\* The annotations that a search keeps.
Matches(note, tenant, experiment) ==
    Within(note.tenant, tenant) /\ experiment \in {Nil, note.experiment}

SearchAnnotations(s, tenant, experiment) == {n \in s.notes : Matches(n, tenant, experiment)}

TraceNotes(s, tenant, trace) == {n \in s.notes : Within(n.tenant, tenant) /\ n.trace = trace}

\* GET /v1/traces/{id}, with what is judged of it.
TraceAnswer(s, bound, named, trace) ==
    LET tenant == BindTenant(named, bound)
        found == {x \in SpansOf(s, tenant) : x.trace = trace}
    IN CASE tenant = Refused -> Refused
         [] tenant # Refused /\ found = {} -> "404"
         [] OTHER -> [spans |-> found, notes |-> TraceNotes(s, tenant, trace)]

\* A session of a list is of one tenant, whatever its name.
SessionRows(s, tenant) == {<<x.tenant, x.trace>> : x \in SpansOf(s, tenant)}

\* GET /v1/sessions.
SessionsAnswer(s, bound, named) ==
    LET tenant == BindTenant(named, bound)
    IN IF tenant = Refused THEN Refused ELSE SessionRows(s, tenant)

\* GET /v1/sessions/{id}: of no tenant, the union of what goes by the name, and
\* the tenant of the members if they agree.
SessionDetail(s, tenant, session) ==
    LET members == {x \in SpansOf(s, tenant) : x.trace = session}
        owners == {x.tenant : x \in members}
    IN IF members = {} THEN "404"
       ELSE [spans |-> members, tenant |-> IF Cardinality(owners) = 1 THEN owners ELSE {Default}]

SessionAnswer(s, bound, named, session) ==
    LET tenant == BindTenant(named, bound)
    IN IF tenant = Refused THEN Refused ELSE SessionDetail(s, tenant, session)

\* GET /v1/stats/llm, series, duration, failures, slowest: folds over the spans.
FoldAnswer(s, bound, named) ==
    LET tenant == BindTenant(named, bound)
    IN IF tenant = Refused THEN Refused ELSE Cardinality(SpansOf(s, tenant))

\* GET /v1/stats and the metrics: numbers of the whole store.
StatsAnswer(s) == <<Cardinality(s.spans), Cardinality(s.files)>>

\* GET /v1/annotations.
AnnotationsAnswer(s, bound, named, experiment) ==
    LET tenant == BindTenant(named, bound)
    IN IF tenant = Refused THEN Refused ELSE SearchAnnotations(s, tenant, experiment)

\* GET /v1/payloads/{reference}: one who is bound must hold the reference.
PayloadAnswer(s, bound, ref) ==
    IF bound # Unbound /\ ~Reachable(s, bound, ref) THEN "404"
    ELSE IF ref \in s.files THEN ref ELSE "404"

\* GET /v1/tenants.
UsageRow(s, tenant) ==
    [tenant |-> tenant, spans |-> Cardinality(SpansOf(s, tenant)),
     payloads |-> SpanRefs(s, tenant)]
TenantUsage(s, scope) == {UsageRow(s, x.tenant) : x \in SpansOf(s, scope)}

\* The overview an agent is given: a bound one has its own row and no totals.
Overview(s, bound) ==
    [usage |-> IF bound = Unbound THEN Cardinality(s.spans) ELSE TenantUsage(s, bound),
     sessions |-> SessionsAnswer(s, bound, Nil), folds |-> FoldAnswer(s, bound, Nil)]

\* The tools of an agent read as the routes do with no tenant named.
CallTool(s, bound, tool) ==
    CASE tool = "describe_store" -> Overview(s, bound)
      [] tool = "search_spans" -> SpansAnswer(s, bound, Nil)
      [] tool = "list_sessions" -> SessionsAnswer(s, bound, Nil)
      [] tool = "analyze_cost" -> FoldAnswer(s, bound, Nil)
      [] OTHER -> "unknown tool"

DatasetView(s, d) == [dataset |-> d, versions |-> {v \in s.versions : v.dataset = d.id},
                      tombstoned |-> {v \in s.tombstones : v.dataset = d.id}]

DatasetsAnswer(s, bound, named) ==
    LET tenant == BindTenant(named, bound)
    IN IF tenant = Refused THEN Refused
       ELSE {DatasetView(s, d) : d \in {e \in s.datasets : Within(e.tenant, tenant)}}

DatasetAnswer(s, bound, id) ==
    LET found == DatasetIn(s, bound, id)
    IN IF found = {} THEN "404" ELSE {DatasetView(s, d) : d \in found}

\* A tombstoned version is gone and says so.
VersionAnswer(s, bound, id, examples) ==
    LET version == [dataset |-> id, examples |-> examples]
    IN IF DatasetIn(s, bound, id) = {} \/ version \notin s.versions THEN "404"
       ELSE IF version \in s.tombstones THEN "410"
       ELSE version

ExperimentView(s, e) == [experiment |-> e, deleted |-> e.version \in s.tombstones,
                         runs |-> Cardinality({r \in s.runs : r.experiment = e.id})]

ExperimentsAnswer(s, bound, named) ==
    LET tenant == BindTenant(named, bound)
    IN IF tenant = Refused THEN Refused
       ELSE {ExperimentView(s, e) : e \in {f \in s.experiments : Within(f.tenant, tenant)}}

ExperimentAnswer(s, bound, id) ==
    LET found == ExperimentIn(s, bound, id)
    IN IF found = {} THEN "404" ELSE {ExperimentView(s, e) : e \in found}

RunsAnswer(s, bound, id) ==
    IF ExperimentIn(s, bound, id) = {} THEN "404" ELSE {r \in s.runs : r.experiment = id}

\* The scores of an experiment are searched by its id, of whatever tenant.
ScoresAnswer(s, bound, id) ==
    IF ExperimentIn(s, bound, id) = {} THEN "404" ELSE SearchAnnotations(s, Nil, id)

SummaryAnswer(s, bound, id) ==
    IF ExperimentIn(s, bound, id) = {} THEN "404"
    ELSE [examples |-> {e.version.examples : e \in ExperimentIn(s, bound, id)},
          scores |-> {n.example : n \in ScoresAnswer(s, bound, id)}]

DiffAnswer(s, bound, base, candidate) ==
    IF \E id \in {base, candidate} : ExperimentIn(s, bound, id) = {} THEN "404"
    ELSE <<ScoresAnswer(s, bound, base), ScoresAnswer(s, bound, candidate)>>

\* The tenant of a subject; a payload has none.
TenantOf(subject) == IF subject.kind = "payload" THEN Nil ELSE subject.tenant

ErasuresAnswer(s, bound) ==
    {e \in s.erasures : bound = Unbound \/ TenantOf(e.subject) = bound}

ErasureAnswer(s, bound, id) ==
    LET found == {e \in ErasuresAnswer(s, bound) : e.id = id}
    IN IF found = {} THEN "404" ELSE found

----------------------------------------------------------------------------
(* Writes.  Each is the outcome of a request: the store after it, and what *)
(* is answered; a refusal changes nothing.                                 *)

Denied(s, status) == [store |-> s, status |-> status]
Done(s) == [store |-> s, status |-> "200"]

\* What names no tenant is the credential's.
Stamp(x, bound) == IF bound # Unbound /\ x.tenant = Default THEN [x EXCEPT !.tenant = bound] ELSE x

Foreign(x, bound) == bound # Unbound /\ x.tenant # bound

\* POST /v1/spans, /v1/traces: one foreign span refuses the batch; the last
\* version of a key stands.
IngestBatch(s, bound, batch) ==
    LET stamped == {Stamp(x, bound) : x \in batch}
        keys == {<<x.tenant, x.trace>> : x \in stamped}
    IN IF \E x \in stamped : Foreign(x, bound) THEN Denied(s, "400")
       ELSE Done([s EXCEPT !.spans = {x \in @ : <<x.tenant, x.trace>> \notin keys} \cup stamped,
                           !.files = @ \cup RefsOf(stamped)])

ValidateScore_AnyTenant(s, note) ==
    \E e \in s.experiments : /\ e.id = note.experiment
                             /\ \E x \in e.version.examples : x.id = note.example

\* A score's experiment exists, is of the score's tenant, and lists the example.
ValidateScore(s, note) ==
    \E e \in s.experiments : /\ e.id = note.experiment
                             /\ e.tenant = note.tenant
                             /\ \E x \in e.version.examples : x.id = note.example

\* POST /v1/annotations, and the tool record_annotation.
Annotate(s, bound, note) ==
    LET stamped == Stamp(note, bound)
    IN IF \/ Foreign(stamped, bound)
          \/ note.experiment # Nil /\ ~ValidateScore(s, stamped)
       THEN Denied(s, "400")
       ELSE Done([s EXCEPT !.notes = @ \cup {stamped}])

NewDataset(s, tenant) ==
    [s EXCEPT !.lastDataset = @ + 1,
              !.datasets = @ \cup {[id |-> s.lastDataset + 1, tenant |-> tenant]}]

CreateDataset(s, bound, named) ==
    LET tenant == BindTenant(named, bound)
    IN IF tenant = Refused THEN Denied(s, Refused)
       ELSE Done(NewDataset(s, IF tenant = Nil THEN Default ELSE tenant))

\* A bound caller may refer only to what its tenant's spans hold, or the
\* dataset's tenant's examples; and the bytes must be there.
MayRefer(s, scope, id, ref) ==
    /\ scope # Unbound =>
           \/ ref \in SpanRefs(s, scope)
           \/ \E d \in s.datasets : d.id = id /\ ref \in ExampleRefs(s, d.tenant)
    /\ ref \in s.files

CreateVersion(s, scope, id, examples) ==
    IF DatasetIn(s, scope, id) = {} THEN Denied(s, "400")
    ELSE IF \E ref \in RefsOf(examples) : ~MayRefer(s, scope, id, ref) THEN Denied(s, "409")
    ELSE Done([s EXCEPT !.versions = @ \cup {[dataset |-> id, examples |-> examples]}])

TombstoneVersion(s, bound, id, examples) ==
    LET version == [dataset |-> id, examples |-> examples]
    IN IF DatasetIn(s, bound, id) = {} \/ version \notin s.versions THEN Denied(s, "400")
       ELSE Done([s EXCEPT !.tombstones = @ \cup {version}])

\* An experiment is of its dataset's tenant.
CreateExperiment(s, bound, id, examples) ==
    LET version == [dataset |-> id, examples |-> examples]
    IN IF DatasetIn(s, bound, id) = {} \/ version \notin s.versions THEN Denied(s, "400")
       ELSE IF version \in s.tombstones THEN Denied(s, "409")
       ELSE Done([s EXCEPT
                !.lastExperiment = @ + 1,
                !.experiments = @ \cup {[id |-> s.lastExperiment + 1, version |-> version,
                                         tenant |-> OwnerOf(s, version)]}])

RecordRun(s, bound, id, example, trace) ==
    IF ~\E e \in ExperimentIn(s, bound, id) : \E x \in e.version.examples : x.id = example
    THEN Denied(s, "400")
    ELSE Done([s EXCEPT !.runs = @ \cup {[experiment |-> id, example |-> example,
                                          trace |-> trace]}])

Covers(subject, x) ==
    CASE subject.kind = "trace" -> x.tenant = subject.tenant /\ x.trace = subject.trace
      [] subject.kind = "tenant" -> x.tenant = subject.tenant
      [] OTHER -> FALSE

\* The eval entities of an erased tenant go with it.
PurgeEvals(s, tenant) ==
    LET gone == {v \in s.versions : OwnerOf(s, v) = tenant}
        lost == {e.id : e \in {f \in s.experiments : f.tenant = tenant}}
    IN [s EXCEPT !.datasets = {d \in @ : d.tenant # tenant},
                 !.versions = @ \ gone,
                 !.tombstones = @ \ gone,
                 !.experiments = {e \in @ : e.tenant # tenant},
                 !.runs = {r \in @ : r.experiment \notin lost}]

\* What a subject's purge leaves: of the payloads it held, those still live.
Purge(s, subject) ==
    LET kept == [s EXCEPT !.spans = {x \in @ : ~Covers(subject, x)},
                          !.notes = {n \in @ : ~Covers(subject, n)}]
        left == IF subject.kind = "tenant" THEN PurgeEvals(kept, subject.tenant) ELSE kept
    IN IF subject.kind = "payload"
       THEN [s EXCEPT !.spans = {[x EXCEPT !.ref = IF @ = subject.ref THEN Nil ELSE @] : x \in @},
                      !.files = @ \ {subject.ref}]
       ELSE [left EXCEPT !.files = @ \ (LiveRefs(s) \ LiveRefs(left))]

\* POST /v1/erasures: a bound admin erases of its tenant, and no payload.
EraseSubject(s, bound, subject) ==
    IF bound # Unbound /\ TenantOf(subject) # bound THEN Denied(s, Refused)
    ELSE Done([Purge(s, subject) EXCEPT
                   !.erasures = @ \cup {[id |-> Cardinality(@) + 1, subject |-> subject]}])

\* promote_failures_to_dataset reads of the tenant that it will write to, for
\* an operator the default one ...
PromoteTenant(bound) == IF bound = Unbound THEN Default ELSE bound

Promotable(s, tenant, trace) ==
    {[id |-> x.trace, ref |-> x.ref, from |-> x.tenant] :
         x \in {y \in SpansOf(s, tenant) : y.trace = trace}}

\* ... and then finds or makes the dataset, and appends the version.
Promote(s, promotion) ==
    LET mine == {d.id : d \in {e \in s.datasets : e.tenant = promotion.tenant}}
        made == IF mine = {} THEN NewDataset(s, promotion.tenant) ELSE s
        id == IF mine = {} THEN made.lastDataset ELSE CHOOSE i \in mine : \A j \in mine : i <= j
    IN CreateVersion(made, promotion.tenant, id, promotion.examples)

----------------------------------------------------------------------------
(* Requests *)

Manifests == {{x} : x \in [id: Traces, ref: Refs \cup {Nil}, from: {Nil}]}

IngestRequests ==
    [op: {"ingest"}, batch: {{x} : x \in Span}
                            \cup {{x, y} : x \in [tenant: {Default}, trace: Traces, ref: {Nil}],
                                           y \in [tenant: Tenants, trace: Traces, ref: {Nil}]}]
NoteRequests ==
    [op: {"annotate"}, note: [tenant: Owners, trace: Traces, experiment: {Nil}, example: {Nil}]
                             \cup [tenant: Owners, trace: {Nil}, experiment: Ids,
                                   example: Traces]]
DatasetRequests == [op: {"dataset"}, named: Owners \cup {Nil}]
VersionRequests == [op: {"version"}, id: Ids, examples: Manifests]
ExperimentRequests == [op: {"experiment"}, id: Ids, examples: Manifests]
RunRequests == [op: {"run"}, id: Ids, example: Traces, trace: Traces]
TombstoneRequests == [op: {"tombstone"}, id: Ids, examples: Manifests]
EraseRequests == [op: {"erase"}, subject: Subject]

WriteRequests == IngestRequests \cup NoteRequests \cup DatasetRequests \cup VersionRequests
                 \cup ExperimentRequests \cup RunRequests \cup TombstoneRequests \cup EraseRequests

ReadRequests ==
    [op: {"spans", "sessions", "folds", "datasets", "experiments"},
     named: Owners \cup {Nil}]
    \cup [op: {"annotations"}, named: Owners \cup {Nil}, experiment: Ids \cup {Nil}]
    \cup [op: {"trace", "session"}, named: Owners \cup {Nil}, trace: Traces]
    \cup [op: {"payload"}, ref: Refs]
    \cup [op: {"getDataset", "getExperiment", "runs", "scores", "summary", "erasure"}, id: Ids]
    \cup [op: {"diff"}, id: Ids, other: Ids]
    \cup [op: {"getVersion"}, id: Ids, examples: Manifests]
    \cup [op: {"tool"}, tool: {"describe_store", "search_spans", "list_sessions", "analyze_cost"}]
    \cup [op: {"tenants", "erasures", "stats"}]

\* What a write does.
Outcome(s, bound, w) ==
    CASE w.op = "ingest" -> IngestBatch(s, bound, w.batch)
      [] w.op = "annotate" -> Annotate(s, bound, w.note)
      [] w.op = "dataset" -> CreateDataset(s, bound, w.named)
      [] w.op = "version" -> CreateVersion(s, bound, w.id, w.examples)
      [] w.op = "experiment" -> CreateExperiment(s, bound, w.id, w.examples)
      [] w.op = "run" -> RecordRun(s, bound, w.id, w.example, w.trace)
      [] w.op = "tombstone" -> TombstoneVersion(s, bound, w.id, w.examples)
      [] w.op = "erase" -> EraseSubject(s, bound, w.subject)

\* What a read answers.
Reply(s, bound, r) ==
    CASE r.op = "spans" -> SpansAnswer(s, bound, r.named)
      [] r.op = "sessions" -> SessionsAnswer(s, bound, r.named)
      [] r.op = "folds" -> FoldAnswer(s, bound, r.named)
      [] r.op = "annotations" -> AnnotationsAnswer(s, bound, r.named, r.experiment)
      [] r.op = "datasets" -> DatasetsAnswer(s, bound, r.named)
      [] r.op = "experiments" -> ExperimentsAnswer(s, bound, r.named)
      [] r.op = "trace" -> TraceAnswer(s, bound, r.named, r.trace)
      [] r.op = "session" -> SessionAnswer(s, bound, r.named, r.trace)
      [] r.op = "payload" -> PayloadAnswer(s, bound, r.ref)
      [] r.op = "getDataset" -> DatasetAnswer(s, bound, r.id)
      [] r.op = "getVersion" -> VersionAnswer(s, bound, r.id, r.examples)
      [] r.op = "getExperiment" -> ExperimentAnswer(s, bound, r.id)
      [] r.op = "runs" -> RunsAnswer(s, bound, r.id)
      [] r.op = "scores" -> ScoresAnswer(s, bound, r.id)
      [] r.op = "summary" -> SummaryAnswer(s, bound, r.id)
      [] r.op = "diff" -> DiffAnswer(s, bound, r.id, r.other)
      [] r.op = "erasure" -> ErasureAnswer(s, bound, r.id)
      [] r.op = "erasures" -> ErasuresAnswer(s, bound)
      [] r.op = "tenants" -> TenantUsage(s, bound)
      [] r.op = "tool" -> CallTool(s, bound, r.tool)
      [] r.op = "stats" -> StatsAnswer(s)

\* What the gate takes a request for.
MethodOf(r) == IF r \in ReadRequests THEN "GET" ELSE "POST"
SurfaceOf(r) == CASE r.op \in {"tombstone", "erase"} -> "destructive"
                  [] r.op = "stats" -> "operator"
                  [] r.op = "tool" -> "mcp"
                  [] OTHER -> "data"

May(p, r) == Authorized(p, MethodOf(r), SurfaceOf(r))

----------------------------------------------------------------------------

\* Both tenants have a trace of one name, with one content, and an experiment.
Busy ==
    LET ref == CHOOSE r \in Refs : TRUE
        examples == {[id |-> CHOOSE t \in Traces : TRUE, ref |-> Nil, from |-> Nil]}
        version(i) == [dataset |-> i, examples |-> examples]
        count == Cardinality(Tenants)
        owner == SetToSeq(Tenants)
    IN [Empty EXCEPT
            !.spans = [tenant: Tenants, trace: Traces, ref: {ref}], !.files = {ref},
            !.datasets = {[id |-> i, tenant |-> owner[i]] : i \in 1 .. count},
            !.versions = {version(i) : i \in 1 .. count},
            !.experiments = {[id |-> i, version |-> version(i), tenant |-> owner[i]] :
                                 i \in 1 .. count},
            !.lastDataset = count, !.lastExperiment = count]

TenancyInit ==
    /\ credentials \in AuthConfigs
    /\ store \in {Empty, Busy}
    /\ promoting = {}
    /\ ops = 0

Serve(p, w) ==
    /\ ops < MaxOps
    /\ May(p, w)
    /\ LET outcome == Outcome(store, p.tenant, w)
       IN /\ outcome.status = "200"
          /\ store' = outcome.store
    /\ store'.lastDataset <= MaxIds
    /\ store'.lastExperiment <= MaxIds
    /\ ops' = ops + 1
    /\ UNCHANGED <<credentials, promoting>>

PromoteReads(p, trace) ==
    /\ ops < MaxOps
    /\ ToolWrites(p)
    /\ Promotable(store, PromoteTenant(p.tenant), trace) # {}
    /\ promoting' = promoting \cup
           {[tenant |-> PromoteTenant(p.tenant),
             examples |-> Promotable(store, PromoteTenant(p.tenant), trace)]}
    /\ ops' = ops + 1
    /\ UNCHANGED <<credentials, store>>

PromoteWrites(promotion) ==
    /\ store' = Promote(store, promotion).store
    /\ store'.lastDataset <= MaxIds
    /\ promoting' = promoting \ {promotion}
    /\ UNCHANGED <<credentials, ops>>

TenancyNext ==
    \/ \E p \in credentials :
          \/ \E w \in IngestRequests : Serve(p, w)
          \/ \E w \in NoteRequests : Serve(p, w)
          \/ \E w \in DatasetRequests : Serve(p, w)
          \/ \E w \in VersionRequests : Serve(p, w)
          \/ \E w \in ExperimentRequests : Serve(p, w)
          \/ \E w \in RunRequests : Serve(p, w)
          \/ \E w \in TombstoneRequests : Serve(p, w)
          \/ \E w \in EraseRequests : Serve(p, w)
          \/ \E trace \in Traces : PromoteReads(p, trace)
    \/ \E promotion \in promoting : PromoteWrites(promotion)

TenancySpec == TenancyInit /\ [][TenancyNext]_tenancyVars

----------------------------------------------------------------------------

\* The part of a store that is a tenant's, with the bytes it can reach.
Only(s, tenant) ==
    LET datasets == {d \in s.datasets : d.tenant = tenant}
        ids == {d.id : d \in datasets}
        experiments == {e \in s.experiments : e.tenant = tenant}
    IN [s EXCEPT !.spans = {x \in @ : x.tenant = tenant},
                 !.notes = {n \in @ : n.tenant = tenant},
                 !.datasets = datasets,
                 !.versions = {v \in @ : v.dataset \in ids},
                 !.tombstones = {v \in @ : v.dataset \in ids},
                 !.experiments = experiments,
                 !.runs = {r \in @ : \E e \in experiments : e.id = r.experiment},
                 !.files = {ref \in @ : Reachable(s, tenant, ref)},
                 !.erasures = {e \in @ : TenantOf(e.subject) = tenant}]

\* Bytes another one erased as content come back if somebody sends them again,
\* and the counters of ids are the store's; nothing else may differ.
Untouched(before, after, tenant) ==
    LET b == Only(before, tenant)
        a == Only(after, tenant)
    IN /\ b.files \subseteq a.files
       /\ [b EXCEPT !.files = {}, !.lastDataset = 0, !.lastExperiment = 0]
          = [a EXCEPT !.files = {}, !.lastDataset = 0, !.lastExperiment = 0]

\* Every answer to a bound credential is the one its tenant's part would give.
ReadsOwn == \A p \in credentials : p.tenant # Unbound =>
    LET own == Only(store, p.tenant)
    IN \A r \in ReadRequests : May(p, r) => Reply(store, p.tenant, r) = Reply(own, p.tenant, r)

\* So is every verdict on its writes, and no other tenant can tell they were made.
WritesOwn == \A p \in credentials : p.tenant # Unbound =>
    LET own == Only(store, p.tenant)
    IN \A w \in WriteRequests : May(p, w) =>
           LET outcome == Outcome(store, p.tenant, w)
           IN /\ outcome.status = Outcome(own, p.tenant, w).status
              /\ IF outcome.status = "200"
                 THEN \A t \in Owners \ {p.tenant} : Untouched(store, outcome.store, t)
                 ELSE outcome.store = store

\* A promoted example is in the tenant it was read from.
PromotionsStayHome == \A v \in store.versions : \A x \in v.examples :
    x.from \in {Nil, OwnerOf(store, v)}

\* A bound credential reads and writes only its tenant's data, on every surface,
\* and no promotion carries data to another tenant (auth.rs, Principal::tenant;
\* mcp.rs, promote_failures).
TenantsStayApart == ReadsOwn /\ WritesOwn /\ PromotionsStayHome
=============================================================================

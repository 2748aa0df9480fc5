------------------------------ MODULE MCEvals -------------------------------
(* Evals and Receipts for TLC.  Evals in three scopes: erasures beside      *)
(* deaths and power losses from an empty log, the same from a log in which  *)
(* two tenants share a body, and mutations that fail, with no erasure.      *)
(* Receipts in five: a subject of each kind.                                *)
EXTENDS Evals

CONSTANTS t1, t2, b1, b2, MaxSpans, MaxCalls, MaxKills

VARIABLES
    part,
    case, record, step, purged, buffer, frames, segments, ring, files, annotations, examples,
    pins, walk, stayed, excused, admitted, calls, kills

Shared == <<Dataset(1, t1), Dataset(2, t2), Example(b1),
            Version(VersionId(1, Nil, {b1}), t1), Version(VersionId(2, Nil, {b1}), t2)>>

MCScopes == {[lines |-> <<>>, outcomes |-> {"ok", "died"}, mutations |-> 4, erasures |-> 1],
             [lines |-> Shared, outcomes |-> {"ok", "died"}, mutations |-> 2, erasures |-> 1],
             [lines |-> <<>>, outcomes |-> {"ok", "failed", "unsynced"}, mutations |-> 4,
              erasures |-> 0]}

\* Two spans of a trace, and a span of another tenant's trace of that name.
Key(tenant, trace, span) == [tenant |-> tenant, trace |-> trace, span |-> span]
One == Key(t1, "t", "1")
Two == Key(t1, "t", "2")
Foreign == Key(t2, "t", "1")

Subject(kind) == [kind |-> kind, tenant |-> t1, trace |-> Nil, span |-> Nil,
                  session |-> Nil, body |-> Nil]
Sent(key, session, body) == [key |-> key, session |-> session, body |-> body]
At(key, session) == [key |-> key, session |-> session]

MCCases == {
    [subject |-> [Subject("trace") EXCEPT !.trace = "t"],
     shapes |-> {Sent(One, Nil, b1), Sent(Foreign, Nil, b1)},
     addresses |-> {At(Key(t1, "t", Nil), Nil)}],
    [subject |-> [Subject("span") EXCEPT !.trace = "t", !.span = "1"],
     shapes |-> {Sent(One, Nil, b1), Sent(Two, Nil, b1)}, addresses |-> {At(One, Nil)}],
    [subject |-> [Subject("session") EXCEPT !.session = "s"],
     shapes |-> {Sent(One, "s", b1), Sent(One, Nil, Nil)},
     addresses |-> {At(One, Nil), At(Key(t1, Nil, Nil), "s")}],
    [subject |-> Subject("tenant"),
     shapes |-> {Sent(One, Nil, b1), Sent(Foreign, Nil, b1)}, addresses |-> {At(One, Nil)}],
    [subject |-> [Subject("payload") EXCEPT !.body = b1],
     shapes |-> {Sent(One, Nil, b1), Sent(Foreign, Nil, Nil)},
     addresses |-> {At(One, Nil)}]}

\* The lines of a log one after the other.
Some == ToSet(Shared) \cup {Dataset(1, t2), Tombstone(VersionId(1, Nil, {b1}), t1), Counters(2, 1),
                           Counters(1, 2)}

ASSUME LinesApplyInOrder ==
    \A first \in Some \cup {Counters(0, 0)}, lines \in UNION {[1 .. n -> Some] : n \in 0 .. 3} :
        LET m == Apply(NoRecords, first) IN ApplyAll(m, lines) = FoldLeft(Apply, m, lines)

Receipt == INSTANCE Receipts WITH notes <- annotations, Cases <- MCCases, None <- Nil

receiptVars == <<case, record, step, purged, buffer, frames, segments, ring, files, annotations,
                 examples, pins, walk, stayed, excused, admitted, calls, kills>>

MCInit ==
    /\ EvalsInit /\ Receipt!Init
    /\ \/ part = "evals" /\ case = CHOOSE c \in MCCases : TRUE
       \/ part = "receipts" /\ scope = CHOOSE s \in MCScopes : TRUE

MCNext ==
    /\ \/ part = "evals" /\ EvalsNext /\ UNCHANGED receiptVars
       \/ part = "receipts" /\ Receipt!Next /\ UNCHANGED evalsVars
    /\ UNCHANGED part

MCSpec == MCInit /\ [][MCNext]_<<evalsVars, receiptVars, part>>

\* The receipt of an erasure agrees with what its purge left (Receipts.tla;
\* Store::verify_erasure).
ReceiptsAreTrue == Receipt!ReceiptsAreTrue
=============================================================================

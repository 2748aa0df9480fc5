----------------------------- MODULE MCServing ------------------------------
(* Serving for TLC, in two scopes: two clients with every kind of request  *)
(* and hardly a span, and one client on a tail with a ring that turns over.*)
(* Tenancy: an operator, two tenants with a trace of one name, and each    *)
(* scope of a credential.                                                  *)
EXTENDS Serving, Tenancy, TLC

CONSTANTS c1, c2, k1, k2, ta, tb

VARIABLE part

R(route, keep, body) == [route |-> route, keep |-> keep, body |-> body]

Connections ==
    [requests |-> (c1 :> {R("call", TRUE, FALSE), R("call", TRUE, TRUE), R("asset", FALSE, FALSE),
                          R("asset", TRUE, TRUE), R("denied", TRUE, TRUE), R("garbled", TRUE, FALSE),
                          R("panic", TRUE, FALSE)})
                  @@ (c2 :> {R("call", FALSE, FALSE), R("tail", TRUE, FALSE)}),
     sent |-> (c1 :> 2) @@ (c2 :> 1), spans |-> 1, veils |-> 0, restarts |-> 0]

Subscription ==
    [requests |-> (c1 :> {R("tail", TRUE, FALSE)}) @@ (c2 :> {}),
     sent |-> (c1 :> 1) @@ (c2 :> 0), spans |-> 3, veils |-> 1, restarts |-> 1]

KeptAssets == [Connections EXCEPT !.requests[c1] = {R("asset", TRUE, FALSE)}]

Both == {Connections, Subscription}
OnlyAssets == {KeptAssets}

One(k, w) == <<[key |-> k, weight |-> w]>>
MCBatches == {One(k1, 1), One(k2, 1), One(k1, 2), One(k1, 1) \o One(k2, 1)}
MCSubjects == {{k1}}

\* A batch pushed whole leaves the ring as its spans pushed one by one do.
ASSUME PushedOneByOne ==
    \A ring \in [first: {0, 1}, entries: UNION {[1 .. n -> Spans] : n \in 0 .. 2},
                 veils: SUBSET [keys: {{k1}}, below: 1 .. 3]],
       batch \in UNION {[1 .. n -> Spans] : n \in 1 .. 2} :
        (ring.entries # <<>> => Excess(ring.entries) = 0)
        => Push(ring, batch) = FoldLeft(LAMBDA r, s : Push(r, <<s>>), ring, batch)

Credential(s, t) == [scope |-> s, tenant |-> t]

\* Without tokens everybody is an operator.
Open == {Credential("admin", Unbound)}
Bound == {Credential("admin", Unbound), Credential("admin", ta), Credential("rw", tb),
          Credential("ro", ta)}
MCAuthConfigs == {Open, Bound}

MCInit ==
    /\ Init /\ TenancyInit
    /\ \/ part = "serving" /\ credentials = Open /\ store = Empty
       \/ part = "tenancy" /\ credentials = Bound /\ scope = Connections

MCNext ==
    /\ \/ part = "serving" /\ Next /\ UNCHANGED tenancyVars
       \/ part = "tenancy" /\ TenancyNext /\ UNCHANGED vars
    /\ UNCHANGED part

MCSpec == MCInit /\ [][MCNext]_<<vars, tenancyVars, part>>
=============================================================================

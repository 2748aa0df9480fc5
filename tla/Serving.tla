------------------------------ MODULE Serving -------------------------------
(***************************************************************************)
(* The connections of the server (src/src/bin/traza-server.rs): slots and  *)
(* refusals, requests that share one socket, and the stream of the live    *)
(* tail (TailRing), whose connection is its subscription.                  *)
(*                                                                         *)
(* Bytes are tokens: the head of a request and its body arrive one after   *)
(* the other, and what matters is which of them the next read takes for a  *)
(* head.  What a handler answers is left out, except to which request.     *)
(* The 400 that ends a timed-out or cut-off connection is not recorded.    *)
(***************************************************************************)
EXTENDS TailRing

CONSTANTS
    Clients,
    Scopes,         \* what is explored together, with its bounds: the requests of each
                    \* client, how many it sends, and of how many spans, veils, restarts
    MaxConnections, \* --max-connections
    MaxRefusals,    \* MAX_REFUSAL_THREADS
    MaxRequests,    \* MAX_REQUESTS_PER_CONNECTION
    Batches,        \* what an ingest publishes at once
    Subjects,       \* the sets of keys an erasure veils
    Backfill, Limit, Wanted,  \* of the tails: backlog, frame size, filter
    MaxConnects     \* bound: connections made

VARIABLES
    scope,
    conn,      \* the connection of each client
    heard,     \* what each client has from the tail
    live,      \* connections_live
    refusals,  \* refusal threads
    connects   \* bound: connections made

webVars == <<scope, conn, heard, live, refusals, connects>>

vars == <<tailVars, webVars>>

Routes == {"asset", "denied", "garbled", "call", "panic", "tail"}

Request == [route: Routes, keep: BOOLEAN, body: BOOLEAN]

ASSUME ServingAssumption ==
    /\ \A s \in Scopes : /\ s.requests \in [Clients -> SUBSET Request]
                        /\ s.sent \in [Clients -> Nat]
                        /\ s.spans \in 0 .. MaxSpans
                        /\ s.veils \in 0 .. MaxVeils
                        /\ s.restarts \in Nat
    /\ MaxConnections \in Nat \ {0}
    /\ MaxRefusals \in Nat
    /\ MaxRequests \in Nat \ {0}
    /\ Limit \in Nat \ {0}
    /\ Backfill \in Nat
    /\ Batches \subseteq Seq(Spans) \ {<<>>}
    /\ Subjects \subseteq SUBSET Keys
    /\ None \notin [epoch: Nat, seq: Nat]

\* The handler of a connection is at one of these, and holds a slot.
Handling == {"head", "body", "serve", "read", "asleep", "frame", "leaving"}

Fresh == [at |-> "queued", socket |-> <<>>, buffer |-> <<>>, owes |-> FALSE, hungup |-> FALSE,
          sent |-> 0, served |-> 0, answers |-> <<>>, request |-> None,
          cursor |-> None, opening |-> 0, frame |-> None]

Away == [Fresh EXCEPT !.at = "away"]

Nothing == [token |-> None, base |-> None, got |-> <<>>]

Init ==
    /\ TailInit
    /\ scope \in Scopes
    /\ conn = [c \in Clients |-> Away]
    /\ heard = [c \in Clients |-> Nothing]
    /\ live = 0
    /\ refusals = 0
    /\ connects = 0

At(c, place) == conn[c].at = place

Become(c, state) == conn' = [conn EXCEPT ![c] = state]

Goto(c, place) == Become(c, [conn[c] EXCEPT !.at = place])

KeepsTail == UNCHANGED <<tailVars, heard>>

Here == UNCHANGED <<tailVars, scope, heard, live, refusals, connects>>

----------------------------------------------------------------------------
(* Clients.                                                                *)

Connect(c) ==
    /\ At(c, "away")
    /\ scope.sent[c] > 0
    /\ connects < MaxConnects
    /\ connects' = connects + 1
    /\ Become(c, Fresh)
    /\ UNCHANGED <<tailVars, scope, heard, live, refusals>>

Present(c) == ~At(c, "away") /\ ~conn[c].hungup

\* The head of the next request; a tail may carry the last cursor received.
Send(c, r) ==
    /\ Present(c)
    /\ ~conn[c].owes
    /\ conn[c].sent < scope.sent[c]
    /\ \E cursor \in IF r.route = "tail" THEN {None, heard[c].token} ELSE {None} :
          Become(c, [conn[c] EXCEPT !.sent = @ + 1, !.owes = r.body,
                        !.socket = Append(@, [part |-> "head", of |-> conn[c].sent + 1,
                                              request |-> r, cursor |-> cursor])])
    /\ Here

SendBody(c) ==
    /\ Present(c)
    /\ conn[c].owes
    /\ Become(c, [conn[c] EXCEPT !.owes = FALSE,
                     !.socket = Append(@, [part |-> "body", of |-> conn[c].sent])])
    /\ Here

HangUp(c) ==
    /\ Present(c)
    /\ Become(c, [conn[c] EXCEPT !.hungup = TRUE])
    /\ Here

----------------------------------------------------------------------------
(* The accept loop.                                                        *)

\* A slot is claimed before the handler is spawned; a spawn that fails drops
\* the closure, and with it the stream and the guard.
Accept(c) ==
    /\ At(c, "queued")
    /\ IF live < MaxConnections
       THEN /\ \/ Goto(c, "head") /\ live' = live + 1
               \/ Become(c, Away) /\ UNCHANGED live
            /\ UNCHANGED refusals
       ELSE /\ \/ refusals < MaxRefusals /\ Goto(c, "refusing") /\ refusals' = refusals + 1
               \/ Become(c, Away) /\ UNCHANGED refusals
            /\ UNCHANGED live
    /\ UNCHANGED <<tailVars, scope, heard, connects>>

\* refuse_connection ends by its deadline.
EndRefusal(c) ==
    /\ At(c, "refusing")
    /\ Become(c, Away)
    /\ refusals' = refusals - 1
    /\ UNCHANGED <<tailVars, scope, heard, live, connects>>

----------------------------------------------------------------------------
(* handle_connection.                                                      *)

\* What read_body waits for: the head it parsed and, if there is one, the body.
Needed(c) == IF Head(conn[c].buffer).request.body THEN 2 ELSE 1

Waiting(c) ==
    \/ At(c, "head") /\ conn[c].served < MaxRequests /\ conn[c].buffer = <<>>
    \/ At(c, "body") /\ Len(conn[c].buffer) < Needed(c)

\* A read takes whatever has arrived, up to the size of its chunk.
Receive(c) ==
    /\ Waiting(c)
    /\ \E n \in 1 .. Len(conn[c].socket) :
          Become(c, [conn[c] EXCEPT !.buffer = @ \o SubSeq(conn[c].socket, 1, n),
                                    !.socket = SubSeq(@, n + 1, Len(@))])
    /\ Here

\* The peer is gone, or was silent for the socket timeout.
EndOfInput(c) ==
    /\ Waiting(c)
    /\ conn[c].socket = <<>>
    /\ Goto(c, "leaving")
    /\ Here

\* The connection has carried all the requests it may.
Recycle(c) ==
    /\ At(c, "head")
    /\ conn[c].served = MaxRequests
    /\ Goto(c, "leaving")
    /\ Here

\* The answer to the request at the front, and whether the connection goes on.
Answer(c, keep) ==
    Become(c, [conn[c] EXCEPT !.answers = Append(@, Head(conn[c].buffer).of),
                              !.served = @ + 1,
                              !.at = IF keep THEN "head" ELSE "leaving"])

FrontIs(c, routes) ==
    LET t == Head(conn[c].buffer) IN t.part = "head" /\ t.request.route \in routes

AtFront(c) == At(c, "head") /\ conn[c].served < MaxRequests /\ conn[c].buffer # <<>>

\* parse_head refuses: where the body ends is unknown.
RefuseHead(c) ==
    /\ AtFront(c)
    /\ Head(conn[c].buffer).part = "body" \/ FrontIs(c, {"garbled"})
    /\ Answer(c, FALSE)
    /\ Here

\* The dashboard is served before the token is looked at and before the body is
\* read, so a request that has one closes the connection.  The head stays in
\* the buffer: only read_body drains.
ServeAsset(c) ==
    /\ AtFront(c)
    /\ FrontIs(c, {"asset"})
    /\ LET r == Head(conn[c].buffer).request IN Answer(c, r.keep /\ ~r.body)
    /\ Here

\* The verdict needs the head only, so the body is never read.
Reject(c) ==
    /\ AtFront(c)
    /\ FrontIs(c, {"denied"})
    /\ Answer(c, FALSE)
    /\ Here

Admit(c) ==
    /\ AtFront(c)
    /\ FrontIs(c, {"call", "panic", "tail"})
    /\ Goto(c, "body")
    /\ Here

\* Mutant: only the head leaves the buffer.
ReadBody_HeadOnly(c) ==
    /\ At(c, "body")
    /\ ~Waiting(c)
    /\ Become(c, [conn[c] EXCEPT !.at = "serve", !.request = Head(conn[c].buffer),
                                 !.buffer = SubSeq(@, 2, Len(@))])
    /\ Here

\* read_body consumes the whole request; what is left is the next one's.
ReadBody(c) ==
    /\ At(c, "body")
    /\ ~Waiting(c)
    /\ Become(c, [conn[c] EXCEPT !.at = "serve", !.request = Head(conn[c].buffer),
                                 !.buffer = SubSeq(@, Needed(c) + 1, Len(@))])
    /\ Here

\* serve_request of an ordinary call; a write to a client that left ends it.
ServeCall(c) ==
    /\ At(c, "serve")
    /\ conn[c].request.request.route = "call"
    /\ Become(c, [conn[c] EXCEPT !.answers = Append(@, conn[c].request.of),
                                 !.served = @ + 1,
                                 !.at = IF conn[c].request.request.keep /\ ~conn[c].hungup
                                        THEN "head" ELSE "leaving"])
    /\ Here

\* The handler unwinds.
Panic(c) ==
    /\ At(c, "serve")
    /\ conn[c].request.request.route = "panic"
    /\ Goto(c, "leaving")
    /\ Here

\* The socket is closed by now; the guard gives the slot back.
Release(c) ==
    /\ At(c, "leaving")
    /\ Become(c, Away)
    /\ live' = live - 1
    /\ UNCHANGED <<tailVars, scope, heard, refusals, connects>>

----------------------------------------------------------------------------
(* stream_tail and TailChannel::wait.                                      *)

\* The connection is the subscription: it closes when the stream ends.
ServeTail(c) ==
    /\ At(c, "serve")
    /\ conn[c].request.request.route = "tail"
    /\ Become(c, [Fresh EXCEPT !.at = "read", !.hungup = conn[c].hungup, !.sent = scope.sent[c],
                                !.answers = Append(conn[c].answers, conn[c].request.of),
                                !.cursor = conn[c].request.cursor, !.opening = Backfill])
    /\ heard' = [heard EXCEPT ![c] = IF conn[c].request.cursor = None THEN Nothing ELSE @]
    /\ UNCHANGED <<tailVars, scope, live, refusals, connects>>

Framed(c, read) == Become(c, [conn[c] EXCEPT !.at = "frame", !.opening = 0, !.frame = read])

\* Mutant: the first thing a subscriber does is wait.
ReadTail_SleepFirst(c) ==
    /\ At(c, "read")
    /\ IF conn[c].cursor # None
       THEN Goto(c, "asleep")
       ELSE Framed(c, Read(None, conn[c].opening, Limit, Wanted))
    /\ signalled' = signalled \ {c}
    /\ UNCHANGED <<epoch, first, entries, veils, unsignalled, erased, admitted>>
    /\ UNCHANGED <<scope, heard, live, refusals, connects>>

\* Read before waiting: a gap, an opening, or an advance is a frame at once;
\* otherwise the mutex is given up and the wait begun in one step.
ReadTail(c) ==
    /\ At(c, "read")
    /\ LET read == Read(conn[c].cursor, conn[c].opening, Limit, Wanted) IN
       IF read.gap \/ conn[c].cursor = None \/ read.cursor # conn[c].cursor
       THEN Framed(c, read)
       ELSE Goto(c, "asleep")
    /\ signalled' = signalled \ {c}
    /\ UNCHANGED <<epoch, first, entries, veils, unsignalled, erased, admitted>>
    /\ UNCHANGED <<scope, heard, live, refusals, connects>>

\* A signal or the heartbeat: read once more, without the backlog.
Wake(c) ==
    /\ At(c, "asleep")
    /\ Framed(c, Read(conn[c].cursor, 0, Limit, Wanted))
    /\ UNCHANGED <<tailVars, scope, heard, live, refusals, connects>>

\* What a client makes of a frame.
Hear(c, frame) ==
    heard' = [heard EXCEPT ![c] =
        IF frame.gap THEN Nothing
        ELSE [token |-> frame.cursor,
              base |-> IF @.token = None THEN frame.from ELSE @.base,
              got |-> IF frame.spans = {} THEN @.got ELSE Append(@.got, frame.spans)]]

\* After a gap the stream starts over, with the backlog the client asked for.
WriteFrame(c) ==
    /\ At(c, "frame")
    /\ ~conn[c].hungup
    /\ LET frame == conn[c].frame IN
       /\ Hear(c, frame)
       /\ Become(c, [conn[c] EXCEPT !.at = "read", !.frame = None,
                                    !.cursor = IF frame.gap THEN None ELSE frame.cursor,
                                    !.opening = IF frame.gap THEN Backfill ELSE 0])
    /\ UNCHANGED <<tailVars, scope, live, refusals, connects>>

\* The write fails: the client left, or stalled past the socket timeout.
LoseTail(c) ==
    /\ At(c, "frame")
    /\ Goto(c, "leaving")
    /\ Here

----------------------------------------------------------------------------
(* The store behind the connections.                                       *)

Ingest(batch) ==
    /\ Len(admitted) + Len(batch) <= scope.spans
    /\ ~unsignalled
    /\ Publish(batch)
    /\ UNCHANGED webVars

SignalTails ==
    /\ Notify({c \in Clients : At(c, "asleep")})
    /\ UNCHANGED webVars

Erase(keys) ==
    /\ Cardinality(veils) < scope.veils
    /\ Veil(keys)
    /\ UNCHANGED webVars

\* Connections, ring and numbering end with the process; cursors do not.
Restart ==
    /\ epoch < scope.restarts
    /\ epoch' = epoch + 1
    /\ first' = 0 /\ entries' = <<>> /\ veils' = {}
    /\ signalled' = {} /\ unsignalled' = FALSE
    /\ erased' = [k \in Keys |-> 0] /\ admitted' = <<>>
    /\ conn' = [c \in Clients |-> Away]
    /\ live' = 0 /\ refusals' = 0
    /\ UNCHANGED <<scope, heard, connects>>

----------------------------------------------------------------------------

Handler(c) ==
    \/ Receive(c) \/ EndOfInput(c) \/ Recycle(c) \/ RefuseHead(c) \/ ServeAsset(c)
    \/ Reject(c) \/ Admit(c) \/ ReadBody(c) \/ ServeCall(c) \/ Panic(c) \/ Release(c)
    \/ ServeTail(c) \/ ReadTail(c) \/ Wake(c) \/ WriteFrame(c) \/ LoseTail(c)

Client(c) ==
    \/ Connect(c) \/ SendBody(c) \/ HangUp(c)
    \/ \E r \in scope.requests[c] : Send(c, r)

Next ==
    \/ \E c \in Clients : Client(c) \/ Accept(c) \/ EndRefusal(c) \/ Handler(c)
    \/ \E batch \in Batches : Ingest(batch)
    \/ \E keys \in Subjects : Erase(keys)
    \/ SignalTails
    \/ Restart

Spec == Init /\ [][Next]_vars

----------------------------------------------------------------------------

TypeOK ==
    /\ TailTypeOK
    /\ \A c \in Clients : conn[c].at \in Handling \cup {"away", "queued", "refusing"}
    /\ DOMAIN heard = Clients
    /\ live = Cardinality({c \in Clients : conn[c].at \in Handling})
    /\ live <= MaxConnections
    /\ refusals = Cardinality({c \in Clients : At(c, "refusing")})
    /\ refusals <= MaxRefusals
    /\ connects \in 0 .. MaxConnects

(* The responses on a connection are to its requests, each once and in     *)
(* order, whatever was pipelined, refused or cut short: no body is ever    *)
(* read as a request (Connection::read_body, body_is_unread, must_close).  *)
AnswersInOrder ==
    \A c \in Clients : conn[c].at \in Handling =>
        \A i \in DOMAIN conn[c].answers : conn[c].answers[i] = i

(* As long as a client holds a cursor of this process, it has every span   *)
(* admitted since its stream began that matches its filter and was not     *)
(* erased, once and frame after frame in admission order, over any number  *)
(* of frames, sleeps and reconnections: what it lost it was told of by a   *)
(* gap.                                                                    *)
NothingSkipped ==
    \A c \in Clients : heard[c].token # None /\ heard[c].token.epoch = epoch =>
        LET frames == heard[c].got
            got == UNION ToSet(frames)
            passed == heard[c].base .. heard[c].token.seq - 1 IN
        /\ \A i, j \in DOMAIN frames : i < j => \A a \in frames[i], b \in frames[j] : a < b
        /\ got \subseteq passed
        /\ \A q \in passed \ got : admitted[q + 1] \notin Wanted \/ q < erased[admitted[q + 1]]

(* A subscriber misses nothing silently, and what an erasure veiled stays  *)
(* veiled to it (tail_after, stream_tail, TailRing::veil).                 *)
TailIsHonest == NothingSkipped /\ VeilsOutlastEntries

(* A subscriber is not left to its heartbeat when there is news: whenever  *)
(* one sleeps behind the head of the ring, it has been signalled or is     *)
(* about to be (TailChannel::wait reads before it waits).                  *)
NoSleeperMissesNews ==
    \A c \in Clients : At(c, "asleep") /\ conn[c].cursor.seq < NextSeq
        => c \in signalled \/ unsignalled

=============================================================================

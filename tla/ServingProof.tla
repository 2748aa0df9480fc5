---------------------------- MODULE ServingProof ----------------------------
(***************************************************************************)
(* What a subscriber of the live tail and a client of the server can rely  *)
(* on, proved for every ring, every filter and every pipelining (Serving): *)
(* a stream skips nothing in silence (RingInv, StreamInv), no sleeper is   *)
(* behind the ring unsignalled (SleepInv), and the answers on a connection *)
(* are to its requests in order (AnswerInv), as long as no request for a   *)
(* part of the dashboard carries a keep-alive.  And what a tenant can rely *)
(* on, for all tenants, credentials and requests (Tenancy): what is kept   *)
(* of it is linked within its part of the store (TenancyInv), so that its  *)
(* requests are answered from that part and change no other.               *)
(***************************************************************************)
EXTENDS Serving, Tenancy, TLAPS, FiniteSetTheorems, WellFoundedInduction

----------------------------------------------------------------------------
(* The ring.                                                               *)

RingTypes ==
    /\ epoch \in Nat
    /\ first \in Nat
    /\ entries \in Seq(Spans)
    /\ admitted \in Seq(Keys)
    /\ veils \subseteq [keys: SUBSET Keys, below: Nat]
    /\ erased \in [Keys -> Nat]

\* Position by position, the ring is the newest part of what was admitted.
EntriesAreAdmitted ==
    /\ NextSeq = Len(admitted)
    /\ \A i \in 1 .. Len(entries) : entries[i].key = admitted[first + i]

\* A veil hides nothing but what was erased ...
VeilsAreErasures ==
    /\ \A k \in Keys : erased[k] <= NextSeq
    /\ \A v \in veils : \A k \in v.keys : v.below <= erased[k]

\* ... and no erasure that still covers an entry is without one.
ErasuresAreVeiled ==
    \A k \in Keys : first < erased[k] => \E v \in veils : k \in v.keys /\ erased[k] <= v.below

RingInv == RingTypes /\ EntriesAreAdmitted /\ VeilsAreErasures /\ ErasuresAreVeiled

----------------------------------------------------------------------------
(* The connections.                                                        *)

Cursors == [epoch: Nat, seq: Nat]

Tokens == [part: {"head"}, of: Nat, request: Request, cursor: Cursors \cup {None}]
          \cup [part: {"body"}, of: Nat]

Frames == [gap: {TRUE}, missed: Int \cup {None}]
          \cup [gap: {FALSE}, spans: SUBSET Nat, from: Nat, cursor: Cursors]

Connection == [at: Handling \cup {"away", "queued", "refusing"},
               socket: Seq(Tokens), buffer: Seq(Tokens), owes: BOOLEAN, hungup: BOOLEAN,
               sent: Nat, served: Nat, answers: Seq(Nat), request: Tokens \cup {None},
               cursor: Cursors \cup {None}, opening: Nat, frame: Frames \cup {None}]

Hearing == [token: Cursors \cup {None}, base: Nat \cup {None}, got: Seq(SUBSET Nat)]

WebTypes ==
    /\ scope \in Scopes
    /\ conn \in [Clients -> Connection]
    /\ heard \in [Clients -> Hearing]

\* What a connection has received of its client and not yet served, and is to receive.
Unserved(k) == k.buffer \o k.socket

----------------------------------------------------------------------------
(* What a subscriber was told.                                             *)

\* The positions that may be left out: unwanted, or erased since.
Excused(q) == admitted[q + 1] \notin Wanted \/ q < erased[admitted[q + 1]]

\* Between two positions, what is not in a set may be left out.
Complete(got, from, upto) ==
    /\ got \subseteq from .. upto - 1
    /\ \A q \in (from .. upto - 1) \ got : Excused(q)

InFrames(frames) == UNION {frames[i] : i \in DOMAIN frames}

\* Frame after frame, in admission order.
Ascending(frames) ==
    \A i, j \in DOMAIN frames : i < j => \A a \in frames[i], b \in frames[j] : a < b

\* A client with a cursor of this process has all of the ring's past up to it.
IsWhole(h) ==
    /\ h.token = None => h.got = <<>>
    /\ h.token # None => h.token.epoch <= epoch
    /\ h.token # None /\ h.token.epoch = epoch =>
          /\ h.base \in Nat /\ h.base <= h.token.seq /\ h.token.seq <= NextSeq
          /\ Ascending(h.got)
          /\ Complete(InFrames(h.got), h.base, h.token.seq)

\* A connection that is not yet a stream.
Unanswered == {"queued", "head", "body", "serve"}

\* The stream goes on where the client was left, whoever asked for it.
Resumes(k, token) ==
    /\ k.at \in {"read", "asleep", "frame"} => k.cursor = token
    /\ k.at \in Unanswered =>
          \A i \in DOMAIN Unserved(k) : Unserved(k)[i].part = "head" =>
              Unserved(k)[i].cursor \in {None, token}
    /\ k.at = "body" => k.buffer # <<>> /\ Unserved(k) # <<>> /\ Unserved(k)[1].part = "head"
    /\ k.at = "serve" => /\ k.request \in Tokens /\ k.request.part = "head"
                         /\ k.request.cursor \in {None, token}

\* A frame is what the ring held from the cursor on, but for later erasures.
FrameIsWhole(frame, cursor) ==
    /\ frame \in Frames
    /\ ~frame.gap =>
          /\ frame.cursor.epoch = epoch
          /\ frame.from <= frame.cursor.seq /\ frame.cursor.seq <= NextSeq
          /\ cursor # None => cursor.epoch = epoch /\ frame.from = cursor.seq
          /\ Complete(frame.spans, frame.from, frame.cursor.seq)

\* Who sleeps has a cursor of this process, at the head of the ring unless a
\* signal is there or on its way.
SleepsWell(k, roused) ==
    k.at = "asleep" => /\ k.cursor # None
                       /\ k.cursor.epoch = epoch
                       /\ k.cursor.seq < NextSeq => roused

StreamInv ==
    \A c \in Clients :
        /\ IsWhole(heard[c])
        /\ Resumes(conn[c], heard[c].token)
        /\ At(c, "frame") => FrameIsWhole(conn[c].frame, conn[c].cursor)

SleepInv == \A c \in Clients : SleepsWell(conn[c], c \in signalled \/ unsignalled)

----------------------------------------------------------------------------
(* What a connection answers.                                              *)

\* No request for a part of the dashboard asks to keep its connection.
NoKeptAssets ==
    \A s \in Scopes, c \in Clients : \A r \in s.requests[c] :
        r.route = "asset" => ~r.keep \/ r.body

\* Requests follow each other, the body right behind the head that announces it.
Follows(t, s) ==
    IF t.part = "head" /\ t.request.body THEN s.part = "body" /\ s.of = t.of
                                         ELSE s.part = "head" /\ s.of = t.of + 1

\* What is unserved is the requests from the n-th on, up to the last one sent, the
\* body of which may be owed.
RequestsFrom(u, n, sent, owes) ==
    /\ \A i \in 1 .. Len(u) - 1 : Follows(u[i], u[i + 1])
    /\ u = <<>> => sent + 1 = n /\ ~owes
    /\ u # <<>> => /\ u[1].part = "head" /\ u[1].of = n
                   /\ u[Len(u)].of = sent
                   /\ owes <=> (u[Len(u)].part = "head" /\ u[Len(u)].request.body)

\* The head a connection works on is that of the request after the last one answered.
Answers(k, requests) ==
    LET n == Len(k.answers) IN
    /\ \A i \in 1 .. n : k.answers[i] = i
    /\ k.at \in {"queued", "head", "body"} => RequestsFrom(Unserved(k), n + 1, k.sent, k.owes)
    /\ k.at = "serve" => /\ k.request.of = n + 1
                        /\ RequestsFrom(Unserved(k), n + 2, k.sent, k.owes)
    /\ \A i \in DOMAIN Unserved(k) :
          Unserved(k)[i].part = "head" => Unserved(k)[i].request \in requests

AnswerInv == \A c \in Clients : Answers(conn[c], scope.requests[c])

----------------------------------------------------------------------------
(* Numbers.                                                                *)

\* A set of numbers has a least one.
LEMMA LeastNat ==
    ASSUME NEW T, T \subseteq Nat, T # {}
    PROVE  \E m \in T : \A n \in T : m <= n
<1> DEFINE Below == {ss \in Nat \X Nat : ss[1] < ss[2]}
<1>1. IsWellFoundedOn(Below, Nat)
  BY NatLessThanWellFounded DEF OpToRel
<1> HIDE DEF Below
<1>2. PICK x \in T : \A y \in T : <<y, x>> \notin Below
  BY <1>1, WFMin
<1>3. ASSUME NEW y \in T PROVE x <= y
  <2>1. <<y, x>> \in Nat \X Nat /\ <<y, x>>[1] = y /\ <<y, x>>[2] = x
    OBVIOUS
  <2>2. ~(y < x)
    BY <1>2, <2>1 DEF Below
  <2> QED BY <2>2
<1> QED BY <1>3

\* What Min takes from a set of numbers.
LEMMA MinIsLeast ==
    ASSUME NEW T, T \subseteq Nat, T # {}
    PROVE  Min(T) \in T /\ \A n \in T : Min(T) <= n
BY LeastNat DEF Min

\* What Max takes from a set of numbers that has a bound.
LEMMA MaxIsGreatest ==
    ASSUME NEW T, T \subseteq Nat, T # {}, NEW b \in Nat, \A n \in T : n <= b
    PROVE  Max(T) \in T /\ \A n \in T : n <= Max(T)
<1> DEFINE U == {b - n : n \in T}
<1>1. U \subseteq Nat /\ U # {}
  <2>1. \A n \in T : b - n \in Nat
    OBVIOUS
  <2>2. \A u \in U : u \in Nat
    BY <2>1
  <2>3. PICK n \in T : TRUE
    OBVIOUS
  <2>4. b - n \in U
    BY <2>3
  <2> QED BY <2>2, <2>4
<1>2. PICK m \in U : \A u \in U : m <= u
  <2> HIDE DEF U
  <2> QED BY <1>1, LeastNat
<1>3. PICK x \in T : m = b - x
  BY <1>2
<1>4. ASSUME NEW n \in T PROVE n <= x
  <2>1. b - x <= b - n
    BY <1>2, <1>3
  <2> QED BY <2>1
<1> QED BY <1>4 DEF Max

\* The greater of two numbers.
LEMMA MaxOfTwo ==
    ASSUME NEW a \in Int, NEW b \in Int
    PROVE  Max({a, b}) \in {a, b} /\ a <= Max({a, b}) /\ b <= Max({a, b})
<1>1. \E x \in {a, b} : \A y \in {a, b} : x >= y
  <2>1. CASE a >= b
    BY <2>1
  <2>2. CASE ~(a >= b)
    BY <2>2
  <2> QED BY <2>1, <2>2
<1> QED BY <1>1 DEF Max

----------------------------------------------------------------------------
(* Reading the ring.                                                       *)

\* What the shape of the ring says of its counters.
LEMMA RingShape ==
    ASSUME RingTypes, EntriesAreAdmitted
    PROVE  /\ Len(entries) \in Nat /\ NextSeq \in Nat /\ first <= NextSeq
           /\ NextSeq = first + Len(entries) /\ Len(admitted) = NextSeq
           /\ \A q \in first .. NextSeq - 1 : /\ entries[q - first + 1] \in Spans
                                              /\ entries[q - first + 1].key = admitted[q + 1]
                                              /\ admitted[q + 1] \in Keys
<1>1. Len(entries) \in Nat /\ Len(admitted) \in Nat
  BY DEF RingTypes
<1>2. NextSeq = first + Len(entries) /\ Len(admitted) = NextSeq
  BY DEF EntriesAreAdmitted, NextSeq
<1>3. ASSUME NEW q \in first .. NextSeq - 1
      PROVE  /\ entries[q - first + 1] \in Spans
             /\ entries[q - first + 1].key = admitted[q + 1]
             /\ admitted[q + 1] \in Keys
  <2> DEFINE i == q - first + 1
  <2>1. i \in 1 .. Len(entries) /\ first + i = q + 1 /\ q + 1 \in 1 .. Len(admitted)
    BY <1>1, <1>2 DEF RingTypes
  <2>2. entries[i] \in Spans /\ admitted[q + 1] \in Keys
    BY <2>1 DEF RingTypes
  <2>3. entries[i].key = admitted[first + i]
    BY <2>1 DEF EntriesAreAdmitted
  <2> QED BY <2>1, <2>2, <2>3
<1> QED BY <1>1, <1>2, <1>3 DEF RingTypes

\* A retained span that is erased is veiled.
LEMMA ErasedIsVeiled ==
    ASSUME RingInv
    PROVE  VeilsOutlastEntries
<1> SUFFICES ASSUME NEW i \in DOMAIN entries, NEW q, q = first + i - 1, q < erased[entries[i].key]
             PROVE  Veiled(q, entries[i])
  BY DEF VeilsOutlastEntries
<1> DEFINE k == entries[i].key
<1>1. i \in 1 .. Len(entries) /\ entries[i] \in Spans /\ k \in Keys
  <2>1. entries \in Seq(Spans)
    BY DEF RingInv, RingTypes
  <2>2. i \in 1 .. Len(entries) /\ entries[i] \in Spans
    BY <2>1
  <2> QED BY <2>2 DEF Spans
<1>2. first <= q /\ q \in Nat /\ erased[k] \in Nat
  BY <1>1 DEF RingInv, RingTypes
<1>3. first < erased[k]
  BY <1>2 DEF RingInv, RingTypes
<1>4. PICK v \in veils : k \in v.keys /\ erased[k] <= v.below
  BY <1>1, <1>3 DEF RingInv, ErasuresAreVeiled
<1>5. v.below \in Nat
  BY DEF RingInv, RingTypes
<1>6. q < v.below
  BY <1>2, <1>4, <1>5
<1> QED BY <1>4, <1>6 DEF Veiled

\* What a read from a position the ring holds leaves out may be left out.
LEMMA DeliveredIsComplete ==
    ASSUME RingInv, NEW from \in Nat, NEW upto \in Nat, first <= from, upto <= NextSeq
    PROVE  Complete(Delivered(from, upto, Wanted), from, upto)
<1> DEFINE D == Delivered(from, upto, Wanted)
<1>0. RingTypes /\ EntriesAreAdmitted /\ VeilsAreErasures
  BY DEF RingInv
<1>1. D \subseteq from .. upto - 1
  BY DEF Delivered
<1>2. ASSUME NEW q \in (from .. upto - 1) \ D PROVE Excused(q)
  <2> DEFINE s == entries[q - first + 1]
  <2>1. q \in first .. NextSeq - 1
    BY <1>0, RingShape DEF RingTypes
  <2>2. s \in Spans /\ s.key = admitted[q + 1] /\ admitted[q + 1] \in Keys
    BY <1>0, <2>1, RingShape
  <2>3. ~(s.key \in Wanted /\ ~Veiled(q, s))
    BY DEF Delivered
  <2>4. CASE s.key \notin Wanted
    BY <2>2, <2>4 DEF Excused
  <2>5. CASE Veiled(q, s)
    <3>1. PICK v \in veils : q < v.below /\ s.key \in v.keys
      BY <2>5 DEF Veiled
    <3>2. v.below <= erased[s.key]
      BY <3>1, <1>0 DEF VeilsAreErasures
    <3>3. v.below \in Nat /\ erased[s.key] \in Nat
      BY <1>0, <2>2 DEF RingTypes
    <3>4. q < erased[admitted[q + 1]]
      BY <3>1, <3>2, <3>3, <2>2
    <3> QED BY <3>4 DEF Excused
  <2> QED BY <2>3, <2>4, <2>5
<1> QED BY <1>1, <1>2 DEF Complete

\* The cursors a reader may hold.
Addressed(cursor) == cursor \in Cursors \cup {None}

\* A read is a frame that leaves out nothing it should hold; one that neither meets
\* a gap nor moves on was made at the head of the ring.
LEMMA ReadIsWhole ==
    ASSUME RingInv, ServingAssumption, NEW cursor, Addressed(cursor), NEW backfill \in Nat,
           NEW r, r = Read(cursor, backfill, Limit, Wanted)
    PROVE  /\ FrameIsWhole(r, cursor)
           /\ ~r.gap /\ cursor # None /\ r.cursor = cursor =>
                 cursor.epoch = epoch /\ cursor.seq = NextSeq
<1>0. RingTypes /\ EntriesAreAdmitted
  BY DEF RingInv
<1>1. /\ epoch \in Nat /\ first \in Nat /\ NextSeq \in Nat /\ first <= NextSeq
      /\ Limit \in Nat /\ Limit > 0
  BY <1>0, RingShape DEF RingTypes, ServingAssumption
<1>2. CASE cursor # None /\ ~Addressable(cursor)
  <2> DEFINE missed == IF cursor.epoch = epoch THEN Max({first, cursor.seq}) - cursor.seq ELSE None
  <2>1. r = [gap |-> TRUE, missed |-> missed]
    BY <1>2 DEF Read
  <2>2. cursor.seq \in Nat
    BY <1>2 DEF Addressed, Cursors
  <2>3. Max({first, cursor.seq}) \in {first, cursor.seq}
    <3>1. first \in Int /\ cursor.seq \in Int
      BY <1>1, <2>2
    <3> QED BY <3>1, MaxOfTwo
  <2>4. missed \in Int \cup {None}
    BY <1>1, <2>2, <2>3
  <2> HIDE DEF missed
  <2>5. r \in [gap: {TRUE}, missed: Int \cup {None}] /\ r.gap
    BY <2>1, <2>4
  <2> QED BY <2>5 DEF FrameIsWhole, Frames
<1>3. CASE ~(cursor # None /\ ~Addressable(cursor))
  <2> DEFINE from == Start(cursor, backfill)
             T == {p \in from .. NextSeq :
                     p = from \/ Cardinality(Delivered(from, p - 1, Wanted)) < Limit}
             stop == Max(T)
  <2>1. r = [gap |-> FALSE, spans |-> Delivered(from, stop, Wanted), from |-> from,
             cursor |-> Cursor(stop)]
    BY <1>3 DEF Read
  <2>2. from \in Nat /\ first <= from /\ from <= NextSeq /\ (cursor # None => from = cursor.seq)
    <3>1. CASE cursor = None
      <4>1. first \in Int /\ NextSeq - backfill \in Int /\ NextSeq - backfill <= NextSeq
        BY <1>1
      <4>2. from = Max({first, NextSeq - backfill})
        BY <3>1 DEF Start
      <4>3. from \in {first, NextSeq - backfill} /\ first <= from
        <5> DEFINE back == NextSeq - backfill
        <5> HIDE DEF back, from
        <5>1. back \in Int /\ from = Max({first, back})
          BY <4>1, <4>2 DEF back
        <5>2. from \in {first, back} /\ first <= from
          BY <5>1, <4>1, MaxOfTwo
        <5> QED BY <5>2 DEF back
      <4> QED BY <4>1, <4>3, <1>1, <3>1
    <3>2. CASE cursor # None
      <4>1. cursor.seq \in first .. NextSeq /\ from = cursor.seq
        BY <3>2, <1>3 DEF Addressable, Start
      <4> QED BY <4>1, <1>1
    <3> QED BY <3>1, <3>2
  <2> HIDE DEF from
  <2>3. stop \in T /\ \A p \in T : p <= stop
    <3>1. T \subseteq Nat /\ from \in T /\ \A n \in T : n <= NextSeq
      BY <1>1, <2>2
    <3> HIDE DEF T
    <3> QED BY <3>1, <1>1, MaxIsGreatest
  <2>4. from < NextSeq => from + 1 \in T
    <3>1. Delivered(from, from, Wanted) = {}
      BY <2>2 DEF Delivered
    <3>2. Cardinality({}) = 0
      BY FS_EmptySet
    <3>3. from + 1 - 1 = from
      BY <2>2
    <3>4. Cardinality(Delivered(from, from + 1 - 1, Wanted)) < Limit
      BY <3>1, <3>2, <3>3, <1>1
    <3> QED BY <3>4, <1>1, <2>2
  <2>5. stop \in Nat /\ from <= stop /\ stop <= NextSeq /\ (stop = from => from = NextSeq)
    BY <2>2, <2>3, <2>4, <1>1
  <2> HIDE DEF T, stop
  <2>6. Complete(Delivered(from, stop, Wanted), from, stop)
    BY <2>2, <2>5, DeliveredIsComplete
  <2>7. Cursor(stop) \in Cursors /\ Cursor(stop).epoch = epoch /\ Cursor(stop).seq = stop
    BY <1>1, <2>5 DEF Cursor, Cursors
  <2>8. Delivered(from, stop, Wanted) \subseteq Nat
    BY <2>2, <2>5, <2>6 DEF Complete
  <2>9. r \in [gap: {FALSE}, spans: SUBSET Nat, from: Nat, cursor: Cursors] /\ ~r.gap
    BY <2>1, <2>2, <2>7, <2>8
  <2>10. cursor # None => cursor.epoch = epoch
    BY <1>3 DEF Addressable
  <2>11. FrameIsWhole(r, cursor)
    <3>1. /\ r.spans = Delivered(from, stop, Wanted) /\ r.from = from
          /\ r.cursor = Cursor(stop)
      BY <2>1
    <3>2. r \in Frames
      BY <2>9 DEF Frames
    <3>3. r.cursor.epoch = epoch /\ r.cursor.seq = stop
      BY <3>1, <2>7
    <3>4. Complete(r.spans, r.from, r.cursor.seq)
      BY <3>1, <3>3, <2>6
    <3> QED BY <3>1, <3>2, <3>3, <3>4, <2>2, <2>5, <2>10 DEF FrameIsWhole
  <2>12. cursor # None /\ r.cursor = cursor => cursor.seq = NextSeq
    <3> SUFFICES ASSUME cursor # None, r.cursor = cursor PROVE cursor.seq = NextSeq
      OBVIOUS
    <3>1. cursor.seq = stop /\ from = cursor.seq
      BY <2>1, <2>2, <2>7
    <3> QED BY <3>1, <2>5
  <2> QED BY <2>10, <2>11, <2>12
<1> QED BY <1>2, <1>3

----------------------------------------------------------------------------
(* The ring moves on.                                                      *)

\* What a step of one process may do to the ring: add to what was admitted, and
\* erase.
RingGrows ==
    /\ epoch' = epoch
    /\ NextSeq' \in Nat /\ NextSeq <= NextSeq'
    /\ \A q \in 0 .. NextSeq - 1 : Excused(q) => Excused(q)'

\* The ring without the wake-ups.
ringVars == <<epoch, first, entries, veils, erased, admitted>>

\* A concatenation starts with its first part.
LEMMA JoinedFront ==
    ASSUME NEW S, NEW a \in Seq(S), NEW b \in Seq(S)
    PROVE  \A i \in 1 .. Len(a) : (a \o b)[i] = a[i]
OBVIOUS

\* What a concatenation holds.
LEMMA Joined ==
    ASSUME NEW S, NEW a \in Seq(S), NEW b \in Seq(S)
    PROVE  /\ a \o b \in Seq(S) /\ Len(a \o b) = Len(a) + Len(b)
           /\ \A i \in 1 .. Len(a) : (a \o b)[i] = a[i]
           /\ \A i \in 1 .. Len(b) : (a \o b)[Len(a) + i] = b[i]
           /\ \A i \in Len(a) + 1 .. Len(a \o b) : (a \o b)[i] = b[i - Len(a)]
OBVIOUS

\* A batch goes to the end of the ring; what leaves it is older, and what remains is
\* shadowed as it was.
LEMMA PublishKeepsRing ==
    ASSUME RingInv, NEW batch \in Seq(Spans), batch # <<>>, Publish(batch)
    PROVE  RingInv' /\ RingGrows
<1> DEFINE grown == entries \o batch
           lost == Excess(grown)
           keys == [i \in DOMAIN batch |-> batch[i].key]
<1>0. RingTypes /\ EntriesAreAdmitted /\ VeilsAreErasures /\ ErasuresAreVeiled
  BY DEF RingInv
<1>1. /\ NextSeq \in Nat /\ NextSeq = first + Len(entries) /\ Len(admitted) = NextSeq
      /\ first \in Nat /\ entries \in Seq(Spans) /\ admitted \in Seq(Keys)
      /\ Len(entries) \in Nat
  BY <1>0, RingShape DEF RingTypes
<1>2. /\ grown \in Seq(Spans) /\ Len(grown) = Len(entries) + Len(batch)
      /\ Len(batch) \in Nat /\ Len(batch) > 0
  BY <1>1
<1>3. lost \in 0 .. Len(grown) - 1
  <2> DEFINE T == {n \in 0 .. Len(grown) - 1 :
                     \/ n = Len(grown) - 1
                     \/ LET kept == SubSeq(grown, n + 1, Len(grown)) IN
                        Len(kept) <= Capacity /\ Resident(kept) <= Budget}
  <2>1. T \subseteq 0 .. Len(grown) - 1 /\ Len(grown) - 1 \in T
    BY <1>1, <1>2
  <2>2. lost = Min(T)
    BY DEF Excess
  <2> HIDE DEF T, lost, grown
  <2>3. T \subseteq Nat /\ T # {}
    BY <2>1
  <2>4. Min(T) \in T
    BY <2>3, MinIsLeast
  <2> QED BY <2>1, <2>2, <2>4
<1>4. /\ first' = first + lost
      /\ entries' = SubSeq(grown, lost + 1, Len(grown))
      /\ veils' = {v \in veils : v.below > first + lost}
      /\ admitted' = admitted \o keys
      /\ epoch' = epoch /\ erased' = erased
  BY DEF Publish, Push, Pruned
<1>5. /\ keys \in Seq(Keys) /\ Len(keys) = Len(batch)
      /\ \A i \in 1 .. Len(batch) : keys[i] = batch[i].key
  <2>1. DOMAIN batch = 1 .. Len(batch) /\ \A i \in 1 .. Len(batch) : batch[i] \in Spans
    OBVIOUS
  <2>2. \A i \in 1 .. Len(batch) : batch[i].key \in Keys
    BY <2>1 DEF Spans
  <2> QED BY <1>2, <2>1, <2>2
<1> HIDE DEF lost, keys
<1>6. /\ entries' \in Seq(Spans) /\ Len(entries') = Len(grown) - lost
      /\ \A i \in 1 .. Len(entries') : entries'[i] = grown[lost + i]
  <2> HIDE DEF grown
  <2> QED BY <1>2, <1>3, <1>4
<1>7. /\ admitted' \in Seq(Keys) /\ Len(admitted') = Len(admitted) + Len(batch)
      /\ \A i \in 1 .. Len(admitted) : admitted'[i] = admitted[i]
      /\ \A i \in 1 .. Len(batch) : admitted'[Len(admitted) + i] = batch[i].key
  <2>1. admitted' \in Seq(Keys) /\ Len(admitted') = Len(admitted) + Len(batch)
    <3>1. keys \in Seq(Keys) /\ Len(keys) = Len(batch)
      BY <1>5
    <3>2. admitted \o keys \in Seq(Keys) /\ Len(admitted \o keys) = Len(admitted) + Len(keys)
      BY <3>1, <1>1, Joined
    <3> QED BY <3>1, <3>2, <1>4
  <2>2. \A i \in 1 .. Len(admitted) : admitted'[i] = admitted[i]
    BY <1>1, <1>4, <1>5, Joined
  <2>3. \A i \in 1 .. Len(keys) : (admitted \o keys)[Len(admitted) + i] = keys[i]
    BY <1>1, <1>5, Joined
  <2> QED BY <2>1, <2>2, <2>3, <1>4, <1>5
<1>8. \A i \in 1 .. Len(grown) : grown[i].key = admitted'[first + i]
  <2> SUFFICES ASSUME NEW i \in 1 .. Len(grown) PROVE grown[i].key = admitted'[first + i]
    OBVIOUS
  <2>1. CASE i <= Len(entries)
    <3>1. i \in 1 .. Len(entries) /\ first + i \in 1 .. Len(admitted)
      BY <1>1, <1>2, <2>1
    <3>2. grown[i] = entries[i]
      BY <1>1, <3>1
    <3>3. entries[i].key = admitted[first + i]
      BY <3>1, <1>0 DEF EntriesAreAdmitted
    <3> QED BY <3>1, <3>2, <3>3, <1>7
  <2>2. CASE i > Len(entries)
    <3> DEFINE j == i - Len(entries)
    <3>1. j \in 1 .. Len(batch) /\ first + i = Len(admitted) + j
      BY <1>1, <1>2, <2>2
    <3>2. grown[i] = batch[j]
      BY <1>1, <1>2, <2>2
    <3> QED BY <3>1, <3>2, <1>7
  <2> QED BY <1>1, <1>2, <2>1, <2>2
<1> HIDE DEF grown
<1>9. NextSeq' = NextSeq + Len(batch) /\ NextSeq' = first' + Len(entries')
  BY <1>1, <1>2, <1>3, <1>4, <1>6 DEF NextSeq
<1>10. RingTypes'
  <2>1. first' \in Nat
    BY <1>1, <1>2, <1>3, <1>4
  <2>2. veils' \subseteq veils
    BY <1>4
  <2> QED BY <1>0, <1>4, <1>6, <1>7, <2>1, <2>2 DEF RingTypes
<1>11. EntriesAreAdmitted'
  <2>1. NextSeq' = Len(admitted')
    BY <1>1, <1>7, <1>9
  <2>2. ASSUME NEW i \in 1 .. Len(entries') PROVE entries'[i].key = admitted'[first' + i]
    <3>1. lost + i \in 1 .. Len(grown) /\ first + (lost + i) = first' + i
      <4> DEFINE a == Len(grown)
                 b == Len(entries')
      <4>1. /\ a \in Nat /\ b = a - lost /\ lost \in 0 .. a - 1 /\ i \in 1 .. b
            /\ first \in Nat /\ first' = first + lost
        BY <1>1, <1>2, <1>3, <1>4, <1>6
      <4>2. lost + i \in 1 .. a
        <5> HIDE DEF a, b, grown
        <5> QED BY <4>1
      <4> QED BY <4>1, <4>2
    <3> QED BY <3>1, <1>6, <1>8
  <2> QED BY <2>1, <2>2 DEF EntriesAreAdmitted
<1>12. VeilsAreErasures'
  <2>1. \A k \in Keys : erased[k] \in Nat /\ erased[k] <= NextSeq
    BY <1>0 DEF RingTypes, VeilsAreErasures
  <2>2. \A k \in Keys : erased'[k] <= NextSeq'
    BY <2>1, <1>1, <1>2, <1>4, <1>9
  <2>3. veils' \subseteq veils
    BY <1>4
  <2> QED BY <2>2, <2>3, <1>0, <1>4 DEF VeilsAreErasures
<1>13. ErasuresAreVeiled'
  <2> SUFFICES ASSUME NEW k \in Keys, first' < erased[k]
               PROVE  \E v \in veils' : k \in v.keys /\ erased[k] <= v.below
    BY <1>4 DEF ErasuresAreVeiled
  <2>1. erased[k] \in Nat /\ first < erased[k]
    BY <1>0, <1>1, <1>2, <1>3, <1>4 DEF RingTypes
  <2>2. PICK v \in veils : k \in v.keys /\ erased[k] <= v.below
    BY <2>1, <1>0 DEF ErasuresAreVeiled
  <2>3. v.below \in Nat
    BY <1>0 DEF RingTypes
  <2>4. v.below > first + lost
    BY <2>1, <2>2, <2>3, <1>1, <1>2, <1>3, <1>4
  <2> QED BY <2>2, <2>4, <1>4
<1>14. RingGrows
  <2>1. NextSeq' \in Nat /\ NextSeq <= NextSeq'
    BY <1>1, <1>2, <1>9
  <2>2. ASSUME NEW q \in 0 .. NextSeq - 1, Excused(q) PROVE Excused(q)'
    <3>1. q + 1 \in 1 .. Len(admitted)
      BY <1>1
    <3>2. admitted'[q + 1] = admitted[q + 1]
      BY <3>1, <1>7
    <3> QED BY <3>2, <2>2, <1>4 DEF Excused
  <2> QED BY <2>1, <2>2, <1>4 DEF RingGrows
<1> QED BY <1>10, <1>11, <1>12, <1>13, <1>14 DEF RingInv

\* An erasure casts a veil over all of the ring, and is remembered up to its head.
LEMMA VeilKeepsRing ==
    ASSUME RingInv, NEW keys \in SUBSET Keys, Veil(keys)
    PROVE  RingInv' /\ RingGrows
<1>0. RingTypes /\ EntriesAreAdmitted /\ VeilsAreErasures /\ ErasuresAreVeiled
  BY DEF RingInv
<1>1. NextSeq \in Nat /\ first \in Nat /\ first <= NextSeq /\ Len(admitted) = NextSeq
  BY <1>0, RingShape DEF RingTypes
<1> DEFINE w == [keys |-> keys, below |-> NextSeq]
<1>2. /\ veils' = veils \cup {w}
      /\ erased' = [k \in Keys |-> IF k \in keys THEN NextSeq ELSE erased[k]]
      /\ UNCHANGED <<epoch, first, entries, admitted>>
  BY DEF Veil
<1>3. w \in [keys: SUBSET Keys, below: Nat] /\ w.keys = keys /\ w.below = NextSeq
  BY <1>1
<1> HIDE DEF w
<1>4. NextSeq' = NextSeq
  BY <1>2 DEF NextSeq
<1>5. ASSUME NEW k \in Keys
      PROVE  /\ erased[k] \in Nat /\ erased'[k] \in Nat
             /\ erased[k] <= erased'[k] /\ erased'[k] <= NextSeq
             /\ k \in keys => erased'[k] = NextSeq
             /\ k \notin keys => erased'[k] = erased[k]
  BY <1>0, <1>1, <1>2 DEF RingTypes, VeilsAreErasures
<1>6. RingTypes'
  <2>1. erased' \in [Keys -> Nat]
    BY <1>2, <1>5
  <2> QED BY <2>1, <1>0, <1>2, <1>3 DEF RingTypes
<1>7. EntriesAreAdmitted'
  BY <1>0, <1>2, <1>4 DEF EntriesAreAdmitted
<1>8. VeilsAreErasures'
  <2>1. ASSUME NEW v \in veils', NEW k \in v.keys PROVE v.below <= erased'[k]
    <3>1. CASE v = w
      BY <3>1, <1>1, <1>3, <1>5
    <3>2. CASE v \in veils
      <4>1. v.below \in Nat /\ k \in Keys
        BY <3>2, <1>0 DEF RingTypes
      <4>2. v.below <= erased[k]
        BY <3>2, <1>0 DEF VeilsAreErasures
      <4> QED BY <4>1, <4>2, <1>5
    <3> QED BY <3>1, <3>2, <1>2
  <2> QED BY <2>1, <1>4, <1>5 DEF VeilsAreErasures
<1>9. ErasuresAreVeiled'
  <2> SUFFICES ASSUME NEW k \in Keys, first < erased'[k]
               PROVE  \E v \in veils' : k \in v.keys /\ erased'[k] <= v.below
    BY <1>2 DEF ErasuresAreVeiled
  <2>1. CASE k \in keys
    <3>1. w \in veils' /\ k \in w.keys /\ erased'[k] <= w.below
      BY <2>1, <1>1, <1>2, <1>3, <1>5
    <3> QED BY <3>1
  <2>2. CASE k \notin keys
    <3>1. erased'[k] = erased[k]
      BY <2>2, <1>5
    <3>2. PICK v \in veils : k \in v.keys /\ erased[k] <= v.below
      BY <3>1, <1>0 DEF ErasuresAreVeiled
    <3> QED BY <3>1, <3>2, <1>2
  <2> QED BY <2>1, <2>2
<1>10. RingGrows
  <2>1. ASSUME NEW q \in 0 .. NextSeq - 1, Excused(q) PROVE Excused(q)'
    <3>1. admitted[q + 1] \in Keys /\ admitted'[q + 1] = admitted[q + 1]
      BY <1>0, <1>1, <1>2 DEF RingTypes
    <3>2. q < erased[admitted[q + 1]] => q < erased'[admitted[q + 1]]
      BY <3>1, <1>1, <1>5
    <3> QED BY <2>1, <3>1, <3>2 DEF Excused
  <2> QED BY <2>1, <1>1, <1>2, <1>4 DEF RingGrows
<1> QED BY <1>6, <1>7, <1>8, <1>9, <1>10 DEF RingInv

\* A step that leaves the ring alone.
LEMMA RingStays ==
    ASSUME RingInv, UNCHANGED ringVars
    PROVE  RingInv' /\ RingGrows
<1>1. UNCHANGED <<epoch, first, entries, veils, erased, admitted>>
  BY DEF ringVars
<1>2. NextSeq' = NextSeq
  BY <1>1 DEF NextSeq
<1>3. NextSeq \in Nat
  BY RingShape DEF RingInv
<1>4. RingInv'
  BY <1>1, <1>2 DEF RingInv, RingTypes, EntriesAreAdmitted, VeilsAreErasures, ErasuresAreVeiled
<1>5. \A q : Excused(q) => Excused(q)'
  BY <1>1 DEF Excused
<1> QED BY <1>1, <1>2, <1>3, <1>4, <1>5 DEF RingGrows

\* Every step but a restart moves the ring on, and a restart empties it.
LEMMA RingStep ==
    ASSUME RingInv, ServingAssumption, [Next]_vars
    PROVE  /\ RingInv'
           /\ RingGrows \/ Restart
<1>1. ASSUME NEW c \in Clients, Client(c) \/ Accept(c) \/ EndRefusal(c) \/ Handler(c)
      PROVE  UNCHANGED ringVars
  <2>1. CASE Client(c)
    BY <2>1 DEF Client, Connect, SendBody, HangUp, Send, Here, tailVars, ringVars
  <2>2. CASE Accept(c) \/ EndRefusal(c)
    BY <2>2 DEF Accept, EndRefusal, tailVars, ringVars
  <2>3. CASE Handler(c)
    <3>1. CASE Receive(c) \/ EndOfInput(c) \/ Recycle(c) \/ RefuseHead(c) \/ ServeAsset(c)
      BY <3>1 DEF Receive, EndOfInput, Recycle, RefuseHead, ServeAsset, Here, tailVars, ringVars
    <3>2. CASE Reject(c) \/ Admit(c) \/ ReadBody(c) \/ ServeCall(c) \/ Panic(c) \/ Release(c)
      BY <3>2 DEF Reject, Admit, ReadBody, ServeCall, Panic, Release, Here, tailVars, ringVars
    <3>3. CASE ServeTail(c) \/ ReadTail(c) \/ Wake(c) \/ WriteFrame(c) \/ LoseTail(c)
      BY <3>3 DEF ServeTail, ReadTail, Wake, WriteFrame, LoseTail, Here, tailVars, ringVars
    <3> QED BY <2>3, <3>1, <3>2, <3>3 DEF Handler
  <2> QED BY <1>1, <2>1, <2>2, <2>3
<1>2. ASSUME NEW c \in Clients, Client(c) \/ Accept(c) \/ EndRefusal(c) \/ Handler(c)
      PROVE  RingInv' /\ RingGrows
  BY <1>1, <1>2, RingStays
<1>3. ASSUME NEW batch \in Batches, Ingest(batch) PROVE RingInv' /\ RingGrows
  <2>1. batch \in Seq(Spans) /\ batch # <<>> /\ Publish(batch)
    BY <1>3 DEF ServingAssumption, Ingest
  <2> QED BY <2>1, PublishKeepsRing
<1>4. ASSUME NEW keys \in Subjects, Erase(keys) PROVE RingInv' /\ RingGrows
  <2>1. keys \in SUBSET Keys /\ Veil(keys)
    BY <1>4 DEF ServingAssumption, Erase
  <2> QED BY <2>1, VeilKeepsRing
<1>5. CASE SignalTails
  BY <1>5, RingStays DEF SignalTails, Notify, ringVars
<1>6. CASE Restart
  <2>1. /\ epoch' = epoch + 1 /\ first' = 0 /\ entries' = <<>> /\ veils' = {}
        /\ erased' = [k \in Keys |-> 0] /\ admitted' = <<>>
    BY <1>6 DEF Restart
  <2>2. NextSeq' = 0
    BY <2>1 DEF NextSeq
  <2>3. RingTypes'
    BY <2>1 DEF RingInv, RingTypes
  <2>4. EntriesAreAdmitted'
    BY <2>1, <2>2 DEF EntriesAreAdmitted
  <2>5. VeilsAreErasures' /\ ErasuresAreVeiled'
    BY <2>1, <2>2 DEF VeilsAreErasures, ErasuresAreVeiled
  <2> QED BY <1>6, <2>3, <2>4, <2>5 DEF RingInv
<1>7. CASE UNCHANGED vars
  BY <1>7, RingStays DEF vars, tailVars, ringVars
<1> QED BY <1>2, <1>3, <1>4, <1>5, <1>6, <1>7 DEF Next

----------------------------------------------------------------------------
(* What the steps do to a connection.                                      *)

Places == Handling \cup {"away", "queued", "refusing"}

\* Only the connection of c changes.
Alone(c) ==
    /\ conn' \in [Clients -> Connection]
    /\ \A d \in Clients \ {c} : conn'[d] = conn[d]

\* All of a connection but where its handler is, what it answered and how often.
Same(k, l) ==
    /\ l.socket = k.socket /\ l.buffer = k.buffer /\ l.owes = k.owes /\ l.sent = k.sent
    /\ l.request = k.request /\ l.cursor = k.cursor /\ l.frame = k.frame

\* Become gives one connection a new state.
LEMMA Becomes ==
    ASSUME WebTypes, NEW c \in Clients, NEW k \in Connection, Become(c, k)
    PROVE  Alone(c) /\ conn'[c] = k
BY DEF WebTypes, Become, Alone

\* What a connection is made of.
LEMMA ConnectionShape ==
    ASSUME NEW k \in Connection
    PROVE  /\ k.at \in Places /\ k.socket \in Seq(Tokens) /\ k.buffer \in Seq(Tokens)
           /\ k.owes \in BOOLEAN /\ k.hungup \in BOOLEAN /\ k.sent \in Nat /\ k.served \in Nat
           /\ k.answers \in Seq(Nat) /\ k.request \in Tokens \cup {None}
           /\ k.cursor \in Cursors \cup {None} /\ k.opening \in Nat
           /\ k.frame \in Frames \cup {None}
           /\ Unserved(k) \in Seq(Tokens)
BY DEF Connection, Places, Unserved

\* A connection is typed if its parts are.
LEMMA ConnectionMade ==
    ASSUME NEW at \in Places, NEW socket \in Seq(Tokens), NEW buffer \in Seq(Tokens),
           NEW owes \in BOOLEAN, NEW hungup \in BOOLEAN, NEW sent \in Nat, NEW served \in Nat,
           NEW answers \in Seq(Nat), NEW request \in Tokens \cup {None},
           NEW cursor \in Cursors \cup {None}, NEW opening \in Nat,
           NEW frame \in Frames \cup {None}
    PROVE  [at |-> at, socket |-> socket, buffer |-> buffer, owes |-> owes, hungup |-> hungup,
            sent |-> sent, served |-> served, answers |-> answers, request |-> request,
            cursor |-> cursor, opening |-> opening, frame |-> frame] \in Connection
BY DEF Connection, Places

\* A new connection, and none.
LEMMA FreshIsTyped ==
    /\ Fresh \in Connection /\ Away \in Connection
    /\ Fresh.at = "queued" /\ Away.at = "away" /\ Fresh.answers = <<>> /\ Away.answers = <<>>
    /\ Unserved(Fresh) = <<>> /\ Unserved(Away) = <<>>
    /\ Fresh.sent = 0 /\ ~Fresh.owes
<1>1. /\ "queued" \in Places /\ "away" \in Places /\ <<>> \in Seq(Tokens) /\ <<>> \in Seq(Nat)
      /\ None \in Tokens \cup {None} /\ None \in Cursors \cup {None} /\ None \in Frames \cup {None}
  BY DEF Places
<1>2. Fresh \in Connection
  BY <1>1, ConnectionMade DEF Fresh
<1>3. Away \in Connection /\ Same(Fresh, Away) /\ Away.at = "away" /\ Away.answers = Fresh.answers
  BY <1>2 DEF Away, Connection, Same
<1>4. /\ Fresh.at = "queued" /\ Fresh.answers = <<>> /\ Fresh.sent = 0 /\ ~Fresh.owes
      /\ Fresh.buffer = <<>> /\ Fresh.socket = <<>>
  BY DEF Fresh
<1>5. Unserved(Fresh) = <<>>
  BY <1>4 DEF Unserved
<1>6. Unserved(Away) = <<>>
  BY <1>3, <1>5 DEF Unserved, Same
<1> QED BY <1>2, <1>3, <1>4, <1>5, <1>6

\* A handler goes somewhere else.
LEMMA GoesTo ==
    ASSUME WebTypes, NEW c \in Clients, NEW place \in Places, Goto(c, place)
    PROVE  /\ Alone(c) /\ Same(conn[c], conn'[c])
           /\ conn'[c].at = place /\ conn'[c].answers = conn[c].answers
<1>1. PICK k \in Connection : k = conn[c]
  BY DEF WebTypes
<1> DEFINE l == [k EXCEPT !.at = place]
<1>2. l \in Connection /\ Same(k, l) /\ l.at = place /\ l.answers = k.answers
  BY DEF Connection, Places, Same
<1>3. Become(c, l)
  BY <1>1 DEF Goto
<1> HIDE DEF l
<1>4. Alone(c) /\ conn'[c] = l
  BY <1>2, <1>3, Becomes
<1> QED BY <1>1, <1>2, <1>4

\* The request at the front is answered.
LEMMA AnswersFront ==
    ASSUME WebTypes, NEW c \in Clients, NEW keep, Answer(c, keep), conn[c].buffer # <<>>
    PROVE  /\ Alone(c) /\ Same(conn[c], conn'[c])
           /\ conn'[c].at = (IF keep THEN "head" ELSE "leaving")
           /\ conn'[c].answers = Append(conn[c].answers, conn[c].buffer[1].of)
<1>1. PICK k \in Connection : k = conn[c]
  BY DEF WebTypes
<1> DEFINE l == [k EXCEPT !.answers = Append(k.answers, Head(k.buffer).of),
                          !.served = k.served + 1,
                          !.at = IF keep THEN "head" ELSE "leaving"]
<1>2. k.buffer \in Seq(Tokens) /\ Head(k.buffer) = k.buffer[1] /\ k.buffer[1] \in Tokens
  BY <1>1, ConnectionShape
<1>3. k.buffer[1].of \in Nat
  BY <1>2 DEF Tokens
<1>4. Append(k.answers, Head(k.buffer).of) \in Seq(Nat)
  BY <1>2, <1>3, ConnectionShape
<1>7. Become(c, l)
  BY <1>1 DEF Answer
<1>5. /\ l \in Connection /\ Same(k, l)
      /\ l.at = (IF keep THEN "head" ELSE "leaving")
      /\ l.answers = Append(k.answers, Head(k.buffer).of)
  <2> DEFINE answers == Append(k.answers, Head(k.buffer).of)
             place == IF keep THEN "head" ELSE "leaving"
  <2>1. answers \in Seq(Nat) /\ place \in Handling /\ k.served + 1 \in Nat
    BY <1>4, ConnectionShape DEF Handling
  <2> HIDE DEF answers, place
  <2>2. l = [k EXCEPT !.answers = answers, !.served = k.served + 1, !.at = place]
    BY DEF answers, place
  <2> HIDE DEF l
  <2>3. l \in Connection
    BY <2>1, <2>2 DEF Connection
  <2>4. Same(k, l) /\ l.at = place /\ l.answers = answers
    BY <2>1, <2>2 DEF Connection, Same
  <2> QED BY <2>3, <2>4 DEF answers, place
<1>6. /\ l.at = (IF keep THEN "head" ELSE "leaving")
      /\ l.answers = Append(k.answers, k.buffer[1].of)
  BY <1>2, <1>5
<1> HIDE DEF l
<1>8. Alone(c) /\ conn'[c] = l
  BY <1>5, <1>7, Becomes
<1> QED BY <1>1, <1>5, <1>6, <1>8

\* A client hangs up.
LEMMA HangsUp ==
    ASSUME WebTypes, NEW c \in Clients, HangUp(c)
    PROVE  /\ Alone(c) /\ Same(conn[c], conn'[c])
           /\ conn'[c].at = conn[c].at /\ conn'[c].answers = conn[c].answers
<1>1. PICK k \in Connection : k = conn[c]
  BY DEF WebTypes
<1> DEFINE l == [k EXCEPT !.hungup = TRUE]
<1>2. l \in Connection /\ Same(k, l) /\ l.at = k.at /\ l.answers = k.answers
  BY DEF Connection, Same
<1>3. Become(c, l)
  BY <1>1 DEF HangUp
<1> HIDE DEF l
<1>4. Alone(c) /\ conn'[c] = l
  BY <1>2, <1>3, Becomes
<1> QED BY <1>1, <1>2, <1>4

\* What is appended to the socket is appended to what is unserved.
LEMMA SocketGrows ==
    ASSUME NEW buffer \in Seq(Tokens), NEW socket \in Seq(Tokens), NEW t \in Tokens
    PROVE  buffer \o Append(socket, t) = Append(buffer \o socket, t)
OBVIOUS

\* The head of a request goes out, with no cursor or with the last one received.
LEMMA Sends ==
    ASSUME WebTypes, ServingAssumption, NEW c \in Clients, NEW r \in scope.requests[c], Send(c, r)
    PROVE  /\ Alone(c) /\ ~conn[c].owes
           /\ conn'[c].at = conn[c].at /\ conn'[c].answers = conn[c].answers
           /\ conn'[c].request = conn[c].request /\ conn'[c].cursor = conn[c].cursor
           /\ conn'[c].frame = conn[c].frame /\ conn'[c].buffer = conn[c].buffer
           /\ conn'[c].sent = conn[c].sent + 1 /\ conn'[c].owes = r.body
           /\ r \in Request
           /\ \E t \in Tokens :
                 /\ Unserved(conn'[c]) = Append(Unserved(conn[c]), t)
                 /\ t.part = "head" /\ t.of = conn[c].sent + 1 /\ t.request = r
                 /\ t.cursor \in {None, heard[c].token}
<1>1. PICK k \in Connection : k = conn[c]
  BY DEF WebTypes
<1>2. PICK cursor \in {None, heard[c].token} :
        Become(c, [conn[c] EXCEPT !.sent = @ + 1, !.owes = r.body,
                      !.socket = Append(@, [part |-> "head", of |-> conn[c].sent + 1,
                                            request |-> r, cursor |-> cursor])])
  BY DEF Send
<1> DEFINE t == [part |-> "head", of |-> k.sent + 1, request |-> r, cursor |-> cursor]
           l == [k EXCEPT !.sent = k.sent + 1, !.owes = r.body, !.socket = Append(k.socket, t)]
<1>3. r \in Request /\ r.body \in BOOLEAN
  <2>1. scope.requests \in [Clients -> SUBSET Request]
    BY DEF WebTypes, ServingAssumption
  <2> QED BY <2>1 DEF Request
<1>4. heard[c].token \in Cursors \cup {None}
  BY DEF WebTypes, Hearing
<1>5. t \in Tokens
  <2>1. k.sent + 1 \in Nat /\ cursor \in Cursors \cup {None}
    BY <1>2, <1>4, ConnectionShape
  <2> QED BY <2>1, <1>3 DEF Tokens
<1>6. /\ t.part = "head" /\ t.of = k.sent + 1 /\ t.request = r
      /\ t.cursor \in {None, heard[c].token}
  BY <1>2
<1>7. Become(c, l)
  BY <1>1, <1>2
<1> HIDE DEF t
<1>8. Append(k.socket, t) \in Seq(Tokens)
  BY <1>5, ConnectionShape
<1>9. l \in Connection
  <2>1. k.sent + 1 \in Nat
    BY ConnectionShape
  <2> QED BY <2>1, <1>3, <1>8 DEF Connection
<1>10. /\ l.at = k.at /\ l.answers = k.answers /\ l.request = k.request /\ l.cursor = k.cursor
       /\ l.frame = k.frame /\ l.buffer = k.buffer /\ l.sent = k.sent + 1 /\ l.owes = r.body
       /\ l.socket = Append(k.socket, t)
  BY DEF Connection
<1> HIDE DEF l
<1>11. Unserved(l) = Append(Unserved(k), t)
  <2>1. k.buffer \in Seq(Tokens) /\ k.socket \in Seq(Tokens)
    BY ConnectionShape
  <2>2. k.buffer \o Append(k.socket, t) = Append(k.buffer \o k.socket, t)
    BY <2>1, <1>5, SocketGrows
  <2> QED BY <2>2, <1>10 DEF Unserved
<1>12. Alone(c) /\ conn'[c] = l
  BY <1>7, <1>9, Becomes
<1>13. ~conn[c].owes
  BY DEF Send
<1> QED BY <1>1, <1>3, <1>5, <1>6, <1>10, <1>11, <1>12, <1>13

\* The body it announced follows.
LEMMA SendsBody ==
    ASSUME WebTypes, NEW c \in Clients, SendBody(c)
    PROVE  /\ Alone(c) /\ conn[c].owes
           /\ conn'[c].at = conn[c].at /\ conn'[c].answers = conn[c].answers
           /\ conn'[c].request = conn[c].request /\ conn'[c].cursor = conn[c].cursor
           /\ conn'[c].frame = conn[c].frame /\ conn'[c].buffer = conn[c].buffer
           /\ conn'[c].sent = conn[c].sent /\ ~conn'[c].owes
           /\ \E t \in Tokens :
                 /\ Unserved(conn'[c]) = Append(Unserved(conn[c]), t)
                 /\ t.part = "body" /\ t.of = conn[c].sent
<1>1. PICK k \in Connection : k = conn[c]
  BY DEF WebTypes
<1> DEFINE t == [part |-> "body", of |-> k.sent]
           l == [k EXCEPT !.owes = FALSE, !.socket = Append(k.socket, t)]
<1>2. t \in Tokens /\ t.part = "body" /\ t.of = k.sent
  BY ConnectionShape DEF Tokens
<1>3. Become(c, l) /\ conn[c].owes
  BY <1>1 DEF SendBody
<1> HIDE DEF t
<1>4. Append(k.socket, t) \in Seq(Tokens)
  BY <1>2, ConnectionShape
<1>5. l \in Connection
  BY <1>4 DEF Connection
<1>6. /\ l.at = k.at /\ l.answers = k.answers /\ l.request = k.request /\ l.cursor = k.cursor
      /\ l.frame = k.frame /\ l.buffer = k.buffer /\ l.sent = k.sent /\ ~l.owes
      /\ l.socket = Append(k.socket, t)
  BY DEF Connection
<1> HIDE DEF l
<1>7. Unserved(l) = Append(Unserved(k), t)
  <2>1. k.buffer \in Seq(Tokens) /\ k.socket \in Seq(Tokens)
    BY ConnectionShape
  <2>2. k.buffer \o Append(k.socket, t) = Append(k.buffer \o k.socket, t)
    BY <2>1, <1>2, SocketGrows
  <2> QED BY <2>2, <1>6 DEF Unserved
<1>8. Alone(c) /\ conn'[c] = l
  BY <1>3, <1>5, Becomes
<1> QED BY <1>1, <1>2, <1>3, <1>6, <1>7, <1>8

\* What moves from the socket to the buffer stays where it was in between.
LEMMA SocketDrains ==
    ASSUME NEW buffer \in Seq(Tokens), NEW socket \in Seq(Tokens), NEW n \in 1 .. Len(socket)
    PROVE  LET b == buffer \o SubSeq(socket, 1, n)
               s == SubSeq(socket, n + 1, Len(socket)) IN
           b \in Seq(Tokens) /\ s \in Seq(Tokens) /\ b # <<>> /\ b \o s = buffer \o socket
<1> DEFINE p == SubSeq(socket, 1, n)
           s == SubSeq(socket, n + 1, Len(socket))
           b == buffer \o p
<1>1. /\ p \in Seq(Tokens) /\ Len(p) = n /\ \A i \in 1 .. n : p[i] = socket[i]
      /\ s \in Seq(Tokens) /\ Len(s) = Len(socket) - n
      /\ \A i \in 1 .. Len(s) : s[i] = socket[n + i]
  OBVIOUS
<1> HIDE DEF p, s
<1>2. /\ b \in Seq(Tokens) /\ Len(b) = Len(buffer) + n
      /\ \A i \in 1 .. Len(buffer) : b[i] = buffer[i]
      /\ \A i \in 1 .. n : b[Len(buffer) + i] = socket[i]
  <2>1. b \in Seq(Tokens) /\ Len(b) = Len(buffer) + Len(p)
    BY <1>1, Joined
  <2>2. \A i \in 1 .. Len(buffer) : b[i] = buffer[i]
    BY <1>1, Joined
  <2>3. \A i \in 1 .. Len(p) : b[Len(buffer) + i] = p[i]
    BY <1>1, Joined
  <2> QED BY <2>1, <2>2, <2>3, <1>1
<1>3. b # <<>>
  BY <1>2
<1> HIDE DEF b
<1>4. /\ b \o s \in Seq(Tokens) /\ buffer \o socket \in Seq(Tokens)
      /\ Len(b \o s) = Len(buffer \o socket) /\ Len(b \o s) = Len(buffer) + Len(socket)
  <2>1. b \o s \in Seq(Tokens) /\ Len(b \o s) = Len(b) + Len(s)
    BY <1>1, <1>2, Joined
  <2>2. buffer \o socket \in Seq(Tokens) /\ Len(buffer \o socket) = Len(buffer) + Len(socket)
    BY Joined
  <2> QED BY <2>1, <2>2, <1>1, <1>2
<1>5. ASSUME NEW i \in 1 .. Len(b \o s) PROVE (b \o s)[i] = (buffer \o socket)[i]
  <2>1. CASE i <= Len(buffer)
    BY <2>1, <1>1, <1>2, <1>4
  <2>2. CASE i > Len(buffer) /\ i <= Len(b)
    <3>1. (b \o s)[i] = b[i] /\ (buffer \o socket)[i] = socket[i - Len(buffer)]
      BY <2>2, <1>1, <1>2, <1>4
    <3>2. i - Len(buffer) \in 1 .. n /\ Len(buffer) + (i - Len(buffer)) = i
      BY <2>2, <1>2, <1>4
    <3> QED BY <3>1, <3>2, <1>2
  <2>3. CASE i > Len(b)
    <3>0. i \in Len(b) + 1 .. Len(b \o s) /\ i \in Len(buffer) + 1 .. Len(buffer \o socket)
      BY <2>3, <1>1, <1>2, <1>4
    <3>1. (b \o s)[i] = s[i - Len(b)] /\ (buffer \o socket)[i] = socket[i - Len(buffer)]
      <4>1. (b \o s)[i] = s[i - Len(b)]
        BY <3>0, <1>1, <1>2, Joined
      <4>2. (buffer \o socket)[i] = socket[i - Len(buffer)]
        BY <3>0, Joined
      <4> QED BY <4>1, <4>2
    <3>2. i - Len(b) \in 1 .. Len(s) /\ n + (i - Len(b)) = i - Len(buffer)
      BY <2>3, <1>1, <1>2, <1>4
    <3> QED BY <3>1, <3>2, <1>1
  <2> QED BY <2>1, <2>2, <2>3, <1>2, <1>4
<1>6. b \o s = buffer \o socket
  <2> DEFINE v == b \o s
             u == buffer \o socket
  <2>1. v \in Seq(Tokens) /\ u \in Seq(Tokens) /\ Len(v) = Len(u)
    BY <1>4
  <2>2. \A i \in 1 .. Len(v) : v[i] = u[i]
    BY <1>5
  <2> HIDE DEF v, u
  <2>3. v = u
    BY <2>1, <2>2
  <2> QED BY <2>3 DEF v, u
<1> QED BY <1>1, <1>2, <1>3, <1>6 DEF b, p, s

\* A read moves tokens, and loses none.
LEMMA Receives ==
    ASSUME WebTypes, NEW c \in Clients, Receive(c)
    PROVE  /\ Alone(c)
           /\ conn'[c].at = conn[c].at /\ conn'[c].answers = conn[c].answers
           /\ conn'[c].request = conn[c].request /\ conn'[c].cursor = conn[c].cursor
           /\ conn'[c].frame = conn[c].frame
           /\ conn'[c].sent = conn[c].sent /\ conn'[c].owes = conn[c].owes
           /\ conn'[c].buffer # <<>> /\ Unserved(conn'[c]) = Unserved(conn[c])
           /\ conn[c].at \in {"head", "body"}
<1>1. PICK k \in Connection : k = conn[c]
  BY DEF WebTypes
<1>2. PICK n \in 1 .. Len(k.socket) :
        Become(c, [k EXCEPT !.buffer = @ \o SubSeq(k.socket, 1, n),
                            !.socket = SubSeq(@, n + 1, Len(@))])
  BY <1>1 DEF Receive
<1> DEFINE b == k.buffer \o SubSeq(k.socket, 1, n)
           s == SubSeq(k.socket, n + 1, Len(k.socket))
           l == [k EXCEPT !.buffer = b, !.socket = s]
<1>3. /\ b \in Seq(Tokens) /\ s \in Seq(Tokens) /\ b # <<>>
      /\ b \o s = k.buffer \o k.socket
  BY ConnectionShape, SocketDrains
<1>4. Become(c, l)
  BY <1>2
<1> HIDE DEF b, s
<1>5. l \in Connection
  BY <1>3 DEF Connection
<1>6. /\ l.at = k.at /\ l.answers = k.answers /\ l.request = k.request /\ l.cursor = k.cursor
      /\ l.frame = k.frame /\ l.sent = k.sent /\ l.owes = k.owes
      /\ l.buffer = b /\ l.socket = s
  BY DEF Connection
<1> HIDE DEF l
<1>7. Alone(c) /\ conn'[c] = l
  BY <1>4, <1>5, Becomes
<1>8. conn[c].at \in {"head", "body"}
  BY DEF Receive, Waiting, At
<1> QED BY <1>1, <1>3, <1>6, <1>7, <1>8 DEF Unserved

\* What a prefix of the buffer leaves is what it leaves of the unserved.
LEMMA BufferDrains ==
    ASSUME NEW buffer \in Seq(Tokens), NEW socket \in Seq(Tokens), NEW m \in 1 .. Len(buffer)
    PROVE  LET u == buffer \o socket
               v == SubSeq(buffer, m + 1, Len(buffer)) \o socket IN
           /\ Len(v) = Len(u) - m
           /\ \A i \in 1 .. Len(v) : v[i] = u[m + i]
           /\ \A i \in 1 .. m : u[i] = buffer[i]
<1> DEFINE p == SubSeq(buffer, m + 1, Len(buffer))
           u == buffer \o socket
           v == p \o socket
<1>1. /\ p \in Seq(Tokens) /\ Len(p) = Len(buffer) - m
      /\ \A i \in 1 .. Len(p) : p[i] = buffer[m + i]
  OBVIOUS
<1> HIDE DEF p
<1>2. Len(v) = Len(u) - m /\ \A i \in 1 .. m : u[i] = buffer[i]
  <2>1. Len(v) = Len(p) + Len(socket) /\ Len(u) = Len(buffer) + Len(socket)
    BY <1>1, Joined
  <2>2. \A i \in 1 .. Len(buffer) : u[i] = buffer[i]
    BY Joined
  <2> QED BY <2>1, <2>2, <1>1
<1>3. ASSUME NEW i \in 1 .. Len(v) PROVE v[i] = u[m + i]
  <2>1. CASE i <= Len(p)
    BY <2>1, <1>1
  <2>2. CASE i > Len(p)
    BY <2>2, <1>1
  <2> QED BY <2>1, <2>2, <1>1
<1> QED BY <1>2, <1>3 DEF p

\* read_body takes the request at the front, and only that.
LEMMA ReadsBody ==
    ASSUME WebTypes, NEW c \in Clients, ReadBody(c), conn[c].buffer # <<>>
    PROVE  LET u == Unserved(conn[c])
               v == Unserved(conn'[c])
               m == IF u[1].request.body THEN 2 ELSE 1 IN
           /\ Alone(c)
           /\ conn[c].at = "body" /\ conn'[c].at = "serve"
           /\ conn'[c].answers = conn[c].answers
           /\ conn'[c].sent = conn[c].sent /\ conn'[c].owes = conn[c].owes
           /\ conn'[c].request = u[1] /\ m <= Len(u)
           /\ Len(v) = Len(u) - m /\ \A i \in 1 .. Len(v) : v[i] = u[m + i]
<1>1. PICK k \in Connection : k = conn[c]
  BY DEF WebTypes
<1>2. k.buffer \in Seq(Tokens) /\ k.socket \in Seq(Tokens)
  BY ConnectionShape
<1> DEFINE m == Needed(c)
           p == SubSeq(k.buffer, m + 1, Len(k.buffer))
           l == [k EXCEPT !.at = "serve", !.request = Head(k.buffer), !.buffer = p]
<1>3. /\ m = (IF k.buffer[1].request.body THEN 2 ELSE 1)
      /\ Head(k.buffer) = k.buffer[1] /\ k.buffer[1] \in Tokens
  BY <1>1, <1>2 DEF Needed
<1>4. m \in 1 .. Len(k.buffer) /\ conn[c].at = "body"
  <2>1. conn[c].at = "body" /\ ~(Len(k.buffer) < m)
    BY <1>1 DEF ReadBody, Waiting, At
  <2> QED BY <2>1, <1>2, <1>3
<1>5. Become(c, l)
  BY <1>1 DEF ReadBody
<1>6. p \in Seq(Tokens)
  BY <1>2, <1>4
<1> HIDE DEF p, m
<1>7. l \in Connection
  BY <1>3, <1>6 DEF Connection, Handling
<1>8. /\ l.at = "serve" /\ l.answers = k.answers /\ l.sent = k.sent /\ l.owes = k.owes
      /\ l.request = k.buffer[1] /\ l.buffer = p /\ l.socket = k.socket
  BY <1>3 DEF Connection
<1> HIDE DEF l
<1>9. Alone(c) /\ conn'[c] = l
  BY <1>5, <1>7, Becomes
<1> DEFINE u == k.buffer \o k.socket
           v == p \o k.socket
<1>10. Len(v) = Len(u) - m /\ \A i \in 1 .. Len(v) : v[i] = u[m + i]
  BY <1>2, <1>4, BufferDrains DEF p
<1>11. u[1] = k.buffer[1]
  <2>1. 1 \in 1 .. Len(k.buffer)
    BY <1>2, <1>4
  <2>2. \A i \in 1 .. Len(k.buffer) : u[i] = k.buffer[i]
    BY <1>2, JoinedFront
  <2> QED BY <2>1, <2>2
<1>12. m <= Len(u)
  <2>1. Len(u) = Len(k.buffer) + Len(k.socket) /\ Len(k.socket) \in Nat /\ Len(k.buffer) \in Nat
    BY <1>2, Joined
  <2> DEFINE a == Len(k.buffer)
             b == Len(k.socket)
  <2>2. a \in Nat /\ b \in Nat /\ Len(u) = a + b /\ m \in 1 .. a
    BY <2>1, <1>4
  <2> HIDE DEF u, a, b
  <2> QED BY <2>2
<1>13. Unserved(conn[c]) = u /\ Unserved(conn'[c]) = v
  BY <1>1, <1>8, <1>9 DEF Unserved
<1> HIDE DEF u, v
<1> QED BY <1>1, <1>3, <1>4, <1>8, <1>9, <1>10, <1>11, <1>12, <1>13

\* A call is answered.
LEMMA ServesCall ==
    ASSUME WebTypes, NEW c \in Clients, ServeCall(c), conn[c].request \in Tokens
    PROVE  /\ Alone(c) /\ Same(conn[c], conn'[c])
           /\ conn[c].at = "serve" /\ conn'[c].at \in {"head", "leaving"}
           /\ conn'[c].answers = Append(conn[c].answers, conn[c].request.of)
<1>1. PICK k \in Connection : k = conn[c]
  BY DEF WebTypes
<1> DEFINE place == IF k.request.request.keep /\ ~k.hungup THEN "head" ELSE "leaving"
           answers == Append(k.answers, k.request.of)
           l == [k EXCEPT !.answers = answers, !.served = k.served + 1, !.at = place]
<1>2. Become(c, l) /\ k.at = "serve"
  BY <1>1 DEF ServeCall, At
<1>3. answers \in Seq(Nat) /\ place \in {"head", "leaving"} /\ k.served + 1 \in Nat
  <2>1. k.request.of \in Nat
    BY <1>1 DEF Tokens
  <2> QED BY <2>1, ConnectionShape
<1> HIDE DEF place, answers
<1>4. place \in Handling
  BY <1>3 DEF Handling
<1>5. l \in Connection
  BY <1>3, <1>4 DEF Connection
<1>6. Same(k, l) /\ l.at = place /\ l.answers = answers
  BY <1>3, <1>4 DEF Connection, Same
<1> HIDE DEF l
<1>7. Alone(c) /\ conn'[c] = l
  BY <1>2, <1>5, Becomes
<1> QED BY <1>1, <1>2, <1>3, <1>6, <1>7 DEF answers

\* stream_tail starts from the cursor asked for.
LEMMA ServesTail ==
    ASSUME WebTypes, ServingAssumption, NEW c \in Clients, ServeTail(c),
           conn[c].request \in Tokens, conn[c].request.part = "head"
    PROVE  /\ Alone(c) /\ conn[c].at = "serve" /\ conn'[c].at = "read"
           /\ conn'[c].cursor = conn[c].request.cursor
           /\ conn'[c].answers = Append(conn[c].answers, conn[c].request.of)
           /\ Unserved(conn'[c]) = <<>>
<1>1. PICK k \in Connection : k = conn[c]
  BY DEF WebTypes
<1>2. k.request \in Tokens
  BY <1>1
<1>3. k.request.of \in Nat /\ k.request.cursor \in Cursors \cup {None}
  BY <1>1, <1>2 DEF Tokens
<1> DEFINE sent == scope.sent[c]
           answers == Append(k.answers, k.request.of)
           l == [Fresh EXCEPT !.at = "read", !.hungup = k.hungup, !.sent = sent,
                              !.answers = answers, !.cursor = k.request.cursor,
                              !.opening = Backfill]
<1>4. Become(c, l) /\ k.at = "serve"
  BY <1>1 DEF ServeTail, At
<1>5. sent \in Nat /\ answers \in Seq(Nat) /\ k.hungup \in BOOLEAN /\ Backfill \in Nat
  BY <1>3, ConnectionShape DEF WebTypes, ServingAssumption
<1> HIDE DEF sent, answers
<1>6. k.request.cursor \in Cursors \cup {None} /\ "read" \in Handling
  BY <1>3 DEF Handling
<1>7. l \in Connection
  BY <1>5, <1>6, FreshIsTyped DEF Connection
<1>8. l.at = "read" /\ l.cursor = k.request.cursor /\ l.answers = answers /\ Unserved(l) = <<>>
  <2>1. l.at = "read" /\ l.cursor = k.request.cursor /\ l.answers = answers
    BY FreshIsTyped DEF Connection
  <2>2. l.buffer = Fresh.buffer /\ l.socket = Fresh.socket
    BY FreshIsTyped DEF Connection
  <2>3. Unserved(l) = Unserved(Fresh)
    BY <2>2 DEF Unserved
  <2> QED BY <2>1, <2>3, FreshIsTyped
<1> HIDE DEF l
<1>9. Alone(c) /\ conn'[c] = l
  BY <1>4, <1>7, Becomes
<1> QED BY <1>1, <1>4, <1>8, <1>9 DEF answers

\* A frame is on its way.
LEMMA GetsFrame ==
    ASSUME WebTypes, NEW c \in Clients, NEW r \in Frames, Framed(c, r)
    PROVE  /\ Alone(c) /\ conn'[c].at = "frame" /\ conn'[c].frame = r
           /\ conn'[c].cursor = conn[c].cursor /\ conn'[c].answers = conn[c].answers
           /\ Unserved(conn'[c]) = Unserved(conn[c])
<1>1. PICK k \in Connection : k = conn[c]
  BY DEF WebTypes
<1> DEFINE l == [k EXCEPT !.at = "frame", !.opening = 0, !.frame = r]
<1>2. Become(c, l)
  BY <1>1 DEF Framed
<1>3. l \in Connection
  BY DEF Connection, Handling
<1>4. /\ l.at = "frame" /\ l.frame = r /\ l.cursor = k.cursor /\ l.answers = k.answers
      /\ l.buffer = k.buffer /\ l.socket = k.socket
  BY DEF Connection
<1> HIDE DEF l
<1>5. Alone(c) /\ conn'[c] = l
  BY <1>2, <1>3, Becomes
<1> QED BY <1>1, <1>4, <1>5 DEF Unserved

\* The frame is written, and the stream goes on from its cursor, or over again.
LEMMA Writes ==
    ASSUME WebTypes, ServingAssumption, NEW c \in Clients, WriteFrame(c), conn[c].frame \in Frames
    PROVE  LET frame == conn[c].frame IN
           /\ Alone(c) /\ conn[c].at = "frame" /\ conn'[c].at = "read"
           /\ conn'[c].cursor = (IF frame.gap THEN None ELSE frame.cursor)
           /\ conn'[c].answers = conn[c].answers
           /\ Unserved(conn'[c]) = Unserved(conn[c])
           /\ Hear(c, frame)
<1>1. PICK k \in Connection : k = conn[c]
  BY DEF WebTypes
<1> DEFINE cursor == IF k.frame.gap THEN None ELSE k.frame.cursor
           opening == IF k.frame.gap THEN Backfill ELSE 0
           l == [k EXCEPT !.at = "read", !.frame = None, !.cursor = cursor, !.opening = opening]
<1>2. Become(c, l) /\ k.at = "frame" /\ Hear(c, k.frame)
  BY <1>1 DEF WriteFrame, At
<1>3. cursor \in Cursors \cup {None} /\ opening \in Nat
  <2>1. ~k.frame.gap => k.frame.cursor \in Cursors
    BY <1>1 DEF Frames
  <2> QED BY <2>1 DEF ServingAssumption
<1> HIDE DEF cursor, opening
<1>4. l \in Connection
  BY <1>3 DEF Connection, Handling
<1>5. /\ l.at = "read" /\ l.cursor = cursor /\ l.answers = k.answers
      /\ l.buffer = k.buffer /\ l.socket = k.socket
  BY DEF Connection
<1> HIDE DEF l
<1>6. Alone(c) /\ conn'[c] = l
  BY <1>2, <1>4, Becomes
<1> QED BY <1>1, <1>2, <1>5, <1>6 DEF Unserved, cursor

----------------------------------------------------------------------------
(* Streams.                                                                *)

\* What is whole stays whole while the ring moves on.
LEMMA WholeStaysWhole ==
    ASSUME RingInv, RingGrows, NEW h \in Hearing, IsWhole(h)
    PROVE  IsWhole(h)'
<1>1. NextSeq \in Nat /\ NextSeq' \in Nat /\ NextSeq <= NextSeq' /\ epoch' = epoch
  BY RingShape DEF RingInv, RingGrows
<1>2. ASSUME h.token # None, h.token.epoch = epoch
      PROVE  /\ h.token.seq <= NextSeq'
             /\ \A q \in (h.base .. h.token.seq - 1) \ InFrames(h.got) : Excused(q)'
  <2>1. h.token.seq \in Nat /\ h.base \in Nat /\ h.token.seq <= NextSeq
    BY <1>2 DEF IsWhole, Hearing, Cursors
  <2>2. ASSUME NEW q \in (h.base .. h.token.seq - 1) \ InFrames(h.got) PROVE Excused(q)'
    <3>1. Excused(q)
      BY <1>2 DEF IsWhole, Complete
    <3>2. q \in 0 .. NextSeq - 1
      BY <2>1, <1>1
    <3> QED BY <3>1, <3>2 DEF RingGrows
  <2> QED BY <2>1, <2>2, <1>1
<1> QED BY <1>1, <1>2 DEF IsWhole, Complete

\* And so does a frame.
LEMMA FrameStaysWhole ==
    ASSUME RingInv, RingGrows, NEW frame, NEW cursor, FrameIsWhole(frame, cursor)
    PROVE  FrameIsWhole(frame, cursor)'
<1>1. NextSeq \in Nat /\ NextSeq' \in Nat /\ NextSeq <= NextSeq' /\ epoch' = epoch
  BY RingShape DEF RingInv, RingGrows
<1>2. ASSUME ~frame.gap
      PROVE  /\ frame.cursor.seq <= NextSeq'
             /\ \A q \in (frame.from .. frame.cursor.seq - 1) \ frame.spans : Excused(q)'
  <2>1. frame.from \in Nat /\ frame.cursor.seq \in Nat /\ frame.cursor.seq <= NextSeq
    BY <1>2 DEF FrameIsWhole, Frames, Cursors
  <2>2. ASSUME NEW q \in (frame.from .. frame.cursor.seq - 1) \ frame.spans PROVE Excused(q)'
    <3>1. Excused(q)
      BY <1>2 DEF FrameIsWhole, Complete
    <3>2. q \in 0 .. NextSeq - 1
      BY <2>1, <1>1
    <3> QED BY <3>1, <3>2 DEF RingGrows
  <2> QED BY <2>1, <2>2, <1>1
<1> QED BY <1>1, <1>2 DEF FrameIsWhole, Complete

\* What StreamInv says of one client.
StreamOf(c) ==
    /\ heard[c] \in Hearing
    /\ IsWhole(heard[c])
    /\ Resumes(conn[c], heard[c].token)
    /\ At(c, "frame") => FrameIsWhole(conn[c].frame, conn[c].cursor)

\* What a client has heard stays whole as long as it hears nothing new.
LEMMA HeardStaysWhole ==
    ASSUME RingInv, RingGrows, NEW c \in Clients, StreamOf(c), heard'[c] = heard[c]
    PROVE  heard'[c] \in Hearing /\ IsWhole(heard[c])'
<1>1. PICK h \in Hearing : h = heard[c]
  BY DEF StreamOf
<1>2. IsWhole(h)
  BY <1>1 DEF StreamOf
<1>3. IsWhole(h)'
  BY <1>2, WholeStaysWhole
<1>4. heard'[c] = h
  BY <1>1
<1> QED BY <1>3, <1>4 DEF IsWhole, Complete

\* A client that neither moves nor hears keeps its part of the invariant.
LEMMA StreamStays ==
    ASSUME RingInv, RingGrows, NEW c \in Clients, StreamOf(c),
           heard'[c] = heard[c], conn'[c] = conn[c]
    PROVE  StreamOf(c)'
<1>1. heard'[c] \in Hearing /\ IsWhole(heard[c])'
  BY HeardStaysWhole
<1>2. PICK k : k = conn[c]
  OBVIOUS
<1>3. conn'[c] = k
  BY <1>2
<1>4. Resumes(conn'[c], heard'[c].token)
  BY DEF StreamOf
<1>5. k.at = "frame" => FrameIsWhole(k.frame, k.cursor)'
  <2>1. k.at = "frame" => FrameIsWhole(k.frame, k.cursor)
    BY <1>2 DEF StreamOf, At
  <2> QED BY <2>1, FrameStaysWhole
<1>6. At(c, "frame")' => FrameIsWhole(conn[c].frame, conn[c].cursor)'
  BY <1>3, <1>5 DEF At, FrameIsWhole, Complete
<1> QED BY <1>1, <1>4, <1>6 DEF StreamOf

\* Nor does it lose it when it moves without hearing, and the frame it has, if any,
\* is the one it had.
LEMMA StreamMoves ==
    ASSUME RingInv, RingGrows, NEW c \in Clients, StreamOf(c), heard'[c] = heard[c],
           Resumes(conn'[c], heard[c].token),
           conn'[c].at = "frame" => /\ conn[c].at = "frame"
                                    /\ conn'[c].frame = conn[c].frame
                                    /\ conn'[c].cursor = conn[c].cursor
    PROVE  StreamOf(c)'
<1>1. heard'[c] \in Hearing /\ IsWhole(heard[c])'
  BY HeardStaysWhole
<1>2. PICK f, u : f = conn[c].frame /\ u = conn[c].cursor
  OBVIOUS
<1>3. conn'[c].at = "frame" => FrameIsWhole(f, u)'
  <2>1. conn'[c].at = "frame" => FrameIsWhole(f, u)
    BY <1>2 DEF StreamOf, At
  <2> QED BY <2>1, FrameStaysWhole
<1>4. At(c, "frame")' => FrameIsWhole(conn[c].frame, conn[c].cursor)'
  BY <1>2, <1>3 DEF At, FrameIsWhole, Complete
<1> QED BY <1>1, <1>4 DEF StreamOf

\* A connection that only goes elsewhere resumes where it would have.
LEMMA ResumesSame ==
    ASSUME NEW k, NEW l, NEW token, Resumes(k, token), Same(k, l),
           l.at \in Unanswered => k.at \in Unanswered,
           l.at \in {"body", "serve"} => k.at = l.at,
           l.at \in {"read", "asleep", "frame"} => k.at \in {"read", "asleep", "frame"}
    PROVE  Resumes(l, token)
<1>1. /\ Unserved(l) = Unserved(k) /\ l.buffer = k.buffer
      /\ l.cursor = k.cursor /\ l.request = k.request
  BY DEF Same, Unserved
<1> QED BY <1>1 DEF Resumes

\* Nor does it matter to it what else arrives.
LEMMA ResumesLonger ==
    ASSUME NEW k, NEW l, NEW token, Resumes(k, token), NEW t \in Tokens,
           Unserved(k) \in Seq(Tokens), Unserved(l) = Append(Unserved(k), t),
           t.part = "head" => t.cursor \in {None, token},
           l.at = k.at, l.request = k.request, l.cursor = k.cursor, l.buffer = k.buffer
    PROVE  Resumes(l, token)
<1>1. PICK u \in Seq(Tokens) : u = Unserved(k)
  OBVIOUS
<1> DEFINE v == Append(u, t)
<1>2. /\ v # <<>> /\ DOMAIN v = 1 .. Len(u) + 1
      /\ v[Len(u) + 1] = t /\ \A i \in 1 .. Len(u) : v[i] = u[i]
  OBVIOUS
<1>3. Unserved(l) = v
  BY <1>1
<1>4. DOMAIN u = 1 .. Len(u) /\ Len(u) \in Nat
  OBVIOUS
<1>5. u # <<>> => 1 \in 1 .. Len(u)
  OBVIOUS
<1> HIDE DEF v
<1> QED BY <1>1, <1>2, <1>3, <1>4, <1>5 DEF Resumes

\* The first token that is unserved is that of the buffer.
LEMMA FirstUnserved ==
    ASSUME NEW k \in Connection, k.buffer # <<>>
    PROVE  /\ Unserved(k) # <<>> /\ Unserved(k)[1] = Head(k.buffer)
           /\ Head(k.buffer) = k.buffer[1] /\ k.buffer[1] \in Tokens
<1>1. k.buffer \in Seq(Tokens) /\ k.socket \in Seq(Tokens)
  BY ConnectionShape
<1>2. 1 \in 1 .. Len(k.buffer) /\ Head(k.buffer) = k.buffer[1] /\ k.buffer[1] \in Tokens
  BY <1>1
<1>3. /\ \A i \in 1 .. Len(k.buffer) : Unserved(k)[i] = k.buffer[i]
      /\ Len(Unserved(k)) = Len(k.buffer) + Len(k.socket)
  <2>1. Unserved(k) = k.buffer \o k.socket
    BY DEF Unserved
  <2>2. \A i \in 1 .. Len(k.buffer) : (k.buffer \o k.socket)[i] = k.buffer[i]
    BY <1>1, JoinedFront
  <2>3. Len(k.buffer \o k.socket) = Len(k.buffer) + Len(k.socket)
    BY <1>1, Joined
  <2> QED BY <2>1, <2>2, <2>3
<1>4. Unserved(k) # <<>>
  <2>1. Len(k.buffer) \in Nat /\ Len(k.socket) \in Nat /\ Len(k.buffer) > 0
    BY <1>1, <1>2
  <2>2. Len(Unserved(k)) # 0
    <3> DEFINE a == Len(k.buffer)
               b == Len(k.socket)
    <3>1. a \in Nat /\ b \in Nat /\ a > 0 /\ Len(Unserved(k)) = a + b
      BY <2>1, <1>3
    <3> HIDE DEF a, b
    <3> QED BY <3>1
  <2>3. Len(<<>>) = 0
    OBVIOUS
  <2> QED BY <2>2, <2>3
<1> QED BY <1>2, <1>3, <1>4

\* A step of one client keeps what was known of all.
LEMMA OneClient ==
    ASSUME RingInv, RingGrows, WebTypes, StreamInv, NEW c \in Clients, Alone(c), scope' = scope,
           \/ heard' = heard
           \/ \E h : heard' = [heard EXCEPT ![c] = h],
           StreamOf(c)'
    PROVE  WebTypes' /\ StreamInv'
<1>1. \A d \in Clients \ {c} : heard'[d] = heard[d] /\ conn'[d] = conn[d]
  BY DEF WebTypes, Alone
<1>2. \A d \in Clients : StreamOf(d)
  BY DEF StreamInv, StreamOf, WebTypes
<1>3. ASSUME NEW d \in Clients \ {c} PROVE StreamOf(d)'
  BY <1>1, <1>2, StreamStays
<1>4. \A d \in Clients : StreamOf(d)'
  BY <1>3
<1>5. heard' \in [Clients -> Hearing]
  <2>1. \A d \in Clients : heard'[d] \in Hearing
    BY <1>4 DEF StreamOf
  <2>2. heard' = [d \in Clients |-> heard'[d]]
    BY DEF WebTypes
  <2> QED BY <2>1, <2>2
<1> QED BY <1>4, <1>5 DEF StreamInv, StreamOf, WebTypes, Alone

\* A step of one client that hears nothing.
LEMMA OneClientDeaf ==
    ASSUME RingInv, RingGrows, WebTypes, StreamInv, NEW c \in Clients, Alone(c), scope' = scope,
           heard' = heard,
           Resumes(conn'[c], heard[c].token),
           conn'[c].at = "frame" => /\ conn[c].at = "frame"
                                    /\ conn'[c].frame = conn[c].frame
                                    /\ conn'[c].cursor = conn[c].cursor
    PROVE  WebTypes' /\ StreamInv'
<1>1. StreamOf(c)
  BY DEF StreamInv, StreamOf, WebTypes
<1>2. StreamOf(c)'
  BY <1>1, StreamMoves
<1> QED BY <1>2, OneClient

\* The steps of a client.
LEMMA StreamClient ==
    ASSUME RingInv, RingGrows, WebTypes, StreamInv, ServingAssumption, NEW c \in Clients, Client(c)
    PROVE  WebTypes' /\ StreamInv'
<1> DEFINE k == conn[c]
           l == conn'[c]
           token == heard[c].token
<1>0. Resumes(k, token) /\ k \in Connection /\ Unserved(k) \in Seq(Tokens)
  BY ConnectionShape DEF StreamInv, WebTypes
<1> HIDE DEF k, l, token
<1>1. CASE Connect(c)
  <2>1. Alone(c) /\ l = Fresh /\ scope' = scope /\ heard' = heard
    BY <1>1, FreshIsTyped, Becomes DEF Connect, l
  <2>2. Resumes(l, token) /\ l.at # "frame"
    BY <2>1, FreshIsTyped DEF Resumes, Unanswered
  <2> QED BY <2>1, <2>2, OneClientDeaf DEF l, token
<1>2. CASE SendBody(c)
  <2>1. scope' = scope /\ heard' = heard
    BY <1>2 DEF SendBody, Here
  <2>2. PICK t \in Tokens : /\ Unserved(l) = Append(Unserved(k), t)
                            /\ t.part = "body"
    BY <1>2, SendsBody DEF k, l
  <2>3. /\ Alone(c) /\ l.at = k.at /\ l.request = k.request /\ l.cursor = k.cursor
        /\ l.frame = k.frame /\ l.buffer = k.buffer
    BY <1>2, SendsBody DEF k, l
  <2>4. Resumes(l, token)
    BY <1>0, <2>2, <2>3, ResumesLonger
  <2> QED BY <2>1, <2>3, <2>4, OneClientDeaf DEF k, l, token
<1>3. CASE HangUp(c)
  <2>1. scope' = scope /\ heard' = heard
    BY <1>3 DEF HangUp, Here
  <2>2. Alone(c) /\ Same(k, l) /\ l.at = k.at
    BY <1>3, HangsUp DEF k, l
  <2>3. Resumes(l, token)
    BY <1>0, <2>2, ResumesSame
  <2>4. l.frame = k.frame /\ l.cursor = k.cursor
    BY <2>2 DEF Same
  <2> QED BY <2>1, <2>2, <2>3, <2>4, OneClientDeaf DEF k, l, token
<1>4. ASSUME NEW r \in scope.requests[c], Send(c, r) PROVE WebTypes' /\ StreamInv'
  <2>1. scope' = scope /\ heard' = heard
    BY <1>4 DEF Send, Here
  <2>2. PICK t \in Tokens : /\ Unserved(l) = Append(Unserved(k), t)
                            /\ t.cursor \in {None, token}
    BY <1>4, Sends DEF k, l, token
  <2>3. /\ Alone(c) /\ l.at = k.at /\ l.request = k.request /\ l.cursor = k.cursor
        /\ l.frame = k.frame /\ l.buffer = k.buffer
    BY <1>4, Sends DEF k, l
  <2>4. Resumes(l, token)
    BY <1>0, <2>2, <2>3, ResumesLonger
  <2> QED BY <2>1, <2>3, <2>4, OneClientDeaf DEF k, l, token
<1> QED BY <1>1, <1>2, <1>3, <1>4 DEF Client

\* The steps of the accept loop, and those of a handler before and after a stream.
LEMMA StreamHandler ==
    ASSUME RingInv, RingGrows, WebTypes, StreamInv, ServingAssumption, NEW c \in Clients,
           \/ Accept(c) \/ EndRefusal(c) \/ Receive(c) \/ EndOfInput(c) \/ Recycle(c)
           \/ RefuseHead(c) \/ ServeAsset(c) \/ Reject(c) \/ Admit(c) \/ ReadBody(c)
           \/ ServeCall(c) \/ Panic(c) \/ Release(c) \/ LoseTail(c)
    PROVE  WebTypes' /\ StreamInv'
<1> DEFINE k == conn[c]
           l == conn'[c]
           token == heard[c].token
<1>0. Resumes(k, token) /\ k \in Connection /\ Unserved(k) \in Seq(Tokens)
  BY ConnectionShape DEF StreamInv, WebTypes
<1> HIDE DEF k, l, token
<1>h. scope' = scope /\ heard' = heard
  BY DEF Accept, EndRefusal, Receive, EndOfInput, Recycle, RefuseHead, ServeAsset, Reject, Admit,
         ReadBody, ServeCall, Panic, Release, LoseTail, Here
<1>a. ASSUME Become(c, Away) PROVE WebTypes' /\ StreamInv'
  <2>1. Alone(c) /\ l = Away
    BY <1>a, FreshIsTyped, Becomes DEF l
  <2>2. Resumes(l, token) /\ l.at # "frame"
    BY <2>1, FreshIsTyped DEF Resumes, Unanswered
  <2> QED BY <1>h, <2>1, <2>2, OneClientDeaf DEF l, token
<1>s. ASSUME Alone(c), Same(k, l),
             \/ l.at \in {"refusing", "leaving"}
             \/ l.at = "head" /\ k.at \in Unanswered
      PROVE  WebTypes' /\ StreamInv'
  <2>1. Resumes(l, token)
    BY <1>0, <1>s, ResumesSame DEF Unanswered
  <2>2. l.at # "frame"
    BY <1>s
  <2> QED BY <1>h, <1>s, <2>1, <2>2, OneClientDeaf DEF l, token
<1>1. CASE Accept(c)
  <2>1. k.at = "queued"
    BY <1>1 DEF Accept, At, k
  <2>2. Become(c, Away) \/ Goto(c, "head") \/ Goto(c, "refusing")
    BY <1>1 DEF Accept
  <2>3. CASE Goto(c, "head") \/ Goto(c, "refusing")
    BY <2>1, <2>3, <1>s, GoesTo DEF k, l, Places, Handling, Unanswered
  <2> QED BY <2>2, <2>3, <1>a
<1>2. CASE EndRefusal(c) \/ Release(c)
  BY <1>2, <1>a DEF EndRefusal, Release
<1>3. CASE EndOfInput(c) \/ Recycle(c) \/ Panic(c) \/ LoseTail(c)
  <2>1. Goto(c, "leaving")
    BY <1>3 DEF EndOfInput, Recycle, Panic, LoseTail
  <2> QED BY <2>1, <1>s, GoesTo DEF k, l, Places, Handling
<1>4. CASE RefuseHead(c) \/ ServeAsset(c) \/ Reject(c)
  <2>1. AtFront(c) /\ \E keep : Answer(c, keep)
    BY <1>4 DEF RefuseHead, ServeAsset, Reject
  <2>2. k.at = "head" /\ conn[c].buffer # <<>>
    BY <2>1 DEF AtFront, At, k
  <2>3. PICK keep : Answer(c, keep)
    BY <2>1
  <2>4. Alone(c) /\ Same(k, l) /\ l.at = (IF keep THEN "head" ELSE "leaving")
    BY <2>2, <2>3, AnswersFront DEF k, l
  <2> QED BY <2>2, <2>4, <1>s DEF Unanswered
<1>5. CASE Admit(c)
  <2>1. Goto(c, "body") /\ k.at = "head" /\ k.buffer # <<>> /\ Head(k.buffer).part = "head"
    BY <1>5 DEF Admit, AtFront, FrontIs, At, k
  <2>2. Alone(c) /\ Same(k, l) /\ l.at = "body"
    BY <2>1, GoesTo DEF k, l, Places, Handling
  <2>3. l.buffer = k.buffer /\ Unserved(l) = Unserved(k)
    BY <2>2 DEF Same, Unserved
  <2>4. Unserved(k) # <<>> /\ Unserved(k)[1] = Head(k.buffer)
    BY <1>0, <2>1, FirstUnserved
  <2>5. Resumes(l, token)
    BY <1>0, <2>1, <2>2, <2>3, <2>4 DEF Resumes, Unanswered
  <2> QED BY <1>h, <2>2, <2>5, OneClientDeaf DEF l, token
<1>6. CASE Receive(c)
  <2>1. /\ Alone(c) /\ l.at = k.at /\ l.request = k.request /\ l.cursor = k.cursor
        /\ Unserved(l) = Unserved(k) /\ k.at \in {"head", "body"} /\ l.buffer # <<>>
    BY <1>6, Receives DEF k, l
  <2>2. Resumes(l, token)
    BY <1>0, <2>1 DEF Resumes
  <2> QED BY <1>h, <2>1, <2>2, OneClientDeaf DEF k, l, token
<1>7. CASE ReadBody(c)
  <2>1. conn[c].buffer # <<>> /\ Unserved(k) # <<>> /\ Unserved(k)[1].part = "head"
    BY <1>0, <1>7 DEF ReadBody, Resumes, At, k
  <2>2. PICK m \in 1 .. 2 :
          /\ Alone(c) /\ k.at = "body" /\ l.at = "serve"
          /\ l.request = Unserved(k)[1] /\ m <= Len(Unserved(k))
          /\ Len(Unserved(l)) = Len(Unserved(k)) - m
          /\ \A i \in 1 .. Len(Unserved(l)) : Unserved(l)[i] = Unserved(k)[m + i]
    <3> DEFINE m == IF Unserved(k)[1].request.body THEN 2 ELSE 1
    <3>1. m \in 1 .. 2
      OBVIOUS
    <3> QED BY <1>7, <2>1, <3>1, ReadsBody DEF k, l
  <2> DEFINE u == Unserved(k)
             v == Unserved(l)
  <2>3. \A i \in 1 .. Len(u) : u[i].part = "head" => u[i].cursor \in {None, token}
    BY <1>0, <2>2 DEF Resumes, Unanswered
  <2>4. l \in Connection
    BY <2>2 DEF Alone, l
  <2>5. v \in Seq(Tokens)
    BY <2>4, ConnectionShape
  <2>6. \A i \in 1 .. Len(v) : v[i].part = "head" => v[i].cursor \in {None, token}
    <3> SUFFICES ASSUME NEW i \in 1 .. Len(v)
                 PROVE  v[i].part = "head" => v[i].cursor \in {None, token}
      OBVIOUS
    <3> HIDE DEF u, v
    <3>1. m + i \in 1 .. Len(u) /\ v[i] = u[m + i]
      BY <1>0, <2>2, <2>5 DEF u, v
    <3> QED BY <2>3, <3>1
  <2>7. u[1] \in Tokens /\ 1 \in 1 .. Len(u)
    BY <1>0, <2>2
  <2>9. Resumes(l, token)
    <3>1. l.request \in Tokens /\ l.request.part = "head" /\ l.request.cursor \in {None, token}
      BY <2>1, <2>2, <2>3, <2>7
    <3>2. DOMAIN v = 1 .. Len(v)
      BY <2>5
    <3> QED BY <2>2, <2>6, <3>1, <3>2 DEF Resumes
  <2> QED BY <1>h, <2>2, <2>9, OneClientDeaf DEF l, token
<1>8. CASE ServeCall(c)
  <2>1. conn[c].request \in Tokens /\ conn[c].at = "serve"
    BY <1>0, <1>8 DEF Resumes, ServeCall, At, k
  <2>2. Alone(c) /\ Same(k, l) /\ l.at \in {"head", "leaving"}
    BY <1>8, <2>1, ServesCall DEF k, l
  <2> QED BY <2>1, <2>2, <1>s DEF Unanswered, k
<1> QED BY <1>1, <1>2, <1>3, <1>4, <1>5, <1>6, <1>7, <1>8

\* A stream begins where the client was left, or over again.
LEMMA StreamBegins ==
    ASSUME RingInv, RingGrows, WebTypes, StreamInv, ServingAssumption, NEW c \in Clients,
           ServeTail(c)
    PROVE  WebTypes' /\ StreamInv'
<1> DEFINE k == conn[c]
           token == heard[c].token
<1>1. /\ k.request \in Tokens /\ k.request.part = "head"
      /\ k.request.cursor \in {None, token}
  BY DEF StreamInv, Resumes, ServeTail, At
<1>2. /\ Alone(c) /\ conn'[c].at = "read" /\ conn'[c].cursor = k.request.cursor
  BY <1>1, ServesTail
<1>3. /\ scope' = scope
      /\ heard' = [heard EXCEPT ![c] = IF k.request.cursor = None THEN Nothing ELSE heard[c]]
  BY DEF ServeTail
<1>4. Nothing \in Hearing /\ Nothing.token = None /\ Nothing.got = <<>>
  BY DEF Nothing, Hearing
<1>5. PICK h \in Hearing : h = heard'[c]
  <2>1. heard[c] \in Hearing /\ DOMAIN heard = Clients
    BY DEF WebTypes
  <2>2. heard'[c] = IF k.request.cursor = None THEN Nothing ELSE heard[c]
    BY <1>3, <2>1
  <2> QED BY <2>1, <2>2, <1>4
<1>6. h = (IF k.request.cursor = None THEN Nothing ELSE heard[c])
  BY <1>3, <1>5 DEF WebTypes
<1>7. IsWhole(h)'
  <2>1. CASE k.request.cursor = None
    BY <2>1, <1>4, <1>6 DEF IsWhole
  <2>2. CASE k.request.cursor # None
    <3>1. IsWhole(h)
      BY <2>2, <1>6 DEF StreamInv
    <3> QED BY <3>1, WholeStaysWhole
  <2> QED BY <2>1, <2>2
<1>8. conn'[c].cursor = h.token
  BY <1>1, <1>2, <1>4, <1>6
<1>9. Resumes(conn'[c], h.token)
  BY <1>2, <1>8 DEF Resumes, Unanswered
<1>10. IsWhole(heard[c])'
  BY <1>5, <1>7 DEF IsWhole, Complete
<1>11. StreamOf(c)'
  BY <1>2, <1>5, <1>9, <1>10 DEF StreamOf, At
<1> QED BY <1>2, <1>3, <1>11, OneClient

\* A read of the ring becomes a frame, or was made at its head.
LEMMA StreamReads ==
    ASSUME RingInv, RingGrows, WebTypes, StreamInv, ServingAssumption, NEW c \in Clients,
           NEW r, NEW opening \in Nat, r = Read(conn[c].cursor, opening, Limit, Wanted),
           Framed(c, r), scope' = scope, heard' = heard, conn[c].at \in {"read", "asleep"}
    PROVE  WebTypes' /\ StreamInv'
<1>1. PICK k \in Connection : k = conn[c]
  BY DEF WebTypes
<1>2. Addressed(k.cursor)
  BY ConnectionShape DEF Addressed
<1>3. FrameIsWhole(r, k.cursor)
  BY <1>1, <1>2, ReadIsWhole
<1>4. r \in Frames
  BY <1>3 DEF FrameIsWhole
<1>5. /\ Alone(c) /\ conn'[c].at = "frame" /\ conn'[c].frame = r /\ conn'[c].cursor = k.cursor
  BY <1>1, <1>4, GetsFrame
<1>6. FrameIsWhole(r, k.cursor)'
  BY <1>3, FrameStaysWhole
<1>7. FrameIsWhole(conn[c].frame, conn[c].cursor)'
  BY <1>5, <1>6 DEF FrameIsWhole, Complete
<1>8. StreamOf(c)
  BY DEF StreamInv, StreamOf, WebTypes
<1>9. Resumes(conn'[c], heard[c].token)
  BY <1>1, <1>5, <1>8 DEF StreamOf, Resumes, Unanswered
<1>10. heard'[c] \in Hearing /\ IsWhole(heard[c])'
  BY <1>8, HeardStaysWhole
<1>11. StreamOf(c)'
  BY <1>7, <1>9, <1>10 DEF StreamOf
<1> QED BY <1>5, <1>11, OneClient

\* What a frame adds to what was heard.
LEMMA FrameAdds ==
    ASSUME NEW frames \in Seq(SUBSET Nat), NEW spans \in SUBSET Nat, spans # {},
           NEW longer, longer = Append(frames, spans)
    PROVE  /\ longer \in Seq(SUBSET Nat)
           /\ InFrames(longer) = InFrames(frames) \cup spans
           /\ Ascending(frames) /\ (\A a \in InFrames(frames), b \in spans : a < b)
                 => Ascending(longer)
<1> DEFINE n == Len(frames)
<1>1. /\ n \in Nat /\ DOMAIN frames = 1 .. n /\ DOMAIN longer = 1 .. n + 1
      /\ longer[n + 1] = spans /\ \A i \in 1 .. n : longer[i] = frames[i]
      /\ longer \in Seq(SUBSET Nat)
  OBVIOUS
<1> HIDE DEF n
<1>2. InFrames(longer) \subseteq InFrames(frames) \cup spans
  <2> SUFFICES ASSUME NEW i \in 1 .. n + 1, NEW x \in longer[i]
               PROVE  x \in InFrames(frames) \cup spans
    BY <1>1 DEF InFrames
  <2>1. CASE i = n + 1
    BY <2>1, <1>1
  <2>2. CASE i # n + 1
    <3>1. i \in 1 .. n
      BY <2>2, <1>1
    <3>2. x \in frames[i]
      BY <3>1, <1>1
    <3> QED BY <3>1, <3>2, <1>1 DEF InFrames
  <2> QED BY <2>1, <2>2
<1>3. InFrames(frames) \subseteq InFrames(longer)
  <2> SUFFICES ASSUME NEW i \in 1 .. n, NEW x \in frames[i] PROVE x \in InFrames(longer)
    BY <1>1 DEF InFrames
  <2>1. i \in 1 .. n + 1 /\ x \in longer[i]
    BY <1>1
  <2> QED BY <2>1, <1>1 DEF InFrames
<1>4. spans \subseteq InFrames(longer)
  <2>1. n + 1 \in 1 .. n + 1
    BY <1>1
  <2> QED BY <2>1, <1>1 DEF InFrames
<1>5. ASSUME Ascending(frames), \A a \in InFrames(frames), b \in spans : a < b
      PROVE  Ascending(longer)
  <2> SUFFICES ASSUME NEW i \in 1 .. n + 1, NEW j \in 1 .. n + 1, i < j,
                      NEW a \in longer[i], NEW b \in longer[j]
               PROVE  a < b
    BY <1>1 DEF Ascending
  <2>1. i \in 1 .. n
    BY <1>1
  <2>2. a \in frames[i]
    BY <2>1, <1>1
  <2>3. CASE j = n + 1
    <3>1. a \in InFrames(frames)
      BY <2>1, <2>2, <1>1 DEF InFrames
    <3>2. b \in spans
      BY <2>3, <1>1
    <3> QED BY <3>1, <3>2, <1>5
  <2>4. CASE j # n + 1
    <3>1. j \in 1 .. n
      BY <2>4, <1>1
    <3>2. b \in frames[j]
      BY <3>1, <1>1
    <3> QED BY <2>1, <2>2, <3>1, <3>2, <1>1, <1>5 DEF Ascending
  <2> QED BY <2>3, <2>4
<1> QED BY <1>1, <1>2, <1>3, <1>4, <1>5

\* A whole frame behind what is whole is whole.
LEMMA HearingIsWhole ==
    ASSUME RingInv, NEW h \in Hearing, IsWhole(h), NEW frame, ~frame.gap,
           FrameIsWhole(frame, h.token),
           NEW new, new = [token |-> frame.cursor,
                           base |-> IF h.token = None THEN frame.from ELSE h.base,
                           got |-> IF frame.spans = {} THEN h.got ELSE Append(h.got, frame.spans)],
           ServingAssumption
    PROVE  new \in Hearing /\ IsWhole(new)
<1> DEFINE got == IF frame.spans = {} THEN h.got ELSE Append(h.got, frame.spans)
           base == IF h.token = None THEN frame.from ELSE h.base
<1>1. /\ frame.cursor \in Cursors /\ frame.from \in Nat /\ frame.spans \in SUBSET Nat
      /\ frame.cursor.epoch = epoch
      /\ frame.from <= frame.cursor.seq /\ frame.cursor.seq <= NextSeq
      /\ frame.cursor.seq \in Nat
      /\ Complete(frame.spans, frame.from, frame.cursor.seq)
      /\ h.token # None => h.token.epoch = epoch /\ frame.from = h.token.seq
  BY DEF FrameIsWhole, Frames, Cursors
<1>2. h.got \in Seq(SUBSET Nat) /\ h.base \in Nat \cup {None} /\ h.token \in Cursors \cup {None}
  BY DEF Hearing
<1>3. /\ got \in Seq(SUBSET Nat)
      /\ InFrames(got) = InFrames(h.got) \cup frame.spans
  BY <1>1, <1>2, FrameAdds
<1>4. /\ base \in Nat /\ base <= frame.from
      /\ Ascending(h.got)
      /\ InFrames(h.got) \subseteq base .. frame.from - 1
      /\ \A q \in (base .. frame.from - 1) \ InFrames(h.got) : Excused(q)
  <2>1. CASE h.token = None
    <3>1. h.got = <<>> /\ base = frame.from
      BY <2>1 DEF IsWhole
    <3>2. InFrames(h.got) = {} /\ Ascending(h.got)
      BY <3>1 DEF InFrames, Ascending
    <3> QED BY <3>1, <3>2, <1>1
  <2>2. CASE h.token # None
    <3>1. base = h.base /\ frame.from = h.token.seq /\ h.token.epoch = epoch
      BY <2>2, <1>1
    <3>2. /\ h.base \in Nat /\ h.base <= h.token.seq /\ Ascending(h.got)
          /\ Complete(InFrames(h.got), h.base, h.token.seq)
      BY <2>2, <3>1 DEF IsWhole
    <3> QED BY <3>1, <3>2 DEF Complete
  <2> QED BY <2>1, <2>2
<1>5. Ascending(got)
  <2>1. CASE frame.spans = {}
    BY <2>1, <1>4
  <2>2. CASE frame.spans # {}
    <3>1. ASSUME NEW a \in InFrames(h.got), NEW b \in frame.spans PROVE a < b
      <4>1. a \in base .. frame.from - 1 /\ b \in frame.from .. frame.cursor.seq - 1
        BY <1>1, <1>4 DEF Complete
      <4> QED BY <4>1, <1>1, <1>4
    <3>2. got = Append(h.got, frame.spans)
      BY <2>2
    <3>3. PICK g \in Seq(SUBSET Nat), spans \in SUBSET Nat : g = h.got /\ spans = frame.spans
      BY <1>1, <1>2
    <3>4. got = Append(g, spans) /\ spans # {} /\ Ascending(g)
      BY <2>2, <3>2, <3>3, <1>4
    <3>5. \A a \in InFrames(g), b \in spans : a < b
      BY <3>1, <3>3
    <3> HIDE DEF got
    <3> QED BY <3>4, <3>5, FrameAdds
  <2> QED BY <2>1, <2>2
<1> HIDE DEF got, base
<1>6. Complete(InFrames(got), base, frame.cursor.seq)
  <2>1. InFrames(got) \subseteq base .. frame.cursor.seq - 1
    <3>1. frame.spans \subseteq frame.from .. frame.cursor.seq - 1
      BY <1>1 DEF Complete
    <3>2. /\ base .. frame.from - 1 \subseteq base .. frame.cursor.seq - 1
          /\ frame.from .. frame.cursor.seq - 1 \subseteq base .. frame.cursor.seq - 1
      BY <1>1, <1>4
    <3> QED BY <3>1, <3>2, <1>3, <1>4
  <2>2. ASSUME NEW q \in (base .. frame.cursor.seq - 1) \ InFrames(got) PROVE Excused(q)
    <3>1. CASE q < frame.from
      <4>1. q \in (base .. frame.from - 1) \ InFrames(h.got)
        BY <3>1, <1>1, <1>3, <1>4
      <4> QED BY <4>1, <1>4
    <3>2. CASE ~(q < frame.from)
      <4>1. q \in (frame.from .. frame.cursor.seq - 1) \ frame.spans
        BY <3>2, <1>1, <1>3, <1>4
      <4> QED BY <4>1, <1>1 DEF Complete
    <3> QED BY <3>1, <3>2
  <2> QED BY <2>1, <2>2 DEF Complete
<1>7. new.token = frame.cursor /\ new.base = base /\ new.got = got
  BY DEF base, got
<1>8. new \in Hearing
  <2>1. new = [token |-> frame.cursor, base |-> base, got |-> got]
    BY DEF base, got
  <2> QED BY <2>1, <1>1, <1>3, <1>4 DEF Hearing
<1>9. frame.cursor # None
  BY <1>1 DEF ServingAssumption, Cursors
<1>10. base <= frame.cursor.seq
  BY <1>1, <1>4
<1>11. epoch \in Nat
  BY DEF RingInv, RingTypes
<1>12. new.token # None /\ new.token.epoch = epoch /\ new.token.seq = frame.cursor.seq
  BY <1>1, <1>7, <1>9
<1>13. /\ new.base \in Nat /\ new.base <= new.token.seq /\ new.token.seq <= NextSeq
       /\ Ascending(new.got) /\ Complete(InFrames(new.got), new.base, new.token.seq)
  BY <1>1, <1>4, <1>5, <1>6, <1>7, <1>10, <1>12
<1> QED BY <1>8, <1>11, <1>12, <1>13 DEF IsWhole

\* A frame is heard.
LEMMA StreamHears ==
    ASSUME RingInv, RingGrows, WebTypes, StreamInv, ServingAssumption, NEW c \in Clients,
           WriteFrame(c)
    PROVE  WebTypes' /\ StreamInv'
<1>1. PICK h \in Hearing, frame \in Frames :
        /\ h = heard[c] /\ frame = conn[c].frame
        /\ IsWhole(h) /\ FrameIsWhole(frame, h.token) /\ conn[c].cursor = h.token
  <2>1. heard[c] \in Hearing /\ IsWhole(heard[c]) /\ At(c, "frame")
    BY DEF StreamInv, WebTypes, WriteFrame
  <2>2. conn[c].cursor = heard[c].token
    BY <2>1 DEF StreamInv, Resumes, At
  <2>3. FrameIsWhole(conn[c].frame, heard[c].token)
    BY <2>1, <2>2 DEF StreamInv
  <2>4. conn[c].frame \in Frames
    BY <2>3 DEF FrameIsWhole
  <2> QED BY <2>1, <2>2, <2>3, <2>4
<1>2. /\ Alone(c) /\ conn'[c].at = "read" /\ scope' = scope
      /\ conn'[c].cursor = (IF frame.gap THEN None ELSE frame.cursor)
      /\ Hear(c, frame)
  BY <1>1, Writes DEF WriteFrame
<1> DEFINE whole == [token |-> frame.cursor,
                     base |-> IF h.token = None THEN frame.from ELSE h.base,
                     got |-> IF frame.spans = {} THEN h.got ELSE Append(h.got, frame.spans)]
           new == IF frame.gap THEN Nothing ELSE whole
<1>3. heard' = [heard EXCEPT ![c] = new]
  BY <1>1, <1>2 DEF Hear
<1>4. Nothing \in Hearing /\ Nothing.token = None /\ Nothing.got = <<>> /\ IsWhole(Nothing)
  <2>1. Nothing \in Hearing /\ Nothing.token = None /\ Nothing.got = <<>>
    BY DEF Nothing, Hearing
  <2> QED BY <2>1 DEF IsWhole
<1>5. ~frame.gap => whole \in Hearing /\ IsWhole(whole) /\ whole.token = frame.cursor
  BY <1>1, HearingIsWhole
<1> HIDE DEF whole
<1>6. /\ new \in Hearing /\ IsWhole(new)
      /\ new.token = (IF frame.gap THEN None ELSE frame.cursor)
  BY <1>4, <1>5
<1> HIDE DEF new
<1>7. IsWhole(new)'
  BY <1>6, WholeStaysWhole
<1>8. heard'[c] = new
  BY <1>3 DEF WebTypes
<1>9. Resumes(conn'[c], new.token)
  BY <1>2, <1>6 DEF Resumes, Unanswered
<1>10. IsWhole(heard[c])'
  BY <1>7, <1>8 DEF IsWhole, Complete
<1>11. StreamOf(c)'
  BY <1>2, <1>6, <1>8, <1>9, <1>10 DEF StreamOf, At
<1> QED BY <1>2, <1>3, <1>11, OneClient

\* Every step keeps every stream honest.
LEMMA StreamStep ==
    ASSUME RingInv, WebTypes, StreamInv, ServingAssumption, [Next]_vars
    PROVE  WebTypes' /\ StreamInv'
<1>1. CASE Restart
  <2>1. /\ epoch' = epoch + 1 /\ conn' = [c \in Clients |-> Away]
        /\ scope' = scope /\ heard' = heard
    BY <1>1 DEF Restart
  <2>2. WebTypes'
    BY <2>1, FreshIsTyped DEF WebTypes
  <2>3. ASSUME NEW c \in Clients
        PROVE  IsWhole(heard[c])' /\ Resumes(conn'[c], heard'[c].token) /\ ~At(c, "frame")'
    <3>1. conn'[c] = Away /\ heard'[c] = heard[c]
      BY <2>1
    <3>2. IsWhole(heard[c]) /\ heard[c] \in Hearing /\ epoch \in Nat
      BY DEF StreamInv, WebTypes, RingInv, RingTypes
    <3>3. IsWhole(heard[c])'
      <4>1. heard[c].token # None =>
               /\ heard[c].token.epoch \in Nat /\ heard[c].token.epoch <= epoch
        BY <3>2 DEF IsWhole, Hearing, Cursors
      <4>2. heard[c].token # None =>
               heard[c].token.epoch <= epoch' /\ heard[c].token.epoch # epoch'
        BY <4>1, <3>2, <2>1
      <4> QED BY <4>2, <3>1, <3>2 DEF IsWhole
    <3>4. Resumes(conn'[c], heard'[c].token) /\ conn'[c].at # "frame"
      BY <3>1, FreshIsTyped DEF Resumes, Unanswered
    <3> QED BY <3>3, <3>4 DEF At
  <2> QED BY <2>2, <2>3 DEF StreamInv
<1>2. CASE ~Restart
  <2>0. RingGrows
    BY <1>2, RingStep
  <2>1. ASSUME NEW c \in Clients, Client(c) PROVE WebTypes' /\ StreamInv'
    BY <2>0, <2>1, StreamClient
  <2>2. ASSUME NEW c \in Clients,
               \/ Accept(c) \/ EndRefusal(c) \/ Receive(c) \/ EndOfInput(c) \/ Recycle(c)
               \/ RefuseHead(c) \/ ServeAsset(c) \/ Reject(c) \/ Admit(c) \/ ReadBody(c)
               \/ ServeCall(c) \/ Panic(c) \/ Release(c) \/ LoseTail(c)
        PROVE  WebTypes' /\ StreamInv'
    BY <2>0, <2>2, StreamHandler
  <2>3. ASSUME NEW c \in Clients, ServeTail(c) PROVE WebTypes' /\ StreamInv'
    BY <2>0, <2>3, StreamBegins
  <2>4. ASSUME NEW c \in Clients, ReadTail(c) PROVE WebTypes' /\ StreamInv'
    <3> DEFINE read == Read(conn[c].cursor, conn[c].opening, Limit, Wanted)
    <3>1. /\ scope' = scope /\ heard' = heard /\ conn[c].at = "read"
          /\ Framed(c, read) \/ Goto(c, "asleep")
      BY <2>4 DEF ReadTail, At
    <3>2. CASE Framed(c, read)
      <4>1. conn[c].opening \in Nat
        BY ConnectionShape DEF WebTypes
      <4> HIDE DEF read
      <4>2. PICK r : r = read
        OBVIOUS
      <4> QED BY <2>0, <3>1, <3>2, <4>1, <4>2, StreamReads DEF read
    <3>3. CASE Goto(c, "asleep")
      <4>1. Alone(c) /\ Same(conn[c], conn'[c]) /\ conn'[c].at = "asleep"
        BY <3>3, GoesTo DEF Places, Handling
      <4>2. Resumes(conn'[c], heard[c].token)
        BY <3>1, <4>1, ResumesSame DEF StreamInv, Unanswered
      <4> QED BY <2>0, <3>1, <4>1, <4>2, OneClientDeaf
    <3> QED BY <3>1, <3>2, <3>3
  <2>5. ASSUME NEW c \in Clients, Wake(c) PROVE WebTypes' /\ StreamInv'
    <3> DEFINE read == Read(conn[c].cursor, 0, Limit, Wanted)
    <3>1. /\ scope' = scope /\ heard' = heard /\ conn[c].at = "asleep" /\ Framed(c, read)
      BY <2>5 DEF Wake, At
    <3> HIDE DEF read
    <3>2. PICK r : r = read
      OBVIOUS
    <3> QED BY <2>0, <3>1, <3>2, StreamReads DEF read
  <2>6. ASSUME NEW c \in Clients, WriteFrame(c) PROVE WebTypes' /\ StreamInv'
    BY <2>0, <2>6, StreamHears
  <2>7. ASSUME UNCHANGED webVars PROVE WebTypes' /\ StreamInv'
    <3>1. scope' = scope /\ conn' = conn /\ heard' = heard
      BY <2>7 DEF webVars
    <3>2. WebTypes'
      BY <3>1 DEF WebTypes
    <3>3. ASSUME NEW c \in Clients PROVE StreamOf(c)'
      BY <2>0, <3>1, StreamStays DEF StreamInv, StreamOf, WebTypes
    <3> QED BY <3>2, <3>3 DEF StreamInv, StreamOf
  <2>8. (\E batch \in Batches : Ingest(batch)) => UNCHANGED webVars
    BY DEF Ingest
  <2>9. (\E keys \in Subjects : Erase(keys)) => UNCHANGED webVars
    BY DEF Erase
  <2>10. SignalTails => UNCHANGED webVars
    BY DEF SignalTails
  <2>11. UNCHANGED vars => UNCHANGED webVars
    BY DEF vars
  <2>12. ASSUME NEW c \in Clients, Client(c) \/ Accept(c) \/ EndRefusal(c) \/ Handler(c)
         PROVE  WebTypes' /\ StreamInv'
    BY <2>1, <2>2, <2>3, <2>4, <2>5, <2>6, <2>12 DEF Handler
  <2> QED BY <1>2, <2>7, <2>8, <2>9, <2>10, <2>11, <2>12 DEF Next
<1> QED BY <1>1, <1>2

\* The ring, the types and the streams, from the start and ever after.
TailInv == RingInv /\ WebTypes /\ StreamInv

\* It holds at the start.
LEMMA TailStarts ==
    ASSUME ServingAssumption, Init
    PROVE  TailInv
<1>1. /\ epoch = 0 /\ first = 0 /\ entries = <<>> /\ veils = {} /\ admitted = <<>>
      /\ erased = [k \in Keys |-> 0]
      /\ scope \in Scopes /\ conn = [c \in Clients |-> Away]
      /\ heard = [c \in Clients |-> Nothing]
  BY DEF Init, TailInit
<1>2. NextSeq = 0
  BY <1>1 DEF NextSeq
<1>3. RingInv
  BY <1>1, <1>2 DEF RingInv, RingTypes, EntriesAreAdmitted, VeilsAreErasures, ErasuresAreVeiled
<1>4. Nothing \in Hearing /\ Nothing.token = None /\ Nothing.got = <<>>
  BY DEF Nothing, Hearing
<1>5. WebTypes
  BY <1>1, <1>4, FreshIsTyped DEF WebTypes
<1>6. StreamInv
  <2> SUFFICES ASSUME NEW c \in Clients
               PROVE  /\ IsWhole(heard[c])
                      /\ Resumes(conn[c], heard[c].token)
                      /\ At(c, "frame") => FrameIsWhole(conn[c].frame, conn[c].cursor)
    BY DEF StreamInv
  <2>1. conn[c] = Away /\ heard[c] = Nothing
    BY <1>1
  <2> QED BY <2>1, <1>4, FreshIsTyped DEF IsWhole, Resumes, At, Unanswered
<1> QED BY <1>3, <1>5, <1>6 DEF TailInv

\* It holds ever after.
LEMMA TailInvariant == Spec => []TailInv
<1>1. Init => TailInv
  BY TailStarts, ServingAssumption
<1>2. TailInv /\ [Next]_vars => TailInv'
  BY RingStep, StreamStep, ServingAssumption DEF TailInv
<1> QED BY <1>1, <1>2, PTL DEF Spec

\* The property, from the invariant.
LEMMA StreamsAreHonest ==
    ASSUME TailInv
    PROVE  TailIsHonest
<1>1. VeilsOutlastEntries
  BY ErasedIsVeiled DEF TailInv
<1>2. NothingSkipped
  <2> SUFFICES ASSUME NEW c \in Clients, heard[c].token # None, heard[c].token.epoch = epoch
               PROVE  LET frames == heard[c].got
                          got == UNION ToSet(frames)
                          passed == heard[c].base .. heard[c].token.seq - 1 IN
                      /\ \A i, j \in DOMAIN frames :
                            i < j => \A a \in frames[i], b \in frames[j] : a < b
                      /\ got \subseteq passed
                      /\ \A q \in passed \ got :
                            admitted[q + 1] \notin Wanted \/ q < erased[admitted[q + 1]]
    BY DEF NothingSkipped
  <2>1. /\ Ascending(heard[c].got)
        /\ Complete(InFrames(heard[c].got), heard[c].base, heard[c].token.seq)
    BY DEF TailInv, StreamInv, IsWhole
  <2>2. UNION ToSet(heard[c].got) = InFrames(heard[c].got)
    BY DEF ToSet, InFrames
  <2> QED BY <2>1, <2>2 DEF Ascending, Complete, Excused
<1> QED BY <1>1, <1>2 DEF TailIsHonest

(* A subscriber misses nothing silently: for every ring, budget, filter,   *)
(* frame size and backlog, and whatever is ingested, erased, dropped and   *)
(* restarted in between, what a client with a cursor of this process did   *)
(* not get was unwanted or erased (tail_after, stream_tail).               *)
THEOREM TailStaysHonest == Spec => []TailIsHonest
BY TailInvariant, StreamsAreHonest, PTL

----------------------------------------------------------------------------
(* Sleepers.                                                               *)

\* What SleepInv says of one client is kept by a step that neither adds to the ring
\* nor takes its signal.
LEMMA SleeperStays ==
    ASSUME NEW c \in Clients, SleepsWell(conn[c], c \in signalled \/ unsignalled),
           conn'[c].at = "asleep" => conn[c].at = "asleep" /\ conn'[c].cursor = conn[c].cursor,
           NextSeq' = NextSeq, epoch' = epoch,
           c \in signalled \/ unsignalled => c \in signalled' \/ unsignalled'
    PROVE  SleepsWell(conn[c], c \in signalled \/ unsignalled)'
BY DEF SleepsWell

\* A step that leaves the ring and the signals alone, and lets nobody fall asleep.
LEMMA SleepersStay ==
    ASSUME SleepInv, UNCHANGED tailVars,
           \A c \in Clients : conn'[c].at = "asleep" =>
              conn[c].at = "asleep" /\ conn'[c].cursor = conn[c].cursor
    PROVE  SleepInv'
<1>1. UNCHANGED <<epoch, first, entries, signalled, unsignalled>>
  BY DEF tailVars
<1>2. NextSeq' = NextSeq
  BY <1>1 DEF NextSeq
<1>3. ASSUME NEW c \in Clients PROVE SleepsWell(conn[c], c \in signalled \/ unsignalled)'
  BY <1>1, <1>2, SleeperStays DEF SleepInv
<1> QED BY <1>3 DEF SleepInv

\* The steps of a connection, but for the read of a tail, let nobody fall asleep.
LEMMA NobodyFallsAsleep ==
    ASSUME WebTypes, StreamInv, ServingAssumption, RingInv, NEW c \in Clients,
           Client(c) \/ Accept(c) \/ EndRefusal(c) \/ Handler(c), ~ReadTail(c)
    PROVE  \A d \in Clients : conn'[d].at = "asleep" =>
              conn[d].at = "asleep" /\ conn'[d].cursor = conn[d].cursor
<1> DEFINE Awake == Alone(c) /\ (conn'[c].at = "asleep" =>
                        conn[c].at = "asleep" /\ conn'[c].cursor = conn[c].cursor)
<1> SUFFICES Awake
  BY DEF Alone
<1>a. ASSUME NEW k \in Connection, Become(c, k), k.at # "asleep" PROVE Awake
  BY <1>a, Becomes
<1>g. ASSUME NEW place \in Places \ {"asleep"}, Goto(c, place) PROVE Awake
  BY <1>g, GoesTo
<1>1. CASE Connect(c)
  BY <1>1, <1>a, FreshIsTyped DEF Connect
<1>2. CASE SendBody(c)
  BY <1>2, SendsBody
<1>3. CASE HangUp(c)
  BY <1>3, HangsUp DEF Same
<1>4. ASSUME NEW r \in scope.requests[c], Send(c, r) PROVE Awake
  BY <1>4, Sends
<1>5. CASE Accept(c)
  <2>1. Become(c, Away) \/ Goto(c, "head") \/ Goto(c, "refusing")
    BY <1>5 DEF Accept
  <2> QED BY <2>1, <1>a, <1>g, FreshIsTyped DEF Places, Handling
<1>6. CASE EndRefusal(c) \/ Release(c)
  BY <1>6, <1>a, FreshIsTyped DEF EndRefusal, Release
<1>7. CASE EndOfInput(c) \/ Recycle(c) \/ Panic(c) \/ LoseTail(c) \/ Admit(c)
  <2>1. Goto(c, "leaving") \/ Goto(c, "body")
    BY <1>7 DEF EndOfInput, Recycle, Panic, LoseTail, Admit
  <2> QED BY <2>1, <1>g DEF Places, Handling
<1>8. CASE RefuseHead(c) \/ ServeAsset(c) \/ Reject(c)
  <2>1. conn[c].buffer # <<>> /\ \E keep : Answer(c, keep)
    BY <1>8 DEF RefuseHead, ServeAsset, Reject, AtFront
  <2>2. PICK keep : Answer(c, keep)
    BY <2>1
  <2>3. Alone(c) /\ conn'[c].at = (IF keep THEN "head" ELSE "leaving")
    BY <2>1, <2>2, AnswersFront
  <2> QED BY <2>3
<1>9. CASE Receive(c)
  BY <1>9, Receives
<1>10. CASE ReadBody(c)
  <2>1. conn[c].buffer # <<>>
    BY <1>10 DEF ReadBody, StreamInv, Resumes, At
  <2>2. Alone(c) /\ conn'[c].at = "serve"
    BY <1>10, <2>1, ReadsBody
  <2> QED BY <2>2
<1>11. CASE ServeCall(c)
  <2>1. conn[c].request \in Tokens
    BY <1>11 DEF ServeCall, StreamInv, Resumes, At
  <2> QED BY <1>11, <2>1, ServesCall
<1>12. CASE ServeTail(c)
  <2>1. conn[c].request \in Tokens /\ conn[c].request.part = "head"
    BY <1>12 DEF ServeTail, StreamInv, Resumes, At
  <2> QED BY <1>12, <2>1, ServesTail
<1>13. CASE Wake(c)
  <2>1. Framed(c, Read(conn[c].cursor, 0, Limit, Wanted))
    BY <1>13 DEF Wake
  <2>2. PICK r : r = Read(conn[c].cursor, 0, Limit, Wanted)
    OBVIOUS
  <2>3. Addressed(conn[c].cursor)
    BY ConnectionShape DEF Addressed, WebTypes
  <2>4. PICK u : u = conn[c].cursor
    OBVIOUS
  <2>5. FrameIsWhole(r, u)
    BY <2>2, <2>3, <2>4, ReadIsWhole
  <2>6. r \in Frames
    BY <2>5 DEF FrameIsWhole
  <2> QED BY <2>1, <2>2, <2>6, GetsFrame
<1>14. CASE WriteFrame(c)
  <2>1. conn[c].frame \in Frames
    BY <1>14 DEF WriteFrame, StreamInv, FrameIsWhole
  <2> QED BY <1>14, <2>1, Writes
<1> HIDE DEF Awake
<1> QED BY <1>1, <1>2, <1>3, <1>4, <1>5, <1>6, <1>7, <1>8, <1>9, <1>10, <1>11, <1>12, <1>13, <1>14
        DEF Client, Handler

\* Who reads at the head of the ring may sleep.
LEMMA ReadsThenSleeps ==
    ASSUME RingInv, WebTypes, SleepInv, ServingAssumption, NEW c \in Clients, ReadTail(c)
    PROVE  SleepInv'
<1> DEFINE read == Read(conn[c].cursor, conn[c].opening, Limit, Wanted)
<1>1. /\ UNCHANGED <<epoch, first, entries, veils, unsignalled, erased, admitted>>
      /\ signalled' = signalled \ {c}
      /\ IF read.gap \/ conn[c].cursor = None \/ read.cursor # conn[c].cursor
         THEN Framed(c, read)
         ELSE Goto(c, "asleep")
  BY DEF ReadTail
<1>2. NextSeq' = NextSeq
  BY <1>1 DEF NextSeq
<1>o. PICK opening \in Nat : opening = conn[c].opening
  BY ConnectionShape DEF WebTypes
<1>3. PICK u, r : u = conn[c].cursor /\ r = read
  OBVIOUS
<1>4. Addressed(u)
  BY <1>3, ConnectionShape DEF Addressed, WebTypes
<1>5. /\ FrameIsWhole(r, u)
      /\ ~r.gap /\ u # None /\ r.cursor = u => u.epoch = epoch /\ u.seq = NextSeq
  <2>1. r = Read(u, opening, Limit, Wanted)
    BY <1>3, <1>o
  <2> QED BY <2>1, <1>4, ReadIsWhole
<1> HIDE DEF read
<1>6. /\ Alone(c)
      /\ conn'[c].at = "asleep" =>
            conn'[c].cursor # None /\ conn'[c].cursor.epoch = epoch /\ conn'[c].cursor.seq = NextSeq
  <2>1. CASE r.gap \/ u = None \/ r.cursor # u
    <3>1. Framed(c, r)
      BY <2>1, <1>1, <1>3
    <3>2. r \in Frames
      BY <1>5 DEF FrameIsWhole
    <3> QED BY <3>1, <3>2, GetsFrame
  <2>2. CASE ~(r.gap \/ u = None \/ r.cursor # u)
    <3>1. Goto(c, "asleep")
      BY <2>2, <1>1, <1>3
    <3>2. Alone(c) /\ conn'[c].cursor = u
      BY <3>1, <1>3, GoesTo DEF Same, Places, Handling
    <3> QED BY <2>2, <3>2, <1>5
  <2> QED BY <2>1, <2>2
<1>7. NextSeq \in Nat
  BY RingShape DEF RingInv
<1>8. ASSUME NEW d \in Clients PROVE SleepsWell(conn[d], d \in signalled \/ unsignalled)'
  <2>1. CASE d = c
    BY <2>1, <1>1, <1>2, <1>6, <1>7 DEF SleepsWell
  <2>2. CASE d # c
    <3>1. conn'[d] = conn[d] /\ (d \in signalled => d \in signalled')
      BY <2>2, <1>1, <1>6 DEF Alone
    <3> QED BY <3>1, <1>1, <1>2, SleeperStays DEF SleepInv
  <2> QED BY <2>1, <2>2
<1> QED BY <1>8 DEF SleepInv

\* Every step keeps every sleeper current, signalled or about to be.
LEMMA SleepStep ==
    ASSUME TailInv, SleepInv, ServingAssumption, [Next]_vars
    PROVE  SleepInv'
<1>0. RingInv /\ WebTypes /\ StreamInv
  BY DEF TailInv
<1>1. ASSUME NEW c \in Clients, Client(c) \/ Accept(c) \/ EndRefusal(c) \/ Handler(c)
      PROVE  SleepInv'
  <2>1. CASE ReadTail(c)
    BY <1>0, <2>1, ReadsThenSleeps
  <2>2. CASE ~ReadTail(c)
    <3>1. UNCHANGED tailVars
      <4>1. CASE Client(c)
        BY <4>1 DEF Client, Connect, SendBody, HangUp, Send, Here
      <4>2. CASE Accept(c) \/ EndRefusal(c)
        BY <4>2 DEF Accept, EndRefusal
      <4>3. CASE Handler(c)
        <5>1. CASE Receive(c) \/ EndOfInput(c) \/ Recycle(c) \/ RefuseHead(c) \/ ServeAsset(c)
          BY <5>1 DEF Receive, EndOfInput, Recycle, RefuseHead, ServeAsset, Here
        <5>2. CASE Reject(c) \/ Admit(c) \/ ReadBody(c) \/ ServeCall(c) \/ Panic(c) \/ Release(c)
          BY <5>2 DEF Reject, Admit, ReadBody, ServeCall, Panic, Release, Here
        <5>3. CASE ServeTail(c) \/ Wake(c) \/ WriteFrame(c) \/ LoseTail(c)
          BY <5>3 DEF ServeTail, Wake, WriteFrame, LoseTail, Here
        <5> QED BY <2>2, <4>3, <5>1, <5>2, <5>3 DEF Handler
      <4> QED BY <1>1, <4>1, <4>2, <4>3
    <3> QED BY <1>0, <1>1, <2>2, <3>1, NobodyFallsAsleep, SleepersStay
  <2> QED BY <2>1, <2>2
<1>2. ASSUME NEW batch \in Batches, Ingest(batch) PROVE SleepInv'
  <2>1. unsignalled' = TRUE /\ epoch' = epoch /\ conn' = conn
    BY <1>2 DEF Ingest, Publish, webVars
  <2> QED BY <2>1 DEF SleepInv, SleepsWell
<1>3. ASSUME NEW keys \in Subjects, Erase(keys) PROVE SleepInv'
  <2>1. UNCHANGED <<epoch, first, entries, signalled, unsignalled, conn>>
    BY <1>3 DEF Erase, Veil, webVars
  <2>2. NextSeq' = NextSeq
    BY <2>1 DEF NextSeq
  <2> QED BY <2>1, <2>2 DEF SleepInv, SleepsWell
<1>4. CASE SignalTails
  <2>1. /\ UNCHANGED <<epoch, first, entries, conn>>
        /\ signalled' = signalled \cup {c \in Clients : At(c, "asleep")}
    BY <1>4 DEF SignalTails, Notify, webVars
  <2>2. ASSUME NEW c \in Clients PROVE SleepsWell(conn[c], c \in signalled \/ unsignalled)'
    <3>1. conn'[c].at = "asleep" => c \in signalled'
      BY <2>1 DEF At
    <3> QED BY <2>1, <3>1 DEF SleepInv, SleepsWell
  <2> QED BY <2>2 DEF SleepInv
<1>5. CASE Restart
  <2>1. conn' = [c \in Clients |-> Away]
    BY <1>5 DEF Restart
  <2>2. \A c \in Clients : conn'[c].at # "asleep"
    BY <2>1, FreshIsTyped
  <2> QED BY <2>2 DEF SleepInv, SleepsWell
<1>6. CASE UNCHANGED vars
  BY <1>6, SleepersStay DEF vars, webVars
<1> QED BY <1>1, <1>2, <1>3, <1>4, <1>5, <1>6 DEF Next

(* A subscriber is not left to its heartbeat when there is news, however   *)
(* publications, their signals and the reads before a wait interleave      *)
(* (TailChannel::wait, publish).                                           *)
THEOREM SleepersAreRoused == Spec => []NoSleeperMissesNews
<1>1. Init => SleepInv
  <2> SUFFICES ASSUME Init PROVE SleepInv
    OBVIOUS
  <2>1. \A c \in Clients : conn[c].at # "asleep"
    BY FreshIsTyped DEF Init
  <2> QED BY <2>1 DEF SleepInv, SleepsWell
<1>2. TailInv /\ SleepInv /\ [Next]_vars => SleepInv'
  BY SleepStep, ServingAssumption
<1>3. SleepInv => NoSleeperMissesNews
  BY DEF SleepInv, SleepsWell, NoSleeperMissesNews, At
<1> QED BY <1>1, <1>2, <1>3, TailInvariant, PTL DEF Spec

----------------------------------------------------------------------------
(* Answers.                                                                *)

\* The head of a request goes to the end of what is unserved.
LEMMA HeadFollows ==
    ASSUME NEW u \in Seq(Tokens), NEW n \in Nat, NEW sent \in Nat, NEW owes \in BOOLEAN, ~owes,
           RequestsFrom(u, n, sent, owes),
           NEW last, last = sent + 1, NEW t \in Tokens, t.part = "head", t.of = last,
           NEW v, v = Append(u, t), NEW owed \in BOOLEAN, owed = t.request.body
    PROVE  RequestsFrom(v, n, last, owed)
<1>1. /\ Len(u) \in Nat /\ Len(v) = Len(u) + 1 /\ v # <<>> /\ v[Len(u) + 1] = t
      /\ \A i \in 1 .. Len(u) : v[i] = u[i]
  OBVIOUS
<1>2. CASE u = <<>>
  <2>1. Len(u) = 0 /\ Len(v) = 1 /\ v[1] = t /\ sent + 1 = n
    BY <1>1, <1>2 DEF RequestsFrom
  <2> QED BY <1>1, <2>1 DEF RequestsFrom
<1>3. CASE u # <<>>
  <2>1. /\ Len(u) > 0 /\ u[1].part = "head" /\ u[1].of = n /\ u[Len(u)].of = sent
        /\ ~(u[Len(u)].part = "head" /\ u[Len(u)].request.body)
        /\ \A i \in 1 .. Len(u) - 1 : Follows(u[i], u[i + 1])
    BY <1>1, <1>3 DEF RequestsFrom
  <2>2. Follows(u[Len(u)], t)
    BY <2>1 DEF Follows
  <2>3. ASSUME NEW i \in 1 .. Len(v) - 1 PROVE Follows(v[i], v[i + 1])
    <3>1. CASE i = Len(u)
      BY <3>1, <2>1, <2>2, <1>1
    <3>2. CASE i # Len(u)
      <4>1. i \in 1 .. Len(u) - 1 /\ i + 1 \in 1 .. Len(u) /\ i \in 1 .. Len(u)
        BY <3>2, <1>1
      <4> QED BY <4>1, <2>1, <1>1
    <3> QED BY <3>1, <3>2
  <2>4. v[1] = u[1]
    BY <2>1, <1>1
  <2> QED BY <1>1, <2>1, <2>3, <2>4 DEF RequestsFrom
<1> QED BY <1>2, <1>3

\* The body that is owed goes behind its head.
LEMMA BodyFollows ==
    ASSUME NEW u \in Seq(Tokens), NEW n \in Nat, NEW sent \in Nat, NEW owes, owes,
           RequestsFrom(u, n, sent, owes),
           NEW t \in Tokens, t.part = "body", t.of = sent,
           NEW v, v = Append(u, t), NEW owed, ~owed
    PROVE  RequestsFrom(v, n, sent, owed)
<1>1. /\ Len(u) \in Nat /\ Len(v) = Len(u) + 1 /\ v # <<>> /\ v[Len(u) + 1] = t
      /\ \A i \in 1 .. Len(u) : v[i] = u[i]
  OBVIOUS
<1>2. u # <<>>
  BY DEF RequestsFrom
<1>3. /\ Len(u) > 0 /\ u[1].part = "head" /\ u[1].of = n /\ u[Len(u)].of = sent
      /\ u[Len(u)].part = "head" /\ u[Len(u)].request.body
      /\ \A i \in 1 .. Len(u) - 1 : Follows(u[i], u[i + 1])
  BY <1>1, <1>2 DEF RequestsFrom
<1>4. Follows(u[Len(u)], t)
  BY <1>3 DEF Follows
<1>5. ASSUME NEW i \in 1 .. Len(v) - 1 PROVE Follows(v[i], v[i + 1])
  <2>1. CASE i = Len(u)
    BY <2>1, <1>1, <1>3, <1>4
  <2>2. CASE i # Len(u)
    <3>1. i \in 1 .. Len(u) - 1 /\ i + 1 \in 1 .. Len(u) /\ i \in 1 .. Len(u)
      BY <2>2, <1>1
    <3> QED BY <3>1, <1>1, <1>3
  <2> QED BY <2>1, <2>2
<1>6. v[1] = u[1]
  BY <1>1, <1>3
<1> QED BY <1>1, <1>3, <1>5, <1>6 DEF RequestsFrom

\* Without the request at the front, what is unserved begins with the next.
LEMMA FrontLeaves ==
    ASSUME NEW u \in Seq(Tokens), NEW n \in Nat, NEW sent \in Nat, NEW owes \in BOOLEAN,
           RequestsFrom(u, n, sent, owes), u # <<>>,
           NEW m \in {1, 2}, m <= Len(u),
           u[1].request.body => m = 2, ~u[1].request.body => m = 1,
           NEW v \in Seq(Tokens), Len(v) = Len(u) - m, \A i \in 1 .. Len(v) : v[i] = u[m + i],
           NEW next, next = n + 1
    PROVE  RequestsFrom(v, next, sent, owes)
<1>1. /\ Len(u) \in Nat /\ Len(v) \in Nat /\ Len(u) > 0 /\ m \in {1, 2}
      /\ u[1].part = "head" /\ u[1].of = n /\ u[Len(u)].of = sent
      /\ owes <=> (u[Len(u)].part = "head" /\ u[Len(u)].request.body)
      /\ \A i \in 1 .. Len(u) - 1 : Follows(u[i], u[i + 1])
  BY DEF RequestsFrom
\* The last token of the request at the front.
<1>2. /\ u[m].of = n
      /\ ~(u[m].part = "head" /\ u[m].request.body)
  <2>1. CASE m = 1
    BY <2>1, <1>1
  <2>2. CASE m = 2
    <3>1. Follows(u[1], u[2]) /\ u[1].request.body
      BY <2>2, <1>1
    <3> QED BY <2>2, <3>1, <1>1 DEF Follows
  <2> QED BY <1>1, <2>1, <2>2
<1>3. \A i \in 1 .. Len(v) - 1 : Follows(v[i], v[i + 1])
  <2> SUFFICES ASSUME NEW i \in 1 .. Len(v) - 1 PROVE Follows(v[i], v[i + 1])
    OBVIOUS
  <2>1. /\ m + i \in 1 .. Len(u) - 1 /\ m + (i + 1) = (m + i) + 1
        /\ i \in 1 .. Len(v) /\ i + 1 \in 1 .. Len(v)
    BY <1>1
  <2> QED BY <2>1, <1>1
<1>4. CASE v = <<>>
  <2>1. Len(v) = 0
    BY <1>4
  <2>2. m = Len(u)
    BY <2>1, <1>1
  <2>3. sent = n /\ ~owes
    BY <2>2, <1>1, <1>2
  <2> QED BY <1>3, <1>4, <2>3 DEF RequestsFrom
<1>5. CASE v # <<>>
  <2>1. Len(v) > 0 /\ m \in 1 .. Len(u) - 1 /\ 1 \in 1 .. Len(v) /\ Len(v) \in 1 .. Len(v)
        /\ m + Len(v) = Len(u)
    BY <1>1, <1>5
  <2>2. v[1] = u[m + 1] /\ v[Len(v)] = u[Len(u)]
    BY <2>1
  <2>3. Follows(u[m], u[m + 1])
    BY <2>1, <1>1
  <2>4. v[1].part = "head" /\ v[1].of = n + 1
    BY <2>2, <2>3, <1>2 DEF Follows
  <2> QED BY <1>1, <1>3, <1>5, <2>2, <2>4 DEF RequestsFrom
<1> QED BY <1>4, <1>5

\* So it does on a connection.
LEMMA HeadSent ==
    ASSUME NEW k, NEW l, NEW n \in Nat, NEW t \in Tokens,
           Unserved(k) \in Seq(Tokens), k.sent \in Nat, k.owes \in BOOLEAN, ~k.owes,
           RequestsFrom(Unserved(k), n, k.sent, k.owes),
           Unserved(l) = Append(Unserved(k), t), t.part = "head", t.of = k.sent + 1,
           l.sent = k.sent + 1, l.owes \in BOOLEAN, l.owes = t.request.body
    PROVE  RequestsFrom(Unserved(l), n, l.sent, l.owes)
<1>1. PICK u, v, sent, last, owes, owed :
        /\ u = Unserved(k) /\ v = Unserved(l) /\ sent = k.sent /\ last = l.sent
        /\ owes = k.owes /\ owed = l.owes
  OBVIOUS
<1>2. /\ u \in Seq(Tokens) /\ sent \in Nat /\ RequestsFrom(u, n, sent, owes) /\ ~owes
      /\ v = Append(u, t) /\ t.part = "head" /\ last = sent + 1 /\ t.of = last
      /\ owed = t.request.body /\ owed \in BOOLEAN /\ owes \in BOOLEAN
  BY <1>1
<1>3. RequestsFrom(v, n, last, owed)
  BY <1>2, HeadFollows
<1> QED BY <1>1, <1>3

\* One more answer in order.
LEMMA AnswersGrow ==
    ASSUME NEW a \in Seq(Nat), \A i \in 1 .. Len(a) : a[i] = i,
           NEW b, b = Append(a, Len(a) + 1)
    PROVE  Len(b) = Len(a) + 1 /\ \A i \in 1 .. Len(b) : b[i] = i
<1>1. /\ Len(a) \in Nat /\ Len(b) = Len(a) + 1 /\ b[Len(a) + 1] = Len(a) + 1
      /\ \A i \in 1 .. Len(a) : b[i] = a[i]
  OBVIOUS
<1>2. ASSUME NEW i \in 1 .. Len(b) PROVE b[i] = i
  <2>1. i \in 1 .. Len(a) \/ i = Len(a) + 1
    BY <1>1
  <2> QED BY <2>1, <1>1
<1> QED BY <1>1, <1>2

\* Every request that is unserved may be made.
Permitted(k, requests) ==
    \A i \in DOMAIN Unserved(k) :
        Unserved(k)[i].part = "head" => Unserved(k)[i].request \in requests

\* A step of one client keeps the order of all answers.
LEMMA OneAnswers ==
    ASSUME WebTypes, AnswerInv, NEW c \in Clients, Alone(c), scope' = scope,
           Answers(conn'[c], scope.requests[c])
    PROVE  AnswerInv'
<1>1. ASSUME NEW d \in Clients PROVE Answers(conn'[d], scope'.requests[d])
  <2>1. CASE d = c
    BY <2>1
  <2>2. CASE d # c
    BY <2>2 DEF Alone, AnswerInv
  <2> QED BY <2>1, <2>2
<1> QED BY <1>1 DEF AnswerInv

\* A connection whose input and answers stay as they were.
LEMMA AnswersSame ==
    ASSUME NEW k, NEW l, NEW requests, Answers(k, requests),
           Unserved(l) = Unserved(k), l.answers = k.answers,
           l.at \in Unanswered => l.sent = k.sent /\ l.owes = k.owes,
           l.at \in {"queued", "head", "body"} => k.at \in {"queued", "head", "body"},
           l.at = "serve" => k.at = "serve" /\ l.request = k.request
    PROVE  Answers(l, requests)
BY DEF Answers, Unanswered

\* A connection with no input, and with the answers it had or none.
LEMMA AnswersKept ==
    ASSUME NEW k, NEW l, NEW requests, Answers(k, requests),
           Unserved(l) = <<>>, l.answers = k.answers, l.at \notin Unanswered
    PROVE  Answers(l, requests)
BY DEF Answers, Unanswered

\* A connection of which nothing has come yet.
LEMMA AnswersNone ==
    ASSUME NEW requests
    PROVE  Answers(Fresh, requests) /\ Answers(Away, requests)
<1>1. /\ Fresh.at = "queued" /\ Away.at = "away" /\ Fresh.answers = <<>> /\ Away.answers = <<>>
      /\ Unserved(Fresh) = <<>> /\ Unserved(Away) = <<>>
      /\ Fresh.sent = 0 /\ ~Fresh.owes /\ Len(<<>>) = 0 /\ DOMAIN <<>> = {}
  BY FreshIsTyped
<1>2. RequestsFrom(<<>>, 1, 0, Fresh.owes)
  BY <1>1 DEF RequestsFrom
<1>3. Len(Fresh.answers) + 1 = 1 /\ Len(Away.answers) = 0
  BY <1>1
<1>4. Answers(Fresh, requests)
  BY <1>1, <1>2, <1>3 DEF Answers
<1>5. Answers(Away, requests)
  BY <1>1, <1>3 DEF Answers
<1> QED BY <1>4, <1>5

\* The steps of a client.
LEMMA AnswerClient ==
    ASSUME WebTypes, AnswerInv, ServingAssumption, NEW c \in Clients, Client(c)
    PROVE  AnswerInv'
<1> DEFINE k == conn[c]
           l == conn'[c]
           requests == scope.requests[c]
           n == Len(k.answers)
<1>0. Answers(k, requests) /\ k \in Connection
  BY DEF AnswerInv, WebTypes
<1>1. CASE Connect(c)
  <2>1. Alone(c) /\ l = Fresh /\ scope' = scope
    BY <1>1, FreshIsTyped, Becomes DEF Connect
  <2>2. Answers(l, requests)
    BY <2>1, AnswersNone
  <2> QED BY <2>1, <2>2, OneAnswers
<1>2. CASE HangUp(c)
  <2>1. Alone(c) /\ Same(k, l) /\ l.at = k.at /\ l.answers = k.answers /\ scope' = scope
    BY <1>2, HangsUp DEF HangUp, Here
  <2>2. Unserved(l) = Unserved(k) /\ l.sent = k.sent /\ l.owes = k.owes /\ l.request = k.request
    BY <2>1 DEF Same, Unserved
  <2> HIDE DEF k, l
  <2>3. Answers(l, requests)
    BY <1>0, <2>1, <2>2, AnswersSame
  <2> QED BY <2>1, <2>3, OneAnswers DEF l
<1>m. ASSUME Alone(c), scope' = scope, NEW t \in Tokens,
             Unserved(l) = Append(Unserved(k), t),
             t.part = "head" => t.request \in requests,
             l.at = k.at, l.answers = k.answers, l.request = k.request,
             \A i \in Nat : RequestsFrom(Unserved(k), i, k.sent, k.owes)
                               => RequestsFrom(Unserved(l), i, l.sent, l.owes)
      PROVE  AnswerInv'
  <2>1. n \in Nat /\ Unserved(k) \in Seq(Tokens)
    BY <1>0, ConnectionShape
  <2>2. PICK u, v : u \in Seq(Tokens) /\ u = Unserved(k) /\ v = Unserved(l)
    BY <2>1
  <2>3. /\ DOMAIN v = 1 .. Len(u) + 1 /\ DOMAIN u = 1 .. Len(u) /\ v[Len(u) + 1] = t
        /\ \A i \in 1 .. Len(u) : v[i] = u[i]
    BY <1>m, <2>2
  <2>4. \A i \in DOMAIN u : u[i].part = "head" => u[i].request \in requests
    BY <1>0, <2>2 DEF Answers
  <2>5. \A i \in DOMAIN v : v[i].part = "head" => v[i].request \in requests
    BY <1>m, <2>3, <2>4
  <2>6. n + 1 \in Nat /\ n + 2 \in Nat
    BY <2>1
  <2>7. Answers(l, requests)
    <3> HIDE DEF k, l, requests
    <3> QED BY <1>0, <1>m, <2>2, <2>5, <2>6 DEF Answers
  <2> QED BY <1>m, <2>7, OneAnswers
<1>3. CASE SendBody(c)
  <2>1. PICK t \in Tokens : /\ Unserved(l) = Append(Unserved(k), t)
                            /\ t.part = "body" /\ t.of = k.sent
    BY <1>3, SendsBody
  <2>2. /\ Alone(c) /\ l.at = k.at /\ l.answers = k.answers /\ l.request = k.request
        /\ l.sent = k.sent /\ ~l.owes /\ k.owes /\ scope' = scope
    BY <1>3, SendsBody DEF SendBody, Here
  <2>3. ASSUME NEW i \in Nat, RequestsFrom(Unserved(k), i, k.sent, k.owes)
        PROVE  RequestsFrom(Unserved(l), i, l.sent, l.owes)
    <3>1. Unserved(k) \in Seq(Tokens) /\ k.sent \in Nat
      BY <1>0, ConnectionShape
    <3> HIDE DEF k, l
    <3> QED BY <2>1, <2>2, <2>3, <3>1, BodyFollows
  <2> QED BY <2>1, <2>2, <2>3, <1>m
<1>4. ASSUME NEW r \in scope.requests[c], Send(c, r) PROVE AnswerInv'
  <2>1. PICK t \in Tokens : /\ Unserved(l) = Append(Unserved(k), t)
                            /\ t.part = "head" /\ t.of = k.sent + 1 /\ t.request = r
    BY <1>4, Sends
  <2>2. /\ Alone(c) /\ l.at = k.at /\ l.answers = k.answers /\ l.request = k.request
        /\ l.sent = k.sent + 1 /\ l.owes = r.body /\ ~k.owes /\ scope' = scope
        /\ r \in Request
    BY <1>4, Sends DEF Send, Here
  <2>3. ASSUME NEW i \in Nat, RequestsFrom(Unserved(k), i, k.sent, k.owes)
        PROVE  RequestsFrom(Unserved(l), i, l.sent, l.owes)
    <3>1. Unserved(k) \in Seq(Tokens) /\ k.sent \in Nat
      BY <1>0, ConnectionShape
    <3>2. l.owes = t.request.body /\ l.owes \in BOOLEAN /\ k.owes \in BOOLEAN
      BY <1>0, <2>1, <2>2, ConnectionShape DEF Request
    <3> HIDE DEF k, l
    <3> QED BY <2>1, <2>2, <2>3, <3>1, <3>2, HeadSent
  <2> QED BY <2>1, <2>2, <2>3, <1>m
<1> QED BY <1>1, <1>2, <1>3, <1>4 DEF Client

\* A request for a part of the dashboard closes its connection.
LEMMA AssetsClose ==
    ASSUME NoKeptAssets, WebTypes, StreamInv, AnswerInv, NEW c \in Clients, ServeAsset(c)
    PROVE  Answer(c, FALSE)
<1> DEFINE r == Head(conn[c].buffer).request
<1>1. /\ conn[c] \in Connection /\ conn[c].buffer # <<>> /\ conn[c].at = "head"
      /\ Head(conn[c].buffer).part = "head" /\ r.route = "asset"
      /\ Answer(c, r.keep /\ ~r.body)
  BY DEF ServeAsset, AtFront, At, FrontIs, WebTypes
<1>2. Unserved(conn[c]) # <<>> /\ Unserved(conn[c])[1] = Head(conn[c].buffer)
  BY <1>1, FirstUnserved
<1>3. 1 \in DOMAIN Unserved(conn[c])
  <2>1. Unserved(conn[c]) \in Seq(Tokens)
    BY <1>1, ConnectionShape
  <2> QED BY <2>1, <1>2
<1>4. r \in scope.requests[c]
  BY <1>1, <1>2, <1>3 DEF AnswerInv, Answers
<1>5. ~r.keep \/ r.body
  BY <1>1, <1>4 DEF NoKeptAssets, WebTypes
<1>6. (r.keep /\ ~r.body) = FALSE
  BY <1>5
<1> QED BY <1>1, <1>6

\* A request refused, or served from its head alone, closes its connection with an
\* answer in order.
LEMMA AnswersAndCloses ==
    ASSUME WebTypes, AnswerInv, NEW c \in Clients, AtFront(c), Answer(c, FALSE), scope' = scope
    PROVE  AnswerInv'
<1> DEFINE k == conn[c]
           l == conn'[c]
           requests == scope.requests[c]
<1>1. /\ Answers(k, requests) /\ k \in Connection /\ k.buffer # <<>> /\ k.at = "head"
  BY DEF AnswerInv, WebTypes, AtFront, At
<1>2. /\ Alone(c) /\ Same(k, l) /\ l.at = "leaving"
      /\ l.answers = Append(k.answers, k.buffer[1].of)
  BY <1>1, AnswersFront
<1> HIDE DEF k, l, requests
<1>3. Unserved(k) # <<>> /\ Unserved(k)[1] = k.buffer[1]
  BY <1>1, FirstUnserved
<1>4. k.answers \in Seq(Nat)
  BY <1>1, ConnectionShape
<1>5. /\ k.buffer[1].of = Len(k.answers) + 1
      /\ \A i \in 1 .. Len(k.answers) : k.answers[i] = i
  BY <1>1, <1>3 DEF Answers, RequestsFrom
<1>6. \A i \in 1 .. Len(l.answers) : l.answers[i] = i
  BY <1>2, <1>4, <1>5, AnswersGrow
<1>7. Unserved(l) = Unserved(k)
  BY <1>2 DEF Same, Unserved
<1>8. Answers(l, requests)
  BY <1>1, <1>2, <1>6, <1>7 DEF Answers
<1> QED BY <1>2, <1>8, OneAnswers DEF l, requests

\* The request whose body was read is answered in order.
LEMMA AnswersServed ==
    ASSUME NEW k \in Connection, NEW l, NEW requests, Answers(k, requests), k.at = "serve",
           l.answers = Append(k.answers, k.request.of),
           \/ Same(k, l) /\ l.at \in {"head", "leaving"}
           \/ Unserved(l) = <<>> /\ l.at = "read"
    PROVE  Answers(l, requests)
<1>1. k.answers \in Seq(Nat) /\ Len(k.answers) \in Nat
  BY ConnectionShape
<1>2. /\ k.request.of = Len(k.answers) + 1
      /\ \A i \in 1 .. Len(k.answers) : k.answers[i] = i
      /\ RequestsFrom(Unserved(k), Len(k.answers) + 2, k.sent, k.owes)
  BY DEF Answers
<1>3. /\ Len(l.answers) = Len(k.answers) + 1
      /\ \A i \in 1 .. Len(l.answers) : l.answers[i] = i
  BY <1>1, <1>2, AnswersGrow
<1>4. Len(l.answers) + 1 = Len(k.answers) + 2
  BY <1>1, <1>3
<1>5. CASE Same(k, l) /\ l.at \in {"head", "leaving"}
  <2>1. Unserved(l) = Unserved(k) /\ l.sent = k.sent /\ l.owes = k.owes
    BY <1>5 DEF Same, Unserved
  <2> QED BY <1>2, <1>3, <1>4, <1>5, <2>1 DEF Answers
<1>6. CASE Unserved(l) = <<>> /\ l.at = "read"
  BY <1>3, <1>6 DEF Answers
<1> QED BY <1>5, <1>6

\* read_body leaves what is unserved to begin with the next request.
LEMMA AnswerBody ==
    ASSUME WebTypes, StreamInv, AnswerInv, NEW c \in Clients, ReadBody(c)
    PROVE  AnswerInv'
<1> DEFINE k == conn[c]
           l == conn'[c]
           u == Unserved(k)
           v == Unserved(l)
           m == IF u[1].request.body THEN 2 ELSE 1
           n == Len(k.answers)
           requests == scope.requests[c]
<1>1. k.buffer # <<>> /\ k.at = "body" /\ Answers(k, requests) /\ k \in Connection
  BY DEF ReadBody, At, StreamInv, Resumes, AnswerInv, WebTypes
<1>2. /\ Alone(c) /\ l.at = "serve" /\ l.answers = k.answers
      /\ l.sent = k.sent /\ l.owes = k.owes /\ l.request = u[1] /\ m <= Len(u)
      /\ Len(v) = Len(u) - m /\ \A i \in 1 .. Len(v) : v[i] = u[m + i]
  BY <1>1, ReadsBody
<1>3. l \in Connection /\ scope' = scope
  BY <1>2 DEF Alone, ReadBody, Here
<1>4. u \in Seq(Tokens) /\ v \in Seq(Tokens) /\ n \in Nat /\ k.sent \in Nat /\ k.owes \in BOOLEAN
  BY <1>1, <1>3, ConnectionShape
<1>5. u # <<>>
  BY <1>1, FirstUnserved
<1> HIDE DEF u, v, k, l
<1>6. RequestsFrom(u, n + 1, k.sent, k.owes) /\ \A i \in 1 .. n : k.answers[i] = i
  BY <1>1 DEF Answers, u
<1>7. u[1].of = n + 1
  BY <1>5, <1>6 DEF RequestsFrom
<1>8. RequestsFrom(v, n + 2, k.sent, k.owes)
  <2>1. PICK a, b, mm, front, next, sent, owes :
          /\ a = u /\ b = v /\ mm = m /\ front = n + 1 /\ next = n + 2
          /\ sent = k.sent /\ owes = k.owes
    OBVIOUS
  <2>2. /\ Len(b) = Len(a) - mm /\ \A i \in 1 .. Len(b) : b[i] = a[mm + i]
        /\ mm \in {1, 2} /\ mm <= Len(a)
        /\ a[1].request.body => mm = 2
        /\ ~a[1].request.body => mm = 1
    BY <1>2, <2>1
  <2>3. front \in Nat /\ next = front + 1 /\ sent \in Nat /\ owes \in BOOLEAN
    BY <1>4, <2>1
  <2>4. a \in Seq(Tokens) /\ b \in Seq(Tokens) /\ a # <<>> /\ RequestsFrom(a, front, sent, owes)
    BY <1>4, <1>5, <1>6, <2>1
  <2>5. RequestsFrom(b, next, sent, owes)
    BY <2>2, <2>3, <2>4, FrontLeaves
  <2> QED BY <2>1, <2>5
<1>9. \A i \in DOMAIN v : v[i].part = "head" => v[i].request \in requests
  <2>1. \A i \in 1 .. Len(u) : u[i].part = "head" => u[i].request \in requests
    BY <1>1, <1>4 DEF Answers, u
  <2> SUFFICES ASSUME NEW i \in 1 .. Len(v) PROVE v[i].part = "head" => v[i].request \in requests
    BY <1>4
  <2>2. m + i \in 1 .. Len(u) /\ v[i] = u[m + i]
    BY <1>2, <1>4
  <2> QED BY <2>1, <2>2
<1>10. Answers(l, requests)
  BY <1>2, <1>6, <1>7, <1>8, <1>9 DEF Answers, v
<1> QED BY <1>2, <1>3, <1>10, OneAnswers DEF l

\* The steps of the accept loop and of a handler.
LEMMA AnswerHandler ==
    ASSUME NoKeptAssets, RingInv, WebTypes, StreamInv, AnswerInv, ServingAssumption,
           NEW c \in Clients, Accept(c) \/ EndRefusal(c) \/ Handler(c)
    PROVE  AnswerInv'
<1> DEFINE k == conn[c]
           l == conn'[c]
           requests == scope.requests[c]
<1>0. Answers(k, requests) /\ k \in Connection
  BY DEF AnswerInv, WebTypes
<1>h. scope' = scope
  <2>1. CASE Accept(c) \/ EndRefusal(c)
    BY <2>1 DEF Accept, EndRefusal
  <2>2. CASE Handler(c)
    <3>1. CASE Receive(c) \/ EndOfInput(c) \/ Recycle(c) \/ RefuseHead(c) \/ ServeAsset(c)
      BY <3>1 DEF Receive, EndOfInput, Recycle, RefuseHead, ServeAsset, Here
    <3>2. CASE Reject(c) \/ Admit(c) \/ ReadBody(c) \/ ServeCall(c) \/ Panic(c) \/ Release(c)
      BY <3>2 DEF Reject, Admit, ReadBody, ServeCall, Panic, Release, Here
    <3>3. CASE ServeTail(c) \/ ReadTail(c) \/ Wake(c) \/ WriteFrame(c) \/ LoseTail(c)
      BY <3>3 DEF ServeTail, ReadTail, Wake, WriteFrame, LoseTail, Here
    <3> QED BY <2>2, <3>1, <3>2, <3>3 DEF Handler
  <2> QED BY <2>1, <2>2
<1>a. ASSUME Become(c, Away) PROVE AnswerInv'
  <2>1. Alone(c) /\ l = Away
    BY <1>a, FreshIsTyped, Becomes
  <2>2. Answers(l, requests)
    BY <2>1, AnswersNone
  <2> QED BY <1>h, <2>1, <2>2, OneAnswers
<1>s. ASSUME Alone(c), Unserved(l) = Unserved(k), l.answers = k.answers,
             l.at \in Unanswered => l.sent = k.sent /\ l.owes = k.owes,
             l.at \in {"queued", "head", "body"} => k.at \in {"queued", "head", "body"},
             l.at # "serve"
      PROVE  AnswerInv'
  <2> HIDE DEF k, l, requests
  <2>1. Answers(l, requests)
    BY <1>0, <1>s, AnswersSame
  <2> QED BY <1>h, <1>s, <2>1, OneAnswers DEF l, requests
<1>g. ASSUME NEW place \in Places, Goto(c, place), place # "serve",
             place \in {"queued", "head", "body"} => k.at \in {"queued", "head", "body"}
      PROVE  AnswerInv'
  <2>1. Alone(c) /\ Same(k, l) /\ l.at = place /\ l.answers = k.answers
    BY <1>g, GoesTo
  <2>2. Unserved(l) = Unserved(k) /\ l.sent = k.sent /\ l.owes = k.owes
    BY <2>1 DEF Same, Unserved
  <2> HIDE DEF k, l
  <2> QED BY <1>g, <1>s, <2>1, <2>2
<1>1. CASE Accept(c)
  <2>1. k.at = "queued" /\ (Become(c, Away) \/ Goto(c, "head") \/ Goto(c, "refusing"))
    BY <1>1 DEF Accept, At
  <2> QED BY <2>1, <1>a, <1>g DEF Places, Handling
<1>2. CASE EndRefusal(c) \/ Release(c)
  BY <1>2, <1>a DEF EndRefusal, Release
<1>3. CASE EndOfInput(c) \/ Recycle(c) \/ Panic(c) \/ LoseTail(c)
  <2>1. Goto(c, "leaving")
    BY <1>3 DEF EndOfInput, Recycle, Panic, LoseTail
  <2> QED BY <2>1, <1>g DEF Places, Handling
<1>4. CASE RefuseHead(c) \/ ServeAsset(c) \/ Reject(c)
  <2>1. AtFront(c) /\ Answer(c, FALSE)
    BY <1>4, AssetsClose DEF RefuseHead, ServeAsset, Reject
  <2> QED BY <1>h, <2>1, AnswersAndCloses
<1>5. CASE Admit(c)
  <2>1. Goto(c, "body") /\ k.at = "head"
    BY <1>5 DEF Admit, AtFront, At
  <2> QED BY <2>1, <1>g DEF Places, Handling
<1>6. CASE Receive(c)
  <2>1. /\ Alone(c) /\ l.at = k.at /\ l.answers = k.answers /\ Unserved(l) = Unserved(k)
        /\ l.sent = k.sent /\ l.owes = k.owes /\ k.at \in {"head", "body"}
    BY <1>6, Receives
  <2> QED BY <2>1, <1>s
<1>7. CASE ReadBody(c)
  BY <1>7, AnswerBody
<1>8. CASE ServeCall(c)
  <2>1. k.request \in Tokens
    BY <1>8 DEF ServeCall, At, StreamInv, Resumes
  <2>2. /\ Alone(c) /\ Same(k, l) /\ k.at = "serve" /\ l.at \in {"head", "leaving"}
        /\ l.answers = Append(k.answers, k.request.of)
    BY <1>8, <2>1, ServesCall
  <2> HIDE DEF k, l, requests
  <2>3. Answers(l, requests)
    BY <1>0, <2>2, AnswersServed
  <2> QED BY <1>h, <2>2, <2>3, OneAnswers DEF l, requests
<1>9. CASE ServeTail(c)
  <2>1. k.request \in Tokens /\ k.request.part = "head"
    BY <1>9 DEF ServeTail, At, StreamInv, Resumes
  <2>2. /\ Alone(c) /\ k.at = "serve" /\ l.at = "read" /\ Unserved(l) = <<>>
        /\ l.answers = Append(k.answers, k.request.of)
    BY <1>9, <2>1, ServesTail
  <2> HIDE DEF k, l, requests
  <2>3. Answers(l, requests)
    BY <1>0, <2>2, AnswersServed
  <2> QED BY <1>h, <2>2, <2>3, OneAnswers DEF l, requests
<1>f. ASSUME NEW opening \in Nat, Framed(c, Read(k.cursor, opening, Limit, Wanted))
      PROVE  AnswerInv'
  <2>1. PICK u, r : u = k.cursor /\ r = Read(u, opening, Limit, Wanted)
    OBVIOUS
  <2>2. Addressed(u)
    BY <1>0, <2>1, ConnectionShape DEF Addressed
  <2>3. r \in Frames
    BY <2>1, <2>2, ReadIsWhole DEF FrameIsWhole
  <2>4. Framed(c, r)
    BY <1>f, <2>1
  <2>5. /\ Alone(c) /\ l.at = "frame" /\ l.answers = k.answers /\ Unserved(l) = Unserved(k)
    BY <2>3, <2>4, GetsFrame
  <2>6. l.at \notin Unanswered
    BY <2>5 DEF Unanswered
  <2> HIDE DEF k, l
  <2> QED BY <2>5, <2>6, <1>s
<1>10. CASE ReadTail(c)
  <2>1. k.opening \in Nat
    BY <1>0, ConnectionShape
  <2>2. Framed(c, Read(k.cursor, k.opening, Limit, Wanted)) \/ Goto(c, "asleep")
    BY <1>10 DEF ReadTail
  <2> QED BY <2>1, <2>2, <1>f, <1>g DEF Places, Handling
<1>11. CASE Wake(c)
  BY <1>11, <1>f DEF Wake
<1>12. CASE WriteFrame(c)
  <2>1. k.frame \in Frames
    BY <1>12 DEF WriteFrame, StreamInv, FrameIsWhole
  <2>2. /\ Alone(c) /\ l.at = "read" /\ l.answers = k.answers /\ Unserved(l) = Unserved(k)
    BY <1>12, <2>1, Writes
  <2>3. l.at \notin Unanswered
    BY <2>2 DEF Unanswered
  <2> HIDE DEF k, l
  <2> QED BY <2>2, <2>3, <1>s
<1> QED BY <1>1, <1>2, <1>3, <1>4, <1>5, <1>6, <1>7, <1>8, <1>9, <1>10, <1>11, <1>12 DEF Handler

\* Every step keeps the answers in order.
LEMMA AnswerStep ==
    ASSUME NoKeptAssets, TailInv, AnswerInv, ServingAssumption, [Next]_vars
    PROVE  AnswerInv'
<1>0. RingInv /\ WebTypes /\ StreamInv
  BY DEF TailInv
<1>1. ASSUME NEW c \in Clients, Client(c) \/ Accept(c) \/ EndRefusal(c) \/ Handler(c)
      PROVE  AnswerInv'
  BY <1>0, <1>1, AnswerClient, AnswerHandler
<1>2. ASSUME UNCHANGED webVars PROVE AnswerInv'
  BY <1>2 DEF webVars, AnswerInv
<1>3. (\E batch \in Batches : Ingest(batch)) => UNCHANGED webVars
  BY DEF Ingest
<1>4. (\E keys \in Subjects : Erase(keys)) => UNCHANGED webVars
  BY DEF Erase
<1>5. SignalTails => UNCHANGED webVars
  BY DEF SignalTails
<1>6. UNCHANGED vars => UNCHANGED webVars
  BY DEF vars
<1>7. CASE Restart
  <2>1. conn' = [c \in Clients |-> Away] /\ scope' = scope
    BY <1>7 DEF Restart
  <2>2. ASSUME NEW c \in Clients PROVE Answers(conn'[c], scope'.requests[c])
    <3>1. conn'[c] = Away
      BY <2>1
    <3> QED BY <3>1, AnswersNone
  <2> QED BY <2>2 DEF AnswerInv
<1> QED BY <1>1, <1>2, <1>3, <1>4, <1>5, <1>6, <1>7 DEF Next

(* The answers on a connection are to its requests, each once and in       *)
(* order, however requests are pipelined, cut and refused, as long as no   *)
(* request for a part of the dashboard asks to keep its connection         *)
(* (Connection::read_body, body_is_unread, must_close).                    *)
THEOREM AnswersStayInOrder ==
    ASSUME NoKeptAssets
    PROVE  Spec => []AnswersInOrder
<1>1. Init => AnswerInv
  <2> SUFFICES ASSUME Init PROVE AnswerInv
    OBVIOUS
  <2>1. ASSUME NEW c \in Clients PROVE Answers(conn[c], scope.requests[c])
    <3>1. conn[c] = Away
      BY DEF Init
    <3> QED BY <3>1, AnswersNone
  <2> QED BY <2>1 DEF AnswerInv
<1>2. TailInv /\ AnswerInv /\ [Next]_vars => AnswerInv'
  BY AnswerStep, ServingAssumption
<1>3. TailInv /\ AnswerInv => AnswersInOrder
  <2> SUFFICES ASSUME TailInv, AnswerInv, NEW c \in Clients, NEW i \in DOMAIN conn[c].answers
               PROVE  conn[c].answers[i] = i
    BY DEF AnswersInOrder
  <2>1. conn[c].answers \in Seq(Nat)
    BY ConnectionShape DEF TailInv, WebTypes
  <2> QED BY <2>1 DEF AnswerInv, Answers
<1> QED BY <1>1, <1>2, <1>3, TailInvariant, PTL DEF Spec


----------------------------------------------------------------------------
(* The tenants: what keeps their parts of the store apart (Tenancy).       *)

\* What a version of a dataset can be.
Version == [dataset : Nat, examples : SUBSET Example]

StoreType ==
    [spans : SUBSET Span, notes : SUBSET Note, datasets : SUBSET [id : Nat, tenant : Owners],
     versions : SUBSET Version, tombstones : SUBSET Version,
     experiments : SUBSET [id : Nat, version : Version, tenant : Owners],
     runs : SUBSET [experiment : Nat, example : Traces, trace : Traces],
     files : SUBSET Refs, erasures : SUBSET [id : Nat, subject : Subject],
     lastDataset : Nat, lastExperiment : Nat]

\* An id is given once.
Numbered(things, last) ==
    /\ \A x \in things : x.id <= last
    /\ \A x, y \in things : x.id = y.id => x = y

\* A version is of a dataset, which says whose it is ...
Belongs(s, v, tenant) == \E d \in s.datasets : d.id = v.dataset /\ d.tenant = tenant

\* ... and what refers to an experiment is of its tenant.
Linked(s) ==
    /\ \A v \in s.versions : \E d \in s.datasets : d.id = v.dataset
    /\ s.tombstones \subseteq s.versions
    /\ \A e \in s.experiments : e.version \in s.versions /\ Belongs(s, e.version, e.tenant)
    /\ \A r \in s.runs : \E e \in s.experiments : e.id = r.experiment
    /\ \A n \in s.notes : n.experiment # Nil =>
           \E e \in s.experiments : e.id = n.experiment /\ e.tenant = n.tenant

\* A promoted example came from the tenant that has it.
AtHome(s) == \A v \in s.versions : \A x \in v.examples : x.from = Nil \/ Belongs(s, v, x.from)

\* What every request leaves as it is.
Good(s) ==
    /\ s \in StoreType /\ IsFiniteSet(s.erasures)
    /\ Numbered(s.datasets, s.lastDataset) /\ Numbered(s.experiments, s.lastExperiment)
    /\ Linked(s) /\ AtHome(s)

\* Promotions write to the tenant they read from.
TenancyInv ==
    /\ credentials \subseteq Principals
    /\ Good(store)
    /\ \A promotion \in promoting :
           /\ promotion.tenant \in Owners /\ promotion.examples \subseteq Example
           /\ \A x \in promotion.examples : x.from = promotion.tenant

\* The names that stand for no tenant are none's.
LEMMA Names ==
    /\ Unbound \notin Owners /\ Nil \notin Owners /\ Refused \notin Owners
    /\ Unbound # Nil /\ Tenants \subseteq Owners /\ Nil \notin Refs
    /\ \A p \in Principals : p.tenant \in Tenants \cup {Unbound}
BY TenancyAssumption DEF Owners, Refused, Ids, Principals

\* What a bound credential names is its own tenant, or refused.
LEMMA BindsToOwn ==
    ASSUME NEW t \in Tenants, NEW named
    PROVE  BindTenant(named, t) \in {t, Refused}
BY Names DEF BindTenant

\* The owner of a version is the tenant of its dataset, of which there is one.
LEMMA OwnerIs ==
    ASSUME NEW s, Good(s), NEW v, NEW t, Belongs(s, v, t)
    PROVE  OwnerOf(s, v) = t
<1>1. PICK d \in s.datasets : d.id = v.dataset /\ d.tenant = t
  BY DEF Belongs
<1>2. \A e \in s.datasets : e.id = v.dataset => e = d
  BY <1>1 DEF Good, Numbered
<1> QED BY <1>1, <1>2 DEF OwnerOf

\* The part of a store that is a tenant's, field by field.
IdsOf(s, t) == {d.id : d \in {e \in s.datasets : e.tenant = t}}

\* What Only keeps of each field.
LEMMA OnlyIs ==
    ASSUME NEW s \in StoreType, NEW t
    PROVE  LET o == Only(s, t)
           IN  /\ o \in StoreType
               /\ o.spans = {x \in s.spans : x.tenant = t}
               /\ o.notes = {n \in s.notes : n.tenant = t}
               /\ o.datasets = {d \in s.datasets : d.tenant = t}
               /\ o.versions = {v \in s.versions : v.dataset \in IdsOf(s, t)}
               /\ o.tombstones = {v \in s.tombstones : v.dataset \in IdsOf(s, t)}
               /\ o.experiments = {e \in s.experiments : e.tenant = t}
               /\ o.runs = {r \in s.runs : \E e \in s.experiments :
                                               e.tenant = t /\ e.id = r.experiment}
               /\ o.files = {ref \in s.files : Reachable(s, t, ref)}
               /\ o.erasures = {e \in s.erasures : TenantOf(e.subject) = t}
               /\ o.lastDataset = s.lastDataset /\ o.lastExperiment = s.lastExperiment
BY DEF Only, StoreType, IdsOf

----------------------------------------------------------------------------
(* The tenants: reads.                                                     *)

\* A bound scope takes in its own tenant.
LEMMA WithinOwn ==
    ASSUME NEW t \in Tenants, NEW tenant
    PROVE  Within(tenant, t) <=> tenant = t
BY Names DEF Within

\* The tenant's spans, and what they refer to, are in its part.
LEMMA SameSpans ==
    ASSUME NEW s \in StoreType, NEW t \in Tenants
    PROVE  /\ SpansOf(Only(s, t), t) = SpansOf(s, t)
           /\ SpanRefs(Only(s, t), t) = SpanRefs(s, t)
<1>1. \A x : Within(x, t) <=> x = t
  BY WithinOwn
<1>2. Only(s, t).spans = {x \in s.spans : x.tenant = t}
  BY OnlyIs
<1> QED BY <1>1, <1>2 DEF SpansOf, SpanRefs, RefsOf

\* So are its annotations ...
LEMMA SameNotes ==
    ASSUME NEW s \in StoreType, NEW t \in Tenants
    PROVE  /\ \A id : SearchAnnotations(Only(s, t), t, id) = SearchAnnotations(s, t, id)
           /\ \A trace : TraceNotes(Only(s, t), t, trace) = TraceNotes(s, t, trace)
<1>1. \A x : Within(x, t) <=> x = t
  BY WithinOwn
<1>2. Only(s, t).notes = {n \in s.notes : n.tenant = t}
  BY OnlyIs
<1> QED BY <1>1, <1>2 DEF SearchAnnotations, TraceNotes, Matches

\* ... and its datasets and experiments, as the scoped lookups find them.
LEMMA SameDatasets ==
    ASSUME NEW s \in StoreType, NEW t \in Tenants
    PROVE  /\ {d \in Only(s, t).datasets : Within(d.tenant, t)}
                  = {d \in s.datasets : Within(d.tenant, t)}
           /\ {e \in Only(s, t).experiments : Within(e.tenant, t)}
                  = {e \in s.experiments : Within(e.tenant, t)}
           /\ \A id : DatasetIn(Only(s, t), t, id) = DatasetIn(s, t, id)
           /\ \A id : ExperimentIn(Only(s, t), t, id) = ExperimentIn(s, t, id)
<1>1. \A x : Within(x, t) <=> x = t
  BY WithinOwn
<1>2. /\ Only(s, t).datasets = {d \in s.datasets : d.tenant = t}
      /\ Only(s, t).experiments = {e \in s.experiments : e.tenant = t}
  BY OnlyIs
<1> QED BY <1>1, <1>2 DEF DatasetIn, ExperimentIn

\* A version of a dataset of the tenant is there for both, or for neither.
LEMMA SameVersions ==
    ASSUME NEW s \in StoreType, NEW t \in Tenants, NEW v, v.dataset \in IdsOf(s, t)
    PROVE  /\ v \in Only(s, t).versions <=> v \in s.versions
           /\ v \in Only(s, t).tombstones <=> v \in s.tombstones
BY OnlyIs

\* What a scoped lookup finds has the id, and is of the tenant.
LEMMA FoundIsOwn ==
    ASSUME NEW s \in StoreType, NEW t \in Tenants
    PROVE  /\ \A id : DatasetIn(s, t, id) # {} => id \in IdsOf(s, t)
           /\ \A id, d : d \in DatasetIn(s, t, id)
                            => d \in s.datasets /\ d.id = id /\ d.tenant = t
           /\ \A id, e : e \in ExperimentIn(s, t, id)
                            => e \in s.experiments /\ e.id = id /\ e.tenant = t
BY WithinOwn DEF DatasetIn, ExperimentIn, IdsOf

\* The references of a tenant's examples, without asking who owns a version.
LEMMA ExampleRefsAre ==
    ASSUME NEW s, Good(s), NEW t \in Owners
    PROVE  ExampleRefs(s, t)
               = UNION {RefsOf(v.examples) : v \in {w \in s.versions : w.dataset \in IdsOf(s, t)}}
<1>1. \A w \in s.versions : OwnerOf(s, w) = t <=> w.dataset \in IdsOf(s, t)
  <2> SUFFICES ASSUME NEW w \in s.versions PROVE OwnerOf(s, w) = t <=> w.dataset \in IdsOf(s, t)
    OBVIOUS
  <2>1. PICK d \in s.datasets : d.id = w.dataset
    BY DEF Good, Linked
  <2>2. OwnerOf(s, w) = d.tenant
    BY <2>1, OwnerIs DEF Belongs
  <2>3. \A e \in s.datasets : e.id = w.dataset => e = d
    BY <2>1 DEF Good, Numbered
  <2> QED BY <2>1, <2>2, <2>3 DEF IdsOf
<1> QED BY <1>1 DEF ExampleRefs

\* A tenant's part of a good store is one.
LEMMA OnlyIsGood ==
    ASSUME NEW s, Good(s), NEW t \in Tenants
    PROVE  Good(Only(s, t))
<1> DEFINE o == Only(s, t)
<1>0. s \in StoreType /\ IsFiniteSet(s.erasures)
  BY DEF Good
<1>1. o \in StoreType /\ IsFiniteSet(o.erasures)
  <2>1. o.erasures \subseteq s.erasures
    BY <1>0, OnlyIs
  <2> QED BY <1>0, <2>1, OnlyIs, FS_Subset
<1>2. Numbered(o.datasets, o.lastDataset) /\ Numbered(o.experiments, o.lastExperiment)
  BY <1>0, OnlyIs DEF Good, Numbered
<1>3. \A v \in o.versions : \E d \in o.datasets : d.id = v.dataset
  BY <1>0, OnlyIs DEF IdsOf
<1>4. o.tombstones \subseteq o.versions
  BY <1>0, OnlyIs DEF Good, Linked
<1>5. \A e \in o.experiments : e.version \in o.versions /\ Belongs(o, e.version, e.tenant)
  <2> SUFFICES ASSUME NEW e \in o.experiments
               PROVE  e.version \in o.versions /\ Belongs(o, e.version, e.tenant)
    OBVIOUS
  <2>1. e \in s.experiments /\ e.tenant = t
    BY <1>0, OnlyIs
  <2>2. PICK d \in s.datasets : d.id = e.version.dataset /\ d.tenant = t
    BY <2>1 DEF Good, Linked, Belongs
  <2>3. d \in o.datasets /\ e.version.dataset \in IdsOf(s, t)
    BY <1>0, <2>2, OnlyIs DEF IdsOf
  <2>4. e.version \in s.versions
    BY <2>1 DEF Good, Linked
  <2> QED BY <1>0, <2>1, <2>2, <2>3, <2>4, SameVersions DEF Belongs
<1>6. \A r \in o.runs : \E e \in o.experiments : e.id = r.experiment
  BY <1>0, OnlyIs
<1>7. \A n \in o.notes : n.experiment # Nil =>
          \E e \in o.experiments : e.id = n.experiment /\ e.tenant = n.tenant
  BY <1>0, OnlyIs DEF Good, Linked
<1>8. AtHome(o)
  <2> SUFFICES ASSUME NEW v \in o.versions, NEW x \in v.examples, x.from # Nil
               PROVE  Belongs(o, v, x.from)
    BY DEF AtHome
  <2>1. v \in s.versions /\ v.dataset \in IdsOf(s, t)
    BY <1>0, OnlyIs
  <2>2. PICK d \in s.datasets : d.id = v.dataset /\ d.tenant = x.from
    BY <2>1 DEF Good, AtHome, Belongs
  <2>3. PICK e \in s.datasets : e.id = v.dataset /\ e.tenant = t
    BY <2>1 DEF IdsOf
  <2>4. d = e
    BY <2>2, <2>3 DEF Good, Numbered
  <2>5. d \in o.datasets
    BY <1>0, <2>3, <2>4, OnlyIs
  <2> QED BY <2>2, <2>5 DEF Belongs
<1> QED BY <1>1, <1>2, <1>3, <1>4, <1>5, <1>6, <1>7, <1>8 DEF Good, Linked

\* What a tenant can reach, it can reach in its part.
LEMMA SameRefs ==
    ASSUME NEW s, Good(s), NEW t \in Tenants
    PROVE  /\ ExampleRefs(Only(s, t), t) = ExampleRefs(s, t)
           /\ \A ref : Reachable(Only(s, t), t, ref) <=> Reachable(s, t, ref)
<1>0. s \in StoreType /\ t \in Owners
  BY Names DEF Good
<1>1. IdsOf(Only(s, t), t) = IdsOf(s, t)
  BY <1>0, OnlyIs DEF IdsOf
<1>2. ExampleRefs(Only(s, t), t) = ExampleRefs(s, t)
  <2> DEFINE o == Only(s, t)
  <2>1. ExampleRefs(s, t)
            = UNION {RefsOf(v.examples) : v \in {w \in s.versions : w.dataset \in IdsOf(s, t)}}
    BY <1>0, ExampleRefsAre
  <2>2. Good(o)
    BY OnlyIsGood
  <2>3. ExampleRefs(o, t)
            = UNION {RefsOf(v.examples) : v \in {w \in o.versions : w.dataset \in IdsOf(o, t)}}
    BY <1>0, <2>2, ExampleRefsAre
  <2>4. {w \in o.versions : w.dataset \in IdsOf(o, t)}
            = {w \in s.versions : w.dataset \in IdsOf(s, t)}
    BY <1>0, <1>1, OnlyIs
  <2> QED BY <2>1, <2>3, <2>4
<1> QED BY <1>0, <1>2, SameSpans DEF Reachable

\* The listing of spans, sessions and folds, of annotations, datasets and experiments.
LEMMA ListsOwn ==
    ASSUME NEW s, Good(s), NEW t \in Tenants, NEW named, NEW id
    PROVE  /\ SpansAnswer(Only(s, t), t, named) = SpansAnswer(s, t, named)
           /\ SessionsAnswer(Only(s, t), t, named) = SessionsAnswer(s, t, named)
           /\ FoldAnswer(Only(s, t), t, named) = FoldAnswer(s, t, named)
           /\ AnnotationsAnswer(Only(s, t), t, named, id) = AnnotationsAnswer(s, t, named, id)
<1> DEFINE tenant == BindTenant(named, t)
<1>0. s \in StoreType
  BY DEF Good
<1>1. CASE tenant = Refused
  BY <1>1 DEF SpansAnswer, SessionsAnswer, FoldAnswer, AnnotationsAnswer
<1>2. CASE tenant = t
  BY <1>0, <1>2, SameSpans, SameNotes
     DEF SpansAnswer, SessionsAnswer, FoldAnswer, AnnotationsAnswer, SessionRows
<1> QED BY <1>1, <1>2, BindsToOwn

\* One trace, one session.
LEMMA DetailsOwn ==
    ASSUME NEW s, Good(s), NEW t \in Tenants, NEW named, NEW trace
    PROVE  /\ TraceAnswer(Only(s, t), t, named, trace) = TraceAnswer(s, t, named, trace)
           /\ SessionAnswer(Only(s, t), t, named, trace) = SessionAnswer(s, t, named, trace)
<1> DEFINE tenant == BindTenant(named, t)
<1>0. s \in StoreType
  BY DEF Good
<1>1. CASE tenant = Refused
  BY <1>1 DEF TraceAnswer, SessionAnswer
<1>2. CASE tenant = t
  <2>1. SpansOf(Only(s, t), tenant) = SpansOf(s, tenant)
    BY <1>0, <1>2, SameSpans
  <2>2. TraceNotes(Only(s, t), tenant, trace) = TraceNotes(s, tenant, trace)
    BY <1>0, <1>2, SameNotes
  <2>3. TraceAnswer(Only(s, t), t, named, trace) = TraceAnswer(s, t, named, trace)
    BY <2>1, <2>2 DEF TraceAnswer
  <2>4. SessionDetail(Only(s, t), tenant, trace) = SessionDetail(s, tenant, trace)
    BY <2>1 DEF SessionDetail
  <2> QED BY <2>3, <2>4 DEF SessionAnswer
<1> QED BY <1>1, <1>2, BindsToOwn

\* A payload, the usage of tenants, the tools of an agent, erasures.
LEMMA SurfacesOwn ==
    ASSUME NEW s, Good(s), NEW t \in Tenants, NEW x
    PROVE  /\ PayloadAnswer(Only(s, t), t, x) = PayloadAnswer(s, t, x)
           /\ TenantUsage(Only(s, t), t) = TenantUsage(s, t)
           /\ CallTool(Only(s, t), t, x) = CallTool(s, t, x)
           /\ ErasuresAnswer(Only(s, t), t) = ErasuresAnswer(s, t)
           /\ ErasureAnswer(Only(s, t), t, x) = ErasureAnswer(s, t, x)
<1>0. s \in StoreType /\ t # Unbound
  BY Names DEF Good
<1>1. PayloadAnswer(Only(s, t), t, x) = PayloadAnswer(s, t, x)
  BY <1>0, OnlyIs, SameRefs DEF PayloadAnswer
<1>2. TenantUsage(Only(s, t), t) = TenantUsage(s, t)
  <2>1. \A y \in SpansOf(s, t) : y.tenant = t
    BY WithinOwn DEF SpansOf
  <2>2. UsageRow(Only(s, t), t) = UsageRow(s, t)
    BY <1>0, SameSpans DEF UsageRow
  <2>3. SpansOf(Only(s, t), t) = SpansOf(s, t)
    BY <1>0, SameSpans
  <2> QED BY <2>1, <2>2, <2>3 DEF TenantUsage
<1>3. Overview(Only(s, t), t) = Overview(s, t)
  BY <1>0, <1>2, ListsOwn DEF Overview
<1>4. CallTool(Only(s, t), t, x) = CallTool(s, t, x)
  BY <1>3, ListsOwn DEF CallTool
<1>5. ErasuresAnswer(Only(s, t), t) = ErasuresAnswer(s, t)
  BY <1>0, OnlyIs DEF ErasuresAnswer
<1> QED BY <1>1, <1>2, <1>4, <1>5 DEF ErasureAnswer

\* Datasets and their versions.
LEMMA DatasetsOwn ==
    ASSUME NEW s, Good(s), NEW t \in Tenants, NEW named, NEW id, NEW examples
    PROVE  /\ DatasetsAnswer(Only(s, t), t, named) = DatasetsAnswer(s, t, named)
           /\ DatasetAnswer(Only(s, t), t, id) = DatasetAnswer(s, t, id)
           /\ VersionAnswer(Only(s, t), t, id, examples) = VersionAnswer(s, t, id, examples)
<1> DEFINE tenant == BindTenant(named, t)
<1>0. s \in StoreType
  BY DEF Good
<1>1. \A d \in s.datasets : d.tenant = t => DatasetView(Only(s, t), d) = DatasetView(s, d)
  <2> SUFFICES ASSUME NEW d \in s.datasets, d.tenant = t
               PROVE  DatasetView(Only(s, t), d) = DatasetView(s, d)
    OBVIOUS
  <2>1. d.id \in IdsOf(s, t)
    BY DEF IdsOf
  <2>2. /\ {v \in Only(s, t).versions : v.dataset = d.id} = {v \in s.versions : v.dataset = d.id}
        /\ {v \in Only(s, t).tombstones : v.dataset = d.id}
               = {v \in s.tombstones : v.dataset = d.id}
    BY <1>0, <2>1, OnlyIs
  <2> QED BY <2>2 DEF DatasetView
<1>2. DatasetAnswer(Only(s, t), t, id) = DatasetAnswer(s, t, id)
  <2>1. DatasetIn(Only(s, t), t, id) = DatasetIn(s, t, id)
    BY <1>0, SameDatasets
  <2>2. \A d \in DatasetIn(s, t, id) : DatasetView(Only(s, t), d) = DatasetView(s, d)
    BY <1>0, <1>1, FoundIsOwn
  <2> QED BY <2>1, <2>2 DEF DatasetAnswer
<1>3. DatasetsAnswer(Only(s, t), t, named) = DatasetsAnswer(s, t, named)
  <2>1. CASE tenant = Refused
    BY <2>1 DEF DatasetsAnswer
  <2>2. CASE tenant = t
    <3>1. {d \in Only(s, t).datasets : Within(d.tenant, t)}
              = {d \in s.datasets : Within(d.tenant, t)}
      BY <1>0, SameDatasets
    <3>2. \A d \in s.datasets :
              Within(d.tenant, t) => DatasetView(Only(s, t), d) = DatasetView(s, d)
      BY <1>1, WithinOwn
    <3> QED BY <2>2, <3>1, <3>2 DEF DatasetsAnswer
  <2> QED BY <2>1, <2>2, BindsToOwn
<1>4. VersionAnswer(Only(s, t), t, id, examples) = VersionAnswer(s, t, id, examples)
  <2> DEFINE version == [dataset |-> id, examples |-> examples]
  <2>1. DatasetIn(Only(s, t), t, id) = DatasetIn(s, t, id)
    BY <1>0, SameDatasets
  <2>2. CASE DatasetIn(s, t, id) = {}
    BY <2>1, <2>2 DEF VersionAnswer
  <2>3. CASE DatasetIn(s, t, id) # {}
    <3>1. version.dataset \in IdsOf(s, t)
      BY <1>0, <2>3, FoundIsOwn
    <3>2. /\ version \in Only(s, t).versions <=> version \in s.versions
          /\ version \in Only(s, t).tombstones <=> version \in s.tombstones
      BY <1>0, <3>1, SameVersions
    <3> QED BY <2>1, <3>2 DEF VersionAnswer
  <2> QED BY <2>2, <2>3
<1> QED BY <1>2, <1>3, <1>4

\* A score found by its experiment is of the tenant of the experiment.
LEMMA ScoresAreOwn ==
    ASSUME NEW s, Good(s), NEW t \in Tenants, NEW id, ExperimentIn(s, t, id) # {}, id # Nil
    PROVE  SearchAnnotations(Only(s, t), Nil, id) = SearchAnnotations(s, Nil, id)
<1>0. s \in StoreType
  BY DEF Good
<1>1. PICK e \in s.experiments : e.id = id /\ e.tenant = t
  BY <1>0, FoundIsOwn
<1>2. \A n \in s.notes : n.experiment = id => n.tenant = t
  <2> SUFFICES ASSUME NEW n \in s.notes, n.experiment = id PROVE n.tenant = t
    OBVIOUS
  <2>1. PICK f \in s.experiments : f.id = id /\ f.tenant = n.tenant
    BY DEF Good, Linked
  <2>2. e = f
    BY <1>1, <2>1 DEF Good, Numbered
  <2> QED BY <1>1, <2>1, <2>2
<1>3. Only(s, t).notes = {n \in s.notes : n.tenant = t}
  BY <1>0, OnlyIs
<1> QED BY <1>2, <1>3 DEF SearchAnnotations, Matches, Within

\* The runs of an experiment of the tenant.
LEMMA RunsAreOwn ==
    ASSUME NEW s \in StoreType, NEW t \in Tenants, NEW e \in s.experiments, e.tenant = t
    PROVE  {r \in Only(s, t).runs : r.experiment = e.id} = {r \in s.runs : r.experiment = e.id}
BY OnlyIs

\* An experiment looks the same in its part: its version and its runs are there.
LEMMA ViewsAreOwn ==
    ASSUME NEW s, Good(s), NEW t \in Tenants, NEW e \in s.experiments, e.tenant = t
    PROVE  ExperimentView(Only(s, t), e) = ExperimentView(s, e)
<1>0. s \in StoreType
  BY DEF Good
<1>1. Belongs(s, e.version, t)
  BY DEF Good, Linked
<1>2. e.version.dataset \in IdsOf(s, t)
  BY <1>1 DEF Belongs, IdsOf
<1>3. (e.version \in Only(s, t).tombstones) = (e.version \in s.tombstones)
  BY <1>0, <1>2, SameVersions
<1>4. {r \in Only(s, t).runs : r.experiment = e.id} = {r \in s.runs : r.experiment = e.id}
  BY <1>0, RunsAreOwn
<1> QED BY <1>3, <1>4 DEF ExperimentView

\* So does the list of experiments.
LEMMA ListsExperiments ==
    ASSUME NEW s, Good(s), NEW t \in Tenants, NEW named
    PROVE  ExperimentsAnswer(Only(s, t), t, named) = ExperimentsAnswer(s, t, named)
<1> DEFINE tenant == BindTenant(named, t)
<1>1. CASE tenant = Refused
  BY <1>1 DEF ExperimentsAnswer
<1>2. CASE tenant = t
  <2>1. {e \in Only(s, t).experiments : Within(e.tenant, t)}
            = {e \in s.experiments : Within(e.tenant, t)}
    BY SameDatasets DEF Good
  <2>2. \A e \in s.experiments :
            Within(e.tenant, t) => ExperimentView(Only(s, t), e) = ExperimentView(s, e)
    BY ViewsAreOwn, WithinOwn
  <2> QED BY <1>2, <2>1, <2>2 DEF ExperimentsAnswer
<1> QED BY <1>1, <1>2, BindsToOwn

\* Experiments, their runs and their scores.
LEMMA ExperimentsOwn ==
    ASSUME NEW s, Good(s), NEW t \in Tenants, NEW id \in Ids, NEW other \in Ids
    PROVE  /\ ExperimentAnswer(Only(s, t), t, id) = ExperimentAnswer(s, t, id)
           /\ RunsAnswer(Only(s, t), t, id) = RunsAnswer(s, t, id)
           /\ ScoresAnswer(Only(s, t), t, id) = ScoresAnswer(s, t, id)
           /\ SummaryAnswer(Only(s, t), t, id) = SummaryAnswer(s, t, id)
           /\ DiffAnswer(Only(s, t), t, id, other) = DiffAnswer(s, t, id, other)
<1>0. s \in StoreType /\ id # Nil /\ other # Nil
  BY TenancyAssumption DEF Good, Ids
<1>1. \A i : ExperimentIn(Only(s, t), t, i) = ExperimentIn(s, t, i)
  BY <1>0, SameDatasets
<1>2. \A i : \A e \in ExperimentIn(s, t, i) : e \in s.experiments /\ e.id = i /\ e.tenant = t
  BY <1>0, FoundIsOwn
<1>3. ExperimentAnswer(Only(s, t), t, id) = ExperimentAnswer(s, t, id)
  <2>1. \A e \in ExperimentIn(s, t, id) : ExperimentView(Only(s, t), e) = ExperimentView(s, e)
    BY <1>2, ViewsAreOwn
  <2> QED BY <1>1, <2>1 DEF ExperimentAnswer
<1>4. RunsAnswer(Only(s, t), t, id) = RunsAnswer(s, t, id)
  <2>1. CASE ExperimentIn(s, t, id) = {}
    BY <1>1, <2>1 DEF RunsAnswer
  <2>2. CASE ExperimentIn(s, t, id) # {}
    <3>1. PICK e \in ExperimentIn(s, t, id) : TRUE
      BY <2>2
    <3>2. {r \in Only(s, t).runs : r.experiment = e.id} = {r \in s.runs : r.experiment = e.id}
      BY <1>0, <1>2, <3>1, RunsAreOwn
    <3>3. e.id = id
      BY <1>2, <3>1
    <3> QED BY <1>1, <2>2, <3>2, <3>3 DEF RunsAnswer
  <2> QED BY <2>1, <2>2
<1>5. \A i \in Ids : ScoresAnswer(Only(s, t), t, i) = ScoresAnswer(s, t, i)
  <2> SUFFICES ASSUME NEW i \in Ids
               PROVE  ScoresAnswer(Only(s, t), t, i) = ScoresAnswer(s, t, i)
    OBVIOUS
  <2>1. i # Nil
    BY TenancyAssumption DEF Ids
  <2>2. CASE ExperimentIn(s, t, i) = {}
    BY <1>1, <2>2 DEF ScoresAnswer
  <2>3. CASE ExperimentIn(s, t, i) # {}
    BY <1>1, <2>1, <2>3, ScoresAreOwn DEF ScoresAnswer
  <2> QED BY <2>2, <2>3
<1>6. SummaryAnswer(Only(s, t), t, id) = SummaryAnswer(s, t, id)
  BY <1>1, <1>5 DEF SummaryAnswer
<1>7. DiffAnswer(Only(s, t), t, id, other) = DiffAnswer(s, t, id, other)
  BY <1>1, <1>5 DEF DiffAnswer
<1> QED BY <1>3, <1>4, <1>5, <1>6, <1>7

\* Only the operator may ask for the numbers of the whole store.
LEMMA StatsAreTheOperators ==
    ASSUME NEW p \in Principals, NEW r \in ReadRequests, May(p, r), p.tenant # Unbound
    PROVE  r.op # "stats"
BY DEF May, Authorized, SurfaceOf

\* Every answer to a bound credential is the one its tenant's part would give.
LEMMA GoodReadsOwn == credentials \subseteq Principals /\ Good(store) => ReadsOwn
<1> SUFFICES ASSUME Good(store), NEW p \in Principals, NEW r \in ReadRequests,
                    p.tenant # Unbound, May(p, r)
             PROVE  Reply(store, p.tenant, r) = Reply(Only(store, p.tenant), p.tenant, r)
  BY DEF ReadsOwn
<1> DEFINE t == p.tenant
           o == Only(store, t)
<1>0. t \in Tenants /\ r.op # "stats"
  BY Names, StatsAreTheOperators
<1>1. /\ r.op \in {"spans", "sessions", "folds", "annotations", "datasets", "experiments",
                  "trace", "session", "payload", "getDataset", "getVersion", "getExperiment",
                  "runs", "scores", "summary", "diff", "erasure", "erasures", "tenants", "tool"}
      /\ r.op \in {"getExperiment", "runs", "scores", "summary"} => r.id \in Ids
      /\ r.op = "diff" => r.id \in Ids /\ r.other \in Ids
  BY <1>0 DEF ReadRequests
<1>2. CASE r.op = "spans"
  <2>1. SpansAnswer(store, t, r.named) = SpansAnswer(o, t, r.named)
    BY <1>0, <1>2, ListsOwn
  <2> QED BY <1>2, <2>1 DEF Reply
<1>3. CASE r.op = "sessions"
  <2>1. SessionsAnswer(store, t, r.named) = SessionsAnswer(o, t, r.named)
    BY <1>0, <1>3, ListsOwn
  <2> QED BY <1>3, <2>1 DEF Reply
<1>4. CASE r.op = "folds"
  <2>1. FoldAnswer(store, t, r.named) = FoldAnswer(o, t, r.named)
    BY <1>0, <1>4, ListsOwn
  <2> QED BY <1>4, <2>1 DEF Reply
<1>5. CASE r.op = "annotations"
  <2>1. AnnotationsAnswer(store, t, r.named, r.experiment)
            = AnnotationsAnswer(o, t, r.named, r.experiment)
    BY <1>0, <1>5, ListsOwn
  <2> QED BY <1>5, <2>1 DEF Reply
<1>6. CASE r.op = "datasets"
  <2>1. DatasetsAnswer(store, t, r.named) = DatasetsAnswer(o, t, r.named)
    BY <1>0, <1>6, DatasetsOwn
  <2> QED BY <1>6, <2>1 DEF Reply
<1>7. CASE r.op = "experiments"
  <2>1. ExperimentsAnswer(store, t, r.named) = ExperimentsAnswer(o, t, r.named)
    BY <1>0, <1>7, ListsExperiments
  <2> QED BY <1>7, <2>1 DEF Reply
<1>8. CASE r.op = "trace"
  <2>1. TraceAnswer(store, t, r.named, r.trace) = TraceAnswer(o, t, r.named, r.trace)
    BY <1>0, <1>8, DetailsOwn
  <2> QED BY <1>8, <2>1 DEF Reply
<1>9. CASE r.op = "session"
  <2>1. SessionAnswer(store, t, r.named, r.trace) = SessionAnswer(o, t, r.named, r.trace)
    BY <1>0, <1>9, DetailsOwn
  <2> QED BY <1>9, <2>1 DEF Reply
<1>10. CASE r.op = "payload"
  <2>1. PayloadAnswer(store, t, r.ref) = PayloadAnswer(o, t, r.ref)
    BY <1>0, <1>10, SurfacesOwn
  <2> QED BY <1>10, <2>1 DEF Reply
<1>11. CASE r.op = "getDataset"
  <2>1. DatasetAnswer(store, t, r.id) = DatasetAnswer(o, t, r.id)
    BY <1>0, <1>11, DatasetsOwn
  <2> QED BY <1>11, <2>1 DEF Reply
<1>12. CASE r.op = "getVersion"
  <2>1. VersionAnswer(store, t, r.id, r.examples) = VersionAnswer(o, t, r.id, r.examples)
    BY <1>0, <1>12, DatasetsOwn
  <2> QED BY <1>12, <2>1 DEF Reply
<1>13. CASE r.op = "getExperiment"
  <2>1. ExperimentAnswer(store, t, r.id) = ExperimentAnswer(o, t, r.id)
    BY <1>0, <1>13, <1>1, ExperimentsOwn
  <2> QED BY <1>13, <2>1 DEF Reply
<1>14. CASE r.op = "runs"
  <2>1. RunsAnswer(store, t, r.id) = RunsAnswer(o, t, r.id)
    BY <1>0, <1>14, <1>1, ExperimentsOwn
  <2> QED BY <1>14, <2>1 DEF Reply
<1>15. CASE r.op = "scores"
  <2>1. ScoresAnswer(store, t, r.id) = ScoresAnswer(o, t, r.id)
    BY <1>0, <1>15, <1>1, ExperimentsOwn
  <2> QED BY <1>15, <2>1 DEF Reply
<1>16. CASE r.op = "summary"
  <2>1. SummaryAnswer(store, t, r.id) = SummaryAnswer(o, t, r.id)
    BY <1>0, <1>16, <1>1, ExperimentsOwn
  <2> QED BY <1>16, <2>1 DEF Reply
<1>17. CASE r.op = "diff"
  <2>1. DiffAnswer(store, t, r.id, r.other) = DiffAnswer(o, t, r.id, r.other)
    BY <1>0, <1>17, <1>1, ExperimentsOwn
  <2> QED BY <1>17, <2>1 DEF Reply
<1>18. CASE r.op = "erasure"
  <2>1. ErasureAnswer(store, t, r.id) = ErasureAnswer(o, t, r.id)
    BY <1>0, <1>18, SurfacesOwn
  <2> QED BY <1>18, <2>1 DEF Reply
<1>19. CASE r.op = "erasures"
  <2>1. ErasuresAnswer(store, t) = ErasuresAnswer(o, t)
    BY <1>0, <1>19, SurfacesOwn
  <2> QED BY <1>19, <2>1 DEF Reply
<1>20. CASE r.op = "tenants"
  <2>1. TenantUsage(store, t) = TenantUsage(o, t)
    BY <1>0, <1>20, SurfacesOwn
  <2> QED BY <1>20, <2>1 DEF Reply
<1>21. CASE r.op = "tool"
  <2>1. CallTool(store, t, r.tool) = CallTool(o, t, r.tool)
    BY <1>0, <1>21, SurfacesOwn
  <2> QED BY <1>21, <2>1 DEF Reply
<1> QED BY <1>1, <1>2, <1>3, <1>4, <1>5, <1>6, <1>7, <1>8, <1>9, <1>10, <1>11, <1>12, <1>13,
           <1>14, <1>15, <1>16, <1>17, <1>18, <1>19, <1>20, <1>21

----------------------------------------------------------------------------
(* The tenants: writes leave a good store.                                 *)

\* What a credential can be bound to.
Bindings == Tenants \cup {Unbound}

\* What EvalLog keeps is the same ...
SameEntities(a, s) ==
    /\ a.datasets = s.datasets /\ a.versions = s.versions /\ a.tombstones = s.tombstones
    /\ a.experiments = s.experiments /\ a.runs = s.runs
    /\ a.lastDataset = s.lastDataset /\ a.lastExperiment = s.lastExperiment

\* ... and a score is of an experiment of its tenant.
Scored(s, n) ==
    n.experiment # Nil => \E e \in s.experiments : e.id = n.experiment /\ e.tenant = n.tenant

\* A store with the entities of a good one, whose scores are of theirs, is good.
LEMMA SameEntitiesKeep ==
    ASSUME NEW s, Good(s), NEW a \in StoreType, IsFiniteSet(a.erasures), SameEntities(a, s),
           \A n \in a.notes : Scored(a, n)
    PROVE  Good(a)
<1>1. Numbered(a.datasets, a.lastDataset) /\ Numbered(a.experiments, a.lastExperiment)
  BY DEF Good, SameEntities
<1>2. \A v, t : Belongs(a, v, t) <=> Belongs(s, v, t)
  BY DEF Belongs, SameEntities
<1>3. Linked(a)
  BY <1>2 DEF Good, Linked, SameEntities, Scored
<1>4. AtHome(a)
  BY <1>2 DEF Good, AtHome, SameEntities
<1> QED BY <1>1, <1>3, <1>4 DEF Good

\* A stamp changes the tenant of a span or a note, and nothing else.
LEMMA StampIs ==
    ASSUME NEW bound \in Bindings, NEW x, x \in Span \/ x \in Note
    PROVE  /\ x \in Span => Stamp(x, bound) \in Span
           /\ x \in Note => Stamp(x, bound) \in Note
           /\ Stamp(x, bound) = [x EXCEPT !.tenant = Stamp(x, bound).tenant]
BY Names DEF Stamp, Span, Note, Bindings, Owners

\* POST /v1/spans, /v1/traces.
LEMMA IngestIsGood ==
    ASSUME NEW s, Good(s), NEW bound \in Bindings, NEW batch \in SUBSET Span
    PROVE  Good(IngestBatch(s, bound, batch).store)
<1> DEFINE stamped == {Stamp(x, bound) : x \in batch}
           keys == {<<x.tenant, x.trace>> : x \in stamped}
           a == [s EXCEPT !.spans = {x \in @ : <<x.tenant, x.trace>> \notin keys} \cup stamped,
                          !.files = @ \cup RefsOf(stamped)]
<1>0. s \in StoreType /\ IsFiniteSet(s.erasures) /\ \A n \in s.notes : Scored(s, n)
  BY DEF Good, Linked, Scored
<1>1. stamped \subseteq Span /\ RefsOf(stamped) \subseteq Refs
  <2>1. stamped \subseteq Span
    BY StampIs
  <2> QED BY <2>1 DEF RefsOf, Span
<1>2. /\ a \in StoreType /\ a.erasures = s.erasures /\ a.notes = s.notes /\ SameEntities(a, s)
  BY <1>0, <1>1 DEF StoreType, SameEntities
<1>3. Good(a)
  BY <1>0, <1>2, SameEntitiesKeep DEF Scored, SameEntities
<1>4. IngestBatch(s, bound, batch).store \in {s, a}
  BY DEF IngestBatch, Denied, Done
<1> QED BY <1>3, <1>4

\* POST /v1/annotations: validate_score refuses what would dangle.
LEMMA AnnotateIsGood ==
    ASSUME NEW s, Good(s), NEW bound \in Bindings, NEW note \in Note
    PROVE  Good(Annotate(s, bound, note).store)
<1> DEFINE stamped == Stamp(note, bound)
           a == [s EXCEPT !.notes = @ \cup {stamped}]
           o == Annotate(s, bound, note)
<1>0. s \in StoreType /\ IsFiniteSet(s.erasures) /\ \A n \in s.notes : Scored(s, n)
  BY DEF Good, Linked, Scored
<1>1. stamped \in Note /\ stamped.experiment = note.experiment
  <2>1. stamped \in Note /\ stamped = [note EXCEPT !.tenant = stamped.tenant]
    BY StampIs
  <2> QED BY <2>1 DEF Note
<1>2. /\ a \in StoreType /\ a.erasures = s.erasures /\ a.notes = s.notes \cup {stamped}
      /\ SameEntities(a, s)
  BY <1>0, <1>1 DEF StoreType, SameEntities
<1>3. o.store = s \/ (o.store = a /\ Scored(s, stamped))
  BY <1>1 DEF Annotate, Denied, Done, Scored, ValidateScore
<1>4. Scored(s, stamped) => Good(a)
  BY <1>0, <1>2, SameEntitiesKeep DEF Scored, SameEntities
<1> QED BY <1>3, <1>4

\* A new dataset has an id of its own.
LEMMA NewDatasetIsGood ==
    ASSUME NEW s, Good(s), NEW t \in Owners
    PROVE  LET a == NewDataset(s, t)
           IN  /\ Good(a) /\ a.lastDataset = s.lastDataset + 1
               /\ a.datasets = s.datasets \cup {[id |-> s.lastDataset + 1, tenant |-> t]}
               /\ a = [s EXCEPT !.datasets = a.datasets, !.lastDataset = a.lastDataset]
<1> DEFINE a == NewDataset(s, t)
           d == [id |-> s.lastDataset + 1, tenant |-> t]
<1>0. s \in StoreType /\ s.lastDataset \in Nat
  BY DEF Good, StoreType
<1>1. a \in StoreType /\ a.datasets = s.datasets \cup {d} /\ a.lastDataset = s.lastDataset + 1
  <2>1. /\ d \in [id : Nat, tenant : Owners]
        /\ s.datasets \cup {d} \in SUBSET [id : Nat, tenant : Owners]
    BY <1>0 DEF StoreType
  <2>2. a = [s EXCEPT !.lastDataset = s.lastDataset + 1, !.datasets = s.datasets \cup {d}]
    BY DEF NewDataset
  <2> HIDE DEF a, d
  <2>3. s.lastDataset + 1 \in Nat
    BY <1>0
  <2> QED BY <1>0, <2>1, <2>2, <2>3 DEF StoreType
<1>2. /\ a = [s EXCEPT !.datasets = a.datasets, !.lastDataset = a.lastDataset]
      /\ a.versions = s.versions /\ a.tombstones = s.tombstones /\ a.notes = s.notes
      /\ a.experiments = s.experiments /\ a.runs = s.runs /\ a.erasures = s.erasures
      /\ a.lastExperiment = s.lastExperiment
  BY <1>0 DEF NewDataset, StoreType
<1>3. Numbered(a.datasets, a.lastDataset)
  <2>1. \A e \in s.datasets : e.id \in Nat /\ e.id <= s.lastDataset
    BY <1>0 DEF Good, Numbered, StoreType
  <2> QED BY <1>0, <1>1, <2>1 DEF Good, Numbered
<1>4. \A v, u : Belongs(s, v, u) => Belongs(a, v, u)
  BY <1>1 DEF Belongs
<1>5. Linked(a)
  BY <1>1, <1>2, <1>4 DEF Good, Linked
<1>6. AtHome(a)
  BY <1>2, <1>4 DEF Good, AtHome
<1> QED BY <1>1, <1>2, <1>3, <1>5, <1>6 DEF Good

\* POST /v1/datasets.
LEMMA CreateDatasetIsGood ==
    ASSUME NEW s, Good(s), NEW bound \in Bindings, NEW named \in Owners \cup {Nil}
    PROVE  Good(CreateDataset(s, bound, named).store)
<1> DEFINE tenant == BindTenant(named, bound)
           owner == IF tenant = Nil THEN Default ELSE tenant
<1>1. tenant \in Owners \cup {Nil, Refused}
  BY Names DEF BindTenant, Bindings
<1>2. tenant # Refused => owner \in Owners
  BY <1>1 DEF Owners
<1>3. CreateDataset(s, bound, named).store
          = IF tenant = Refused THEN s ELSE NewDataset(s, owner)
  BY DEF CreateDataset, Denied, Done
<1>4. CASE tenant = Refused
  BY <1>3, <1>4
<1>5. CASE tenant # Refused
  <2>1. Good(NewDataset(s, owner))
    BY <1>2, <1>5, NewDatasetIsGood
  <2> QED BY <1>3, <1>5, <2>1
<1> QED BY <1>4, <1>5

\* A version whose examples came from nowhere, or from the tenant it is for.
LEMMA CreateVersionIsGood ==
    ASSUME NEW s, Good(s), NEW bound \in Owners \cup {Unbound}, NEW id,
           NEW examples \in SUBSET Example,
           \A x \in examples : x.from = Nil \/ (x.from = bound /\ bound # Unbound)
    PROVE  Good(CreateVersion(s, bound, id, examples).store)
<1> DEFINE v == [dataset |-> id, examples |-> examples]
           a == [s EXCEPT !.versions = @ \cup {v}]
<1>0. s \in StoreType /\ IsFiniteSet(s.erasures)
  BY DEF Good
<1>1. CreateVersion(s, bound, id, examples).store = s
      \/ (CreateVersion(s, bound, id, examples).store = a /\ DatasetIn(s, bound, id) # {})
  BY DEF CreateVersion, Denied, Done
<1>2. ASSUME DatasetIn(s, bound, id) # {} PROVE Good(a)
  <2>1. PICK d \in s.datasets : d.id = id /\ Within(d.tenant, bound)
    BY <1>2 DEF DatasetIn
  <2>2. bound # Unbound => d.tenant = bound
    BY <2>1, Names DEF Within
  <2>3. v \in Version
    BY <1>0, <2>1 DEF Version, StoreType
  <2>4. a \in StoreType /\ a.versions = s.versions \cup {v}
    BY <1>0, <2>3 DEF StoreType
  <2>5. /\ a.datasets = s.datasets /\ a.tombstones = s.tombstones /\ a.notes = s.notes
        /\ a.experiments = s.experiments /\ a.runs = s.runs /\ a.erasures = s.erasures
        /\ a.lastExperiment = s.lastExperiment /\ a.lastDataset = s.lastDataset
    BY <1>0 DEF StoreType
  <2>6. \A w, t : Belongs(a, w, t) <=> Belongs(s, w, t)
    BY <2>5 DEF Belongs
  <2>7. Numbered(a.datasets, a.lastDataset) /\ Numbered(a.experiments, a.lastExperiment)
    BY <2>5 DEF Good
  <2>8. Linked(a)
    <3>1. \A w \in a.versions : \E e \in a.datasets : e.id = w.dataset
      BY <2>1, <2>4, <2>5 DEF Good, Linked
    <3>2. \A e \in a.experiments : e.version \in a.versions /\ Belongs(a, e.version, e.tenant)
      BY <2>4, <2>5, <2>6 DEF Good, Linked
    <3>3. a.tombstones \subseteq a.versions
      BY <2>4, <2>5 DEF Good, Linked
    <3>4. /\ \A r \in a.runs : \E e \in a.experiments : e.id = r.experiment
          /\ \A n \in a.notes : n.experiment # Nil =>
                 \E e \in a.experiments : e.id = n.experiment /\ e.tenant = n.tenant
      BY <2>5 DEF Good, Linked
    <3> QED BY <3>1, <3>2, <3>3, <3>4 DEF Linked
  <2>9. \A x \in v.examples : x.from = Nil \/ Belongs(a, v, x.from)
    BY <2>1, <2>2, <2>5 DEF Belongs
  <2>10. AtHome(a)
    BY <2>4, <2>6, <2>9 DEF Good, AtHome
  <2> QED BY <1>0, <2>4, <2>5, <2>7, <2>8, <2>10 DEF Good
<1> QED BY <1>1, <1>2

\* POST .../tombstone.
LEMMA TombstoneIsGood ==
    ASSUME NEW s, Good(s), NEW bound, NEW id, NEW examples
    PROVE  Good(TombstoneVersion(s, bound, id, examples).store)
<1> DEFINE v == [dataset |-> id, examples |-> examples]
           a == [s EXCEPT !.tombstones = @ \cup {v}]
<1>0. s \in StoreType /\ IsFiniteSet(s.erasures)
  BY DEF Good
<1>1. \/ TombstoneVersion(s, bound, id, examples).store = s
      \/ TombstoneVersion(s, bound, id, examples).store = a /\ v \in s.versions
  BY DEF TombstoneVersion, Denied, Done
<1>2. ASSUME v \in s.versions PROVE Good(a)
  <2>1. v \in Version
    BY <1>0, <1>2 DEF StoreType
  <2>2. a \in StoreType /\ a.tombstones = s.tombstones \cup {v}
    BY <1>0, <2>1 DEF StoreType
  <2>3. /\ a.datasets = s.datasets /\ a.versions = s.versions /\ a.notes = s.notes
        /\ a.experiments = s.experiments /\ a.runs = s.runs /\ a.erasures = s.erasures
        /\ a.lastExperiment = s.lastExperiment /\ a.lastDataset = s.lastDataset
    BY <1>0 DEF StoreType
  <2>4. \A w, t : Belongs(a, w, t) <=> Belongs(s, w, t)
    BY <2>3 DEF Belongs
  <2>5. Linked(a)
    BY <1>2, <2>2, <2>3, <2>4 DEF Good, Linked
  <2>6. AtHome(a)
    BY <2>3, <2>4 DEF Good, AtHome
  <2> QED BY <1>0, <2>2, <2>3, <2>5, <2>6 DEF Good
<1> QED BY <1>1, <1>2

\* POST /v1/experiments: the experiment is of its version's tenant.
LEMMA CreateExperimentIsGood ==
    ASSUME NEW s, Good(s), NEW bound, NEW id, NEW examples
    PROVE  Good(CreateExperiment(s, bound, id, examples).store)
<1> DEFINE v == [dataset |-> id, examples |-> examples]
           n == s.lastExperiment + 1
           f == [id |-> n, version |-> v, tenant |-> OwnerOf(s, v)]
           a == [s EXCEPT !.lastExperiment = n, !.experiments = @ \cup {f}]
<1>0. s \in StoreType /\ IsFiniteSet(s.erasures)
  BY DEF Good
<1>1. \/ CreateExperiment(s, bound, id, examples).store = s
      \/ CreateExperiment(s, bound, id, examples).store = a /\ v \in s.versions
  BY DEF CreateExperiment, Denied, Done
<1>2. ASSUME v \in s.versions PROVE Good(a)
  <2>1. PICK d \in s.datasets : d.id = v.dataset
    BY <1>2 DEF Good, Linked
  <2>2. OwnerOf(s, v) = d.tenant /\ d.tenant \in Owners /\ v \in Version /\ n \in Nat
    <3>1. OwnerOf(s, v) = d.tenant
      BY <2>1, OwnerIs DEF Belongs
    <3>2. d.tenant \in Owners /\ v \in Version
      BY <1>0, <1>2 DEF StoreType
    <3>3. n \in Nat
      BY <1>0 DEF StoreType
    <3> QED BY <3>1, <3>2, <3>3
  <2>3. /\ f \in [id : Nat, version : Version, tenant : Owners]
        /\ f.id = n /\ f.version = v /\ f.tenant = d.tenant
    BY <2>2
  <2> HIDE DEF v, f
  <2>4. a \in StoreType /\ a.experiments = s.experiments \cup {f} /\ a.lastExperiment = n
    BY <1>0, <2>2, <2>3 DEF StoreType
  <2>5. /\ a.datasets = s.datasets /\ a.versions = s.versions /\ a.notes = s.notes
        /\ a.tombstones = s.tombstones /\ a.runs = s.runs /\ a.erasures = s.erasures
        /\ a.lastDataset = s.lastDataset
    BY <1>0 DEF StoreType
  <2>6. \A w, t : Belongs(a, w, t) <=> Belongs(s, w, t)
    BY <2>5 DEF Belongs
  <2>7. Numbered(a.experiments, a.lastExperiment)
    <3>1. \A e \in s.experiments : e.id \in Nat /\ e.id <= s.lastExperiment
      BY <1>0 DEF Good, Numbered, StoreType
    <3>2. s.lastExperiment \in Nat
      BY <1>0 DEF StoreType
    <3> QED BY <2>3, <2>4, <3>1, <3>2 DEF Good, Numbered
  <2>8. Linked(a)
    <3>1. \A w \in a.versions : \E e \in a.datasets : e.id = w.dataset
      BY <2>5 DEF Good, Linked
    <3>2. Belongs(a, v, f.tenant)
      BY <2>1, <2>3, <2>5 DEF Belongs
    <3>3. \A e \in a.experiments : e.version \in a.versions /\ Belongs(a, e.version, e.tenant)
      BY <1>2, <2>3, <2>4, <2>5, <2>6, <3>2 DEF Good, Linked
    <3>4. \A r \in a.runs : \E e \in a.experiments : e.id = r.experiment
      BY <2>4, <2>5 DEF Good, Linked
    <3>5. \A m \in a.notes : m.experiment # Nil =>
              \E e \in a.experiments : e.id = m.experiment /\ e.tenant = m.tenant
      BY <2>4, <2>5 DEF Good, Linked
    <3>6. a.tombstones \subseteq a.versions
      BY <2>5 DEF Good, Linked
    <3> QED BY <3>1, <3>3, <3>4, <3>5, <3>6 DEF Linked
  <2>9. AtHome(a)
    BY <2>5, <2>6 DEF Good, AtHome
  <2> QED BY <1>0, <2>4, <2>5, <2>7, <2>8, <2>9 DEF Good
<1> QED BY <1>1, <1>2

\* POST .../runs: the run is of an experiment that is there.
LEMMA RecordRunIsGood ==
    ASSUME NEW s, Good(s), NEW bound, NEW id, NEW example \in Traces, NEW trace \in Traces
    PROVE  Good(RecordRun(s, bound, id, example, trace).store)
<1> DEFINE r == [experiment |-> id, example |-> example, trace |-> trace]
           a == [s EXCEPT !.runs = @ \cup {r}]
           o == RecordRun(s, bound, id, example, trace)
<1>0. s \in StoreType /\ IsFiniteSet(s.erasures)
  BY DEF Good
<1>1. o.store = s \/ (o.store = a /\ \E e \in ExperimentIn(s, bound, id) : TRUE)
  BY DEF RecordRun, Denied, Done
<1>2. ASSUME NEW f \in ExperimentIn(s, bound, id) PROVE Good(a)
  <2>1. f \in s.experiments /\ f.id = id
    BY DEF ExperimentIn
  <2>2. r \in [experiment : Nat, example : Traces, trace : Traces] /\ r.experiment = id
    BY <1>0, <2>1 DEF StoreType
  <2> HIDE DEF r
  <2>3. a \in StoreType /\ a.runs = s.runs \cup {r}
    BY <1>0, <2>2 DEF StoreType
  <2>4. /\ a.datasets = s.datasets /\ a.versions = s.versions /\ a.notes = s.notes
        /\ a.experiments = s.experiments /\ a.tombstones = s.tombstones
        /\ a.erasures = s.erasures
        /\ a.lastExperiment = s.lastExperiment /\ a.lastDataset = s.lastDataset
    BY <1>0 DEF StoreType
  <2>5. \A w, t : Belongs(a, w, t) <=> Belongs(s, w, t)
    BY <2>4 DEF Belongs
  <2>6. Linked(a)
    BY <2>1, <2>2, <2>3, <2>4, <2>5 DEF Good, Linked
  <2>7. AtHome(a)
    BY <2>4, <2>5 DEF Good, AtHome
  <2> QED BY <1>0, <2>3, <2>4, <2>6, <2>7 DEF Good
<1> QED BY <1>1, <1>2

\* What a purge of the eval entities leaves, field by field.
Lost(s, t) == {e.id : e \in {f \in s.experiments : f.tenant = t}}

LEMMA PurgeEvalsIs ==
    ASSUME NEW s \in StoreType, NEW t
    PROVE  LET a == PurgeEvals(s, t)
           IN  /\ a \in StoreType
               /\ a.spans = s.spans /\ a.notes = s.notes /\ a.files = s.files
               /\ a.datasets = {d \in s.datasets : d.tenant # t}
               /\ a.versions = {v \in s.versions : OwnerOf(s, v) # t}
               /\ a.tombstones = s.tombstones \ {v \in s.versions : OwnerOf(s, v) = t}
               /\ a.experiments = {e \in s.experiments : e.tenant # t}
               /\ a.runs = {r \in s.runs : r.experiment \notin Lost(s, t)}
               /\ a.erasures = s.erasures
               /\ a.lastDataset = s.lastDataset /\ a.lastExperiment = s.lastExperiment
BY DEF PurgeEvals, StoreType, Lost

\* With the notes of the tenant gone before them, nothing is left that dangles.
LEMMA PurgeEvalsIsGood ==
    ASSUME NEW s, Good(s), NEW t, \A n \in s.notes : n.tenant # t
    PROVE  Good(PurgeEvals(s, t))
<1> DEFINE a == PurgeEvals(s, t)
<1>0. s \in StoreType /\ IsFiniteSet(s.erasures)
  BY DEF Good
<1>1. \A v, u : Belongs(s, v, u) => OwnerOf(s, v) = u
  BY OwnerIs
<1>2. \A v, u : Belongs(s, v, u) /\ u # t => Belongs(a, v, u)
  BY <1>0, PurgeEvalsIs DEF Belongs
<1>3. Numbered(a.datasets, a.lastDataset) /\ Numbered(a.experiments, a.lastExperiment)
  BY <1>0, PurgeEvalsIs DEF Good, Numbered
<1>4. \A v \in a.versions : v \in s.versions /\ \E d \in a.datasets : d.id = v.dataset
  <2> SUFFICES ASSUME NEW v \in a.versions
               PROVE  v \in s.versions /\ \E d \in a.datasets : d.id = v.dataset
    OBVIOUS
  <2>1. v \in s.versions /\ OwnerOf(s, v) # t
    BY <1>0, PurgeEvalsIs
  <2>2. PICK d \in s.datasets : d.id = v.dataset
    BY <2>1 DEF Good, Linked
  <2>3. d.tenant # t
    BY <1>1, <2>1, <2>2 DEF Belongs
  <2> QED BY <1>0, <2>1, <2>2, <2>3, PurgeEvalsIs
<1>5. a.tombstones \subseteq a.versions
  BY <1>0, PurgeEvalsIs DEF Good, Linked
<1>6. \A e \in a.experiments : e.version \in a.versions /\ Belongs(a, e.version, e.tenant)
  <2> SUFFICES ASSUME NEW e \in a.experiments
               PROVE  e.version \in a.versions /\ Belongs(a, e.version, e.tenant)
    OBVIOUS
  <2>1. e \in s.experiments /\ e.tenant # t
    BY <1>0, PurgeEvalsIs
  <2>2. e.version \in s.versions /\ Belongs(s, e.version, e.tenant)
    BY <2>1 DEF Good, Linked
  <2> QED BY <1>0, <1>1, <1>2, <2>1, <2>2, PurgeEvalsIs
<1>7. \A r \in a.runs : \E e \in a.experiments : e.id = r.experiment
  <2> SUFFICES ASSUME NEW r \in a.runs PROVE \E e \in a.experiments : e.id = r.experiment
    OBVIOUS
  <2>1. r \in s.runs /\ r.experiment \notin Lost(s, t)
    BY <1>0, PurgeEvalsIs
  <2>2. PICK e \in s.experiments : e.id = r.experiment
    BY <2>1 DEF Good, Linked
  <2>3. e.tenant # t
    BY <2>1, <2>2 DEF Lost
  <2> QED BY <1>0, <2>2, <2>3, PurgeEvalsIs
<1>8. \A n \in a.notes : n.experiment # Nil =>
          \E e \in a.experiments : e.id = n.experiment /\ e.tenant = n.tenant
  BY <1>0, PurgeEvalsIs DEF Good, Linked
<1>9. AtHome(a)
  <2> SUFFICES ASSUME NEW v \in a.versions, NEW x \in v.examples, x.from # Nil
               PROVE  Belongs(a, v, x.from)
    BY DEF AtHome
  <2>1. v \in s.versions /\ OwnerOf(s, v) # t
    BY <1>0, PurgeEvalsIs
  <2>2. Belongs(s, v, x.from)
    BY <2>1 DEF Good, AtHome
  <2> QED BY <1>1, <1>2, <2>1, <2>2
<1> QED
  BY <1>0, <1>3, <1>4, <1>5, <1>6, <1>7, <1>8, <1>9, PurgeEvalsIs DEF Good, Linked

\* What a purge does to a store before it comes to the payload files.
Rid(s, subject) ==
    LET kept == [s EXCEPT !.spans = {x \in @ : ~Covers(subject, x)},
                          !.notes = {n \in @ : ~Covers(subject, n)}]
    IN  IF subject.kind = "tenant" THEN PurgeEvals(kept, subject.tenant) ELSE kept

Refless(s, ref) == {[x EXCEPT !.ref = IF @ = ref THEN Nil ELSE @] : x \in s.spans}

\* A purge is what Rid does and then the files, or the payload and its file.
LEMMA PurgeIs ==
    ASSUME NEW s, NEW subject
    PROVE  /\ subject.kind = "payload" =>
                  Purge(s, subject) = [s EXCEPT !.spans = Refless(s, subject.ref),
                                                !.files = @ \ {subject.ref}]
           /\ subject.kind # "payload" =>
                  Purge(s, subject) = [Rid(s, subject) EXCEPT
                                           !.files = @ \ (LiveRefs(s) \ LiveRefs(Rid(s, subject)))]
BY DEF Purge, Rid, Refless

\* The spans and annotations of the subject go ...
LEMMA KeptIsGood ==
    ASSUME NEW s, Good(s), NEW subject
    PROVE  LET kept == [s EXCEPT !.spans = {x \in @ : ~Covers(subject, x)},
                                 !.notes = {n \in @ : ~Covers(subject, n)}]
           IN  /\ Good(kept) /\ SameEntities(kept, s)
               /\ kept.spans = {x \in s.spans : ~Covers(subject, x)}
               /\ kept.notes = {n \in s.notes : ~Covers(subject, n)}
               /\ kept.files = s.files /\ kept.erasures = s.erasures
<1> DEFINE kept == [s EXCEPT !.spans = {x \in @ : ~Covers(subject, x)},
                             !.notes = {n \in @ : ~Covers(subject, n)}]
<1>0. s \in StoreType /\ IsFiniteSet(s.erasures) /\ \A n \in s.notes : Scored(s, n)
  BY DEF Good, Linked, Scored
<1>1. /\ kept \in StoreType /\ SameEntities(kept, s)
      /\ kept.spans = {x \in s.spans : ~Covers(subject, x)}
      /\ kept.notes = {n \in s.notes : ~Covers(subject, n)}
      /\ kept.files = s.files /\ kept.erasures = s.erasures
  BY <1>0 DEF StoreType, SameEntities
<1>2. \A n \in kept.notes : Scored(kept, n)
  BY <1>0, <1>1 DEF Scored, SameEntities
<1> QED BY <1>0, <1>1, <1>2, SameEntitiesKeep

\* ... and then the eval entities, if it is a tenant.
LEMMA RidIsGood ==
    ASSUME NEW s, Good(s), NEW subject \in Subject
    PROVE  LET a == Rid(s, subject)
           IN  /\ Good(a)
               /\ a.spans = {x \in s.spans : ~Covers(subject, x)}
               /\ a.notes = {n \in s.notes : ~Covers(subject, n)}
               /\ a.files = s.files /\ a.erasures = s.erasures
               /\ subject.kind # "tenant" => SameEntities(a, s)
<1> DEFINE kept == [s EXCEPT !.spans = {x \in @ : ~Covers(subject, x)},
                             !.notes = {n \in @ : ~Covers(subject, n)}]
<1>1. /\ Good(kept) /\ SameEntities(kept, s)
      /\ kept.spans = {x \in s.spans : ~Covers(subject, x)}
      /\ kept.notes = {n \in s.notes : ~Covers(subject, n)}
      /\ kept.files = s.files /\ kept.erasures = s.erasures
  BY KeptIsGood
<1>2. CASE subject.kind # "tenant"
  BY <1>1, <1>2 DEF Rid
<1>3. CASE subject.kind = "tenant"
  <2>1. \A n \in kept.notes : n.tenant # subject.tenant
    BY <1>1, <1>3 DEF Covers
  <2>2. Rid(s, subject) = PurgeEvals(kept, subject.tenant)
    BY <1>3 DEF Rid
  <2> HIDE DEF kept
  <2>3. Good(PurgeEvals(kept, subject.tenant))
    BY <1>1, <2>1, PurgeEvalsIsGood
  <2>4. kept \in StoreType
    BY <1>1 DEF Good
  <2> QED BY <1>1, <1>3, <2>2, <2>3, <2>4, PurgeEvalsIs
<1> QED BY <1>2, <1>3

\* Nothing that makes a store good is about its files.
LEMMA FilesDoNotMatter ==
    ASSUME NEW s, Good(s), NEW files \in SUBSET Refs
    PROVE  LET a == [s EXCEPT !.files = files]
           IN  /\ Good(a) /\ SameEntities(a, s) /\ a.files = files
               /\ a.spans = s.spans /\ a.notes = s.notes /\ a.erasures = s.erasures
<1> DEFINE a == [s EXCEPT !.files = files]
<1>0. s \in StoreType /\ IsFiniteSet(s.erasures) /\ \A n \in s.notes : Scored(s, n)
  BY DEF Good, Linked, Scored
<1>1. /\ a \in StoreType /\ SameEntities(a, s) /\ a.files = files
      /\ a.spans = s.spans /\ a.notes = s.notes /\ a.erasures = s.erasures
  BY <1>0 DEF StoreType, SameEntities
<1>2. \A n \in a.notes : Scored(a, n)
  BY <1>0, <1>1 DEF Scored, SameEntities
<1> QED BY <1>0, <1>1, <1>2, SameEntitiesKeep

\* A purge leaves a good store, and the receipts.
LEMMA PurgeIsGood ==
    ASSUME NEW s, Good(s), NEW subject \in Subject
    PROVE  Good(Purge(s, subject)) /\ Purge(s, subject).erasures = s.erasures
<1>0. s \in StoreType /\ IsFiniteSet(s.erasures) /\ \A n \in s.notes : Scored(s, n)
  BY DEF Good, Linked, Scored
<1>1. CASE subject.kind # "payload"
  <2> DEFINE b == Rid(s, subject)
             files == b.files \ (LiveRefs(s) \ LiveRefs(b))
  <2>1. Good(b) /\ b.erasures = s.erasures
    BY RidIsGood
  <2>2. files \in SUBSET Refs
    BY <2>1 DEF Good, StoreType
  <2>3. Purge(s, subject) = [b EXCEPT !.files = files]
    BY <1>1, PurgeIs
  <2> HIDE DEF b, files
  <2> QED BY <2>1, <2>2, <2>3, FilesDoNotMatter
<1>2. CASE subject.kind = "payload"
  <2> DEFINE files == s.files \ {subject.ref}
             spans == Refless(s, subject.ref)
             a == [s EXCEPT !.spans = spans, !.files = files]
  <2>1. spans \in SUBSET Span /\ files \in SUBSET Refs
    BY <1>0 DEF StoreType, Refless, Span
  <2>2. Purge(s, subject) = a
    BY <1>2, PurgeIs
  <2> HIDE DEF spans, files
  <2>3. a \in StoreType /\ SameEntities(a, s) /\ a.notes = s.notes /\ a.erasures = s.erasures
    BY <1>0, <2>1 DEF StoreType, SameEntities
  <2>4. \A n \in a.notes : Scored(a, n)
    BY <1>0, <2>3 DEF Scored, SameEntities
  <2> QED BY <1>0, <2>2, <2>3, <2>4, SameEntitiesKeep
<1> QED BY <1>1, <1>2

\* POST /v1/erasures.
LEMMA EraseIsGood ==
    ASSUME NEW s, Good(s), NEW bound, NEW subject \in Subject
    PROVE  Good(EraseSubject(s, bound, subject).store)
<1> DEFINE b == Purge(s, subject)
           e == [id |-> Cardinality(b.erasures) + 1, subject |-> subject]
           a == [b EXCEPT !.erasures = @ \cup {e}]
<1>1. EraseSubject(s, bound, subject).store \in {s, a}
  BY DEF EraseSubject, Denied, Done
<1>2. /\ Good(b) /\ b \in StoreType /\ IsFiniteSet(b.erasures)
      /\ \A n \in b.notes : Scored(b, n)
  BY PurgeIsGood DEF Good, Linked, Scored
<1> HIDE DEF b
<1>3. e \in [id : Nat, subject : Subject]
  BY <1>2, FS_CardinalityType
<1> HIDE DEF e
<1>4. IsFiniteSet(b.erasures \cup {e})
  BY <1>2, FS_AddElement
<1>5. /\ a \in StoreType /\ SameEntities(a, b) /\ a.notes = b.notes
      /\ a.erasures = b.erasures \cup {e}
  BY <1>2, <1>3 DEF StoreType, SameEntities
<1>6. \A n \in a.notes : Scored(a, n)
  BY <1>2, <1>5 DEF Scored, SameEntities
<1>7. Good(a)
  BY <1>2, <1>4, <1>5, <1>6, SameEntitiesKeep
<1> QED BY <1>1, <1>7

\* The manifests of requests are of no origin.
LEMMA ManifestsAre ==
    ASSUME NEW examples \in Manifests
    PROVE  examples \in SUBSET Example /\ \A x \in examples : x.from = Nil
BY DEF Manifests, Example

\* No request harms the links between entities.
LEMMA OutcomeIsGood ==
    ASSUME NEW s, Good(s), NEW bound \in Bindings, NEW w \in WriteRequests
    PROVE  Good(Outcome(s, bound, w).store)
<1>1. CASE w \in IngestRequests
  <2>1. w.op = "ingest" /\ w.batch \in SUBSET Span
    BY <1>1, Names DEF IngestRequests, Span, Owners
  <2>2. Outcome(s, bound, w) = IngestBatch(s, bound, w.batch)
    BY <2>1 DEF Outcome
  <2> QED BY <2>1, <2>2, IngestIsGood
<1>2. CASE w \in NoteRequests
  <2>1. w.op = "annotate" /\ w.note \in Note
    BY <1>2 DEF NoteRequests, Note
  <2>2. Outcome(s, bound, w) = Annotate(s, bound, w.note)
    BY <2>1 DEF Outcome
  <2> QED BY <2>1, <2>2, AnnotateIsGood
<1>3. CASE w \in DatasetRequests
  <2>1. w.op = "dataset" /\ w.named \in Owners \cup {Nil}
    BY <1>3 DEF DatasetRequests
  <2>2. Outcome(s, bound, w) = CreateDataset(s, bound, w.named)
    BY <2>1 DEF Outcome
  <2> QED BY <2>1, <2>2, CreateDatasetIsGood
<1>4. CASE w \in VersionRequests
  <2>1. w.op = "version" /\ w.examples \in Manifests
    BY <1>4 DEF VersionRequests
  <2>2. Outcome(s, bound, w) = CreateVersion(s, bound, w.id, w.examples)
    BY <2>1 DEF Outcome
  <2>3. bound \in Owners \cup {Unbound}
    BY Names DEF Bindings
  <2> QED BY <2>1, <2>2, <2>3, ManifestsAre, CreateVersionIsGood
<1>5. CASE w \in ExperimentRequests
  <2>1. w.op = "experiment"
    BY <1>5 DEF ExperimentRequests
  <2>2. Outcome(s, bound, w) = CreateExperiment(s, bound, w.id, w.examples)
    BY <2>1 DEF Outcome
  <2> QED BY <2>2, CreateExperimentIsGood
<1>6. CASE w \in RunRequests
  <2>1. w.op = "run" /\ w.example \in Traces /\ w.trace \in Traces
    BY <1>6 DEF RunRequests
  <2>2. Outcome(s, bound, w) = RecordRun(s, bound, w.id, w.example, w.trace)
    BY <2>1 DEF Outcome
  <2> QED BY <2>1, <2>2, RecordRunIsGood
<1>7. CASE w \in TombstoneRequests
  <2>1. w.op = "tombstone"
    BY <1>7 DEF TombstoneRequests
  <2>2. Outcome(s, bound, w) = TombstoneVersion(s, bound, w.id, w.examples)
    BY <2>1 DEF Outcome
  <2> QED BY <2>2, TombstoneIsGood
<1>8. CASE w \in EraseRequests
  <2>1. w.op = "erase" /\ w.subject \in Subject
    BY <1>8 DEF EraseRequests
  <2>2. Outcome(s, bound, w) = EraseSubject(s, bound, w.subject)
    BY <2>1 DEF Outcome
  <2> QED BY <2>1, <2>2, EraseIsGood
<1> QED BY <1>1, <1>2, <1>3, <1>4, <1>5, <1>6, <1>7, <1>8 DEF WriteRequests

\* A promotion of what is from the tenant it is for.
LEMMA PromoteIsGood ==
    ASSUME NEW s, Good(s), NEW promotion, promotion.tenant \in Owners,
           promotion.examples \in SUBSET Example,
           \A x \in promotion.examples : x.from = promotion.tenant
    PROVE  Good(Promote(s, promotion).store)
<1> DEFINE t == promotion.tenant
           mine == {d.id : d \in {e \in s.datasets : e.tenant = t}}
           made == IF mine = {} THEN NewDataset(s, t) ELSE s
           id == IF mine = {} THEN made.lastDataset
                 ELSE CHOOSE i \in mine : \A j \in mine : i <= j
<1>1. Promote(s, promotion) = CreateVersion(made, t, id, promotion.examples)
  BY DEF Promote
<1>2. Good(made)
  BY NewDatasetIsGood
<1>3. t # Unbound
  BY Names
<1> HIDE DEF made, id
<1>4. Good(CreateVersion(made, t, id, promotion.examples).store)
  BY <1>2, <1>3, CreateVersionIsGood
<1> QED BY <1>1, <1>4

\* What promote_failures reads is of the tenant that it will write to.
LEMMA PromotableIs ==
    ASSUME NEW s, Good(s), NEW bound \in Bindings, NEW trace \in Traces
    PROVE  LET t == PromoteTenant(bound)
           IN  /\ t \in Owners
               /\ Promotable(s, t, trace) \subseteq Example
               /\ \A x \in Promotable(s, t, trace) : x.from = t
<1> DEFINE t == PromoteTenant(bound)
<1>1. t \in Owners /\ t # Unbound /\ t # Nil
  BY Names DEF PromoteTenant, Bindings, Owners
<1>2. \A x \in SpansOf(s, t) : x \in Span /\ x.tenant = t
  BY <1>1 DEF Good, StoreType, SpansOf, Within
<1> HIDE DEF t
<1>3. Promotable(s, t, trace) \subseteq Example
  BY <1>2 DEF Promotable, Span, Example
<1>4. \A x \in Promotable(s, t, trace) : x.from = t
  BY <1>2 DEF Promotable
<1> QED BY <1>1, <1>3, <1>4 DEF t

----------------------------------------------------------------------------
(* The tenants: a good store is kept.                                      *)

\* The first of the initial stores.
LEMMA EmptyIsGood == Good(Empty)
<1>1. Empty \in StoreType
  BY DEF Empty, StoreType
<1>2. IsFiniteSet({})
  BY FS_EmptySet
<1> QED BY <1>1, <1>2 DEF Good, Empty, Numbered, Linked, AtHome

\* The tenants have numbers.
LEMMA OrderedTenants ==
    /\ Cardinality(Tenants) \in Nat
    /\ SetToSeq(Tenants) \in [1 .. Cardinality(Tenants) -> Tenants]
<1> DEFINE n == Cardinality(Tenants)
<1>1. n \in Nat /\ ExistsBijection(1 .. n, Tenants)
  BY FS_CardinalityType, TenancyAssumption
<1>2. \E f \in [1 .. n -> Tenants] : IsInjective(f)
  BY <1>1 DEF ExistsBijection, Bijection, Injection, Surjection, IsInjective
<1> QED BY <1>1, <1>2 DEF SetToSeq

\* The other initial store.
LEMMA BusyIsGood == Good(Busy)
<1> DEFINE ref == CHOOSE r \in Refs : TRUE
           examples == {[id |-> CHOOSE t \in Traces : TRUE, ref |-> Nil, from |-> Nil]}
           version(i) == [dataset |-> i, examples |-> examples]
           count == Cardinality(Tenants)
           owner == SetToSeq(Tenants)
           spans == [tenant : Tenants, trace : Traces, ref : {ref}]
           datasets == {[id |-> i, tenant |-> owner[i]] : i \in 1 .. count}
           versions == {version(i) : i \in 1 .. count}
           experiments == {[id |-> i, version |-> version(i), tenant |-> owner[i]] :
                               i \in 1 .. count}
<1>1. count \in Nat /\ \A i \in 1 .. count : owner[i] \in Owners /\ i \in Nat
  BY OrderedTenants, Names
<1>2. ref \in Refs /\ examples \in SUBSET Example /\ \A x \in examples : x.from = Nil
  BY TenancyAssumption DEF Example
<1>3. Busy = [Empty EXCEPT !.spans = spans, !.files = {ref}, !.datasets = datasets,
                           !.versions = versions, !.experiments = experiments,
                           !.lastDataset = count, !.lastExperiment = count]
  BY DEF Busy
<1>4. /\ spans \in SUBSET Span /\ {ref} \in SUBSET Refs
      /\ datasets \in SUBSET [id : Nat, tenant : Owners]
  BY <1>1, <1>2, Names DEF Span
<1>5. \A i \in 1 .. count : version(i) \in Version /\ version(i).dataset = i
                            /\ version(i).examples = examples
  BY <1>1, <1>2 DEF Version
<1>6. versions \in SUBSET Version
  BY <1>5
<1>7. experiments \in SUBSET [id : Nat, version : Version, tenant : Owners]
  BY <1>1, <1>5
<1> HIDE DEF ref, examples, version, count, owner
<1>8. /\ \A d \in datasets : d.id \in 1 .. count /\ d.tenant = owner[d.id]
      /\ \A e \in experiments : /\ e.id \in 1 .. count /\ e.version = version(e.id)
                                /\ e.tenant = owner[e.id]
                                /\ e = [id |-> e.id, version |-> e.version, tenant |-> e.tenant]
      /\ \A d \in datasets : d = [id |-> d.id, tenant |-> d.tenant]
  OBVIOUS
<1>9. \A i \in 1 .. count : \E d \in datasets : d.id = i /\ d.tenant = owner[i]
  <2> SUFFICES ASSUME NEW i \in 1 .. count
               PROVE  \E d \in datasets : d.id = i /\ d.tenant = owner[i]
    OBVIOUS
  <2> WITNESS [id |-> i, tenant |-> owner[i]] \in datasets
  <2> QED OBVIOUS
<1>10. \A v \in versions : \E i \in 1 .. count : v = version(i)
  OBVIOUS
<1>11. \A i \in 1 .. count : version(i) \in versions
  OBVIOUS
<1> HIDE DEF spans, datasets, versions, experiments
<1>12. Busy \in StoreType
  BY <1>1, <1>3, <1>4, <1>6, <1>7 DEF StoreType, Empty
<1>13. /\ Busy.datasets = datasets /\ Busy.versions = versions
       /\ Busy.experiments = experiments /\ Busy.lastDataset = count
       /\ Busy.lastExperiment = count /\ Busy.notes = {} /\ Busy.tombstones = {}
       /\ Busy.runs = {} /\ Busy.erasures = {}
  BY <1>3 DEF Empty
<1>14. Numbered(Busy.datasets, Busy.lastDataset)
  <2>1. \A d \in datasets : d.id <= count
    BY <1>1, <1>8
  <2>2. \A d, e \in datasets : d.id = e.id => d = e
    BY <1>8
  <2> QED BY <1>13, <2>1, <2>2 DEF Numbered
<1>15. Numbered(Busy.experiments, Busy.lastExperiment)
  <2>1. \A e \in experiments : e.id <= count
    BY <1>1, <1>8
  <2>2. \A d, e \in experiments : d.id = e.id => d = e
    BY <1>8
  <2> QED BY <1>13, <2>1, <2>2 DEF Numbered
<1>16. Linked(Busy)
  <2>1. \A v \in versions : \E d \in datasets : d.id = v.dataset
    BY <1>5, <1>9, <1>10
  <2>2. \A e \in experiments : e.version \in versions
                               /\ \E d \in datasets :
                                      d.id = e.version.dataset /\ d.tenant = e.tenant
    BY <1>5, <1>8, <1>9, <1>11
  <2> QED BY <1>13, <2>1, <2>2 DEF Linked, Belongs
<1>17. AtHome(Busy)
  <2>1. \A v \in versions : v.examples = examples
    BY <1>5, <1>10
  <2> QED BY <1>2, <1>13, <2>1 DEF AtHome
<1>18. IsFiniteSet(Busy.erasures)
  BY <1>13, FS_EmptySet
<1> QED BY <1>12, <1>14, <1>15, <1>16, <1>17, <1>18 DEF Good

\* The invariant holds at the start ...
LEMMA TenancyInvInit == TenancyInit => TenancyInv
BY EmptyIsGood, BusyIsGood, TenancyAssumption DEF TenancyInit, TenancyInv

\* ... after a request ...
LEMMA ServeKeeps ==
    ASSUME TenancyInv, NEW p \in Principals, NEW w \in WriteRequests, Serve(p, w)
    PROVE  TenancyInv'
<1>1. p.tenant \in Bindings
  BY Names DEF Bindings
<1>2. Good(Outcome(store, p.tenant, w).store)
  BY <1>1, OutcomeIsGood DEF TenancyInv
<1>3. /\ store' = Outcome(store, p.tenant, w).store
      /\ promoting' = promoting /\ credentials' = credentials
  BY DEF Serve
<1>4. Good(store)'
  BY <1>2, <1>3 DEF Good, StoreType, Numbered, Linked, Belongs, AtHome
<1> QED BY <1>3, <1>4 DEF TenancyInv

\* ... after the reads of a promotion ...
LEMMA PromoteReadsKeeps ==
    ASSUME TenancyInv, NEW p \in Principals, NEW trace \in Traces, PromoteReads(p, trace)
    PROVE  TenancyInv'
<1> DEFINE t == PromoteTenant(p.tenant)
           new == [tenant |-> t, examples |-> Promotable(store, t, trace)]
<1>1. p.tenant \in Bindings
  BY Names DEF Bindings
<1>2. /\ t \in Owners /\ Promotable(store, t, trace) \subseteq Example
      /\ \A x \in Promotable(store, t, trace) : x.from = t
  BY <1>1, PromotableIs DEF TenancyInv
<1>3. /\ store' = store /\ promoting' = promoting \cup {new}
      /\ credentials' = credentials
  BY DEF PromoteReads
<1>4. Good(store)'
  BY <1>3 DEF TenancyInv, Good, StoreType, Numbered, Linked, Belongs, AtHome
<1> QED BY <1>2, <1>3, <1>4 DEF TenancyInv

\* ... after its writes ...
LEMMA PromoteWritesKeeps ==
    ASSUME TenancyInv, NEW promotion \in promoting, PromoteWrites(promotion)
    PROVE  TenancyInv'
<1>1. Good(Promote(store, promotion).store)
  BY PromoteIsGood DEF TenancyInv
<1>2. /\ store' = Promote(store, promotion).store
      /\ promoting' = promoting \ {promotion} /\ credentials' = credentials
  BY DEF PromoteWrites
<1>3. Good(store)'
  BY <1>1, <1>2 DEF Good, StoreType, Numbered, Linked, Belongs, AtHome
<1> QED BY <1>2, <1>3 DEF TenancyInv

\* ... and so after every step.
LEMMA TenancyInvStep == TenancyInv /\ [TenancyNext]_tenancyVars => TenancyInv'
<1> SUFFICES ASSUME TenancyInv, [TenancyNext]_tenancyVars PROVE TenancyInv'
  OBVIOUS
<1>1. CASE UNCHANGED tenancyVars
  BY <1>1 DEF tenancyVars, TenancyInv, Good, StoreType, Numbered, Linked, Belongs, AtHome
<1>2. ASSUME NEW p \in Principals, NEW w \in WriteRequests, Serve(p, w) PROVE TenancyInv'
  BY <1>2, ServeKeeps
<1>3. ASSUME NEW p \in Principals, NEW trace \in Traces, PromoteReads(p, trace) PROVE TenancyInv'
  BY <1>3, PromoteReadsKeeps
<1>4. ASSUME NEW promotion \in promoting, PromoteWrites(promotion) PROVE TenancyInv'
  BY <1>4, PromoteWritesKeeps
<1>5. \A p \in credentials : p \in Principals
  BY DEF TenancyInv
<1> QED BY <1>1, <1>2, <1>3, <1>4, <1>5 DEF TenancyNext, WriteRequests

----------------------------------------------------------------------------
(* The tenants: writes are the tenant's own.                               *)

\* Nothing of u's is different in a, but that files may have come.
Alike(s, a, u) ==
    /\ {x \in s.spans : x.tenant = u} = {x \in a.spans : x.tenant = u}
    /\ {n \in s.notes : n.tenant = u} = {n \in a.notes : n.tenant = u}
    /\ {d \in s.datasets : d.tenant = u} = {d \in a.datasets : d.tenant = u}
    /\ {v \in s.versions : v.dataset \in IdsOf(s, u)}
           = {v \in a.versions : v.dataset \in IdsOf(s, u)}
    /\ {v \in s.tombstones : v.dataset \in IdsOf(s, u)}
           = {v \in a.tombstones : v.dataset \in IdsOf(s, u)}
    /\ {e \in s.experiments : e.tenant = u} = {e \in a.experiments : e.tenant = u}
    /\ {r \in s.runs : \E e \in s.experiments : e.tenant = u /\ e.id = r.experiment}
           = {r \in a.runs : \E e \in s.experiments : e.tenant = u /\ e.id = r.experiment}
    /\ {e \in s.erasures : TenantOf(e.subject) = u} = {e \in a.erasures : TenantOf(e.subject) = u}
    /\ \A ref \in s.files : Reachable(s, u, ref) => ref \in a.files

\* Then its part is untouched.
LEMMA AlikeIsUntouched ==
    ASSUME NEW s, Good(s), NEW a, Good(a), NEW u \in Owners, Alike(s, a, u)
    PROVE  Untouched(s, a, u)
<1> DEFINE b == Only(s, u)
           c == Only(a, u)
<1>0. s \in StoreType /\ a \in StoreType
  BY DEF Good
<1>1. IdsOf(s, u) = IdsOf(a, u)
  BY DEF Alike, IdsOf
<1>2. /\ b.spans = {x \in s.spans : x.tenant = u}
      /\ b.notes = {n \in s.notes : n.tenant = u}
      /\ b.datasets = {d \in s.datasets : d.tenant = u}
      /\ b.versions = {v \in s.versions : v.dataset \in IdsOf(s, u)}
      /\ b.tombstones = {v \in s.tombstones : v.dataset \in IdsOf(s, u)}
      /\ b.experiments = {e \in s.experiments : e.tenant = u}
      /\ b.runs = {r \in s.runs : \E e \in s.experiments : e.tenant = u /\ e.id = r.experiment}
      /\ b.files = {ref \in s.files : Reachable(s, u, ref)}
      /\ b.erasures = {e \in s.erasures : TenantOf(e.subject) = u}
  BY <1>0, OnlyIs
<1>3. /\ c.spans = {x \in a.spans : x.tenant = u}
      /\ c.notes = {n \in a.notes : n.tenant = u}
      /\ c.datasets = {d \in a.datasets : d.tenant = u}
      /\ c.versions = {v \in a.versions : v.dataset \in IdsOf(a, u)}
      /\ c.tombstones = {v \in a.tombstones : v.dataset \in IdsOf(a, u)}
      /\ c.experiments = {e \in a.experiments : e.tenant = u}
      /\ c.runs = {r \in a.runs : \E e \in a.experiments : e.tenant = u /\ e.id = r.experiment}
      /\ c.files = {ref \in a.files : Reachable(a, u, ref)}
      /\ c.erasures = {e \in a.erasures : TenantOf(e.subject) = u}
  BY <1>0, OnlyIs
<1>4. b \in StoreType /\ c \in StoreType
  BY <1>0, OnlyIs
<1> HIDE DEF b, c
<1>5. b.spans = c.spans /\ b.notes = c.notes /\ b.datasets = c.datasets
  BY <1>2, <1>3 DEF Alike
<1>6. b.versions = c.versions /\ b.tombstones = c.tombstones
  BY <1>1, <1>2, <1>3 DEF Alike
<1>7. b.experiments = c.experiments /\ b.erasures = c.erasures
  BY <1>2, <1>3 DEF Alike
<1>8. b.runs = c.runs
  <2>1. \A id : (\E e \in s.experiments : e.tenant = u /\ e.id = id)
                <=> (\E e \in a.experiments : e.tenant = u /\ e.id = id)
    BY DEF Alike
  <2>2. {r \in s.runs : \E e \in s.experiments : e.tenant = u /\ e.id = r.experiment}
           = {r \in a.runs : \E e \in s.experiments : e.tenant = u /\ e.id = r.experiment}
    BY DEF Alike
  <2> QED BY <1>2, <1>3, <2>1, <2>2
<1>9. \A ref : Reachable(s, u, ref) <=> Reachable(a, u, ref)
  <2>1. SpanRefs(s, u) = SpanRefs(a, u)
    BY DEF Alike, SpanRefs
  <2>2. ExampleRefs(s, u) = ExampleRefs(a, u)
    <3>1. {w \in s.versions : w.dataset \in IdsOf(s, u)}
              = {w \in a.versions : w.dataset \in IdsOf(a, u)}
      BY <1>1 DEF Alike
    <3>2. ExampleRefs(s, u)
              = UNION {RefsOf(v.examples) : v \in {w \in s.versions : w.dataset \in IdsOf(s, u)}}
      BY ExampleRefsAre
    <3>3. ExampleRefs(a, u)
              = UNION {RefsOf(v.examples) : v \in {w \in a.versions : w.dataset \in IdsOf(a, u)}}
      BY ExampleRefsAre
    <3> QED BY <3>1, <3>2, <3>3
  <2> QED BY <2>1, <2>2 DEF Reachable
<1>10. b.files \subseteq c.files
  BY <1>2, <1>3, <1>9 DEF Alike
<1>11. [b EXCEPT !.files = {}, !.lastDataset = 0, !.lastExperiment = 0]
           = [c EXCEPT !.files = {}, !.lastDataset = 0, !.lastExperiment = 0]
  BY <1>4, <1>5, <1>6, <1>7, <1>8 DEF StoreType
<1> QED BY <1>10, <1>11 DEF Untouched, b, c

\* A refusal changes nothing.
LEMMA SameIsAlike == \A s, u : Alike(s, s, u)
BY DEF Alike

\* What a tenant reaches is among the payloads that are alive.
LEMMA ReachedIsLive ==
    ASSUME NEW s, NEW u, NEW ref, Reachable(s, u, ref)
    PROVE  ref \in LiveRefs(s)
BY DEF Reachable, SpanRefs, ExampleRefs, LiveRefs, RefsOf

\* A write of a bound credential gets the verdict that its tenant's part would give,
\* and leaves every other tenant's part alone.
WritesApart(s, t, w) ==
    LET o == Outcome(s, t, w)
    IN  /\ o.status = Outcome(Only(s, t), t, w).status
        /\ \A u \in Owners \ {t} : Alike(s, o.store, u)
        /\ o.status # "200" => o.store = s

\* What is not foreign once stamped is stamped for the binding.
LEMMA StampsOwn ==
    ASSUME NEW t \in Tenants, NEW x, ~Foreign(Stamp(x, t), t)
    PROVE  Stamp(x, t).tenant = t
BY Names DEF Foreign

\* A batch that is taken replaces and adds spans of the binding only.
LEMMA IngestsApart ==
    ASSUME NEW s, Good(s), NEW t \in Tenants, NEW w \in IngestRequests
    PROVE  WritesApart(s, t, w)
<1> DEFINE stamped == {Stamp(x, t) : x \in w.batch}
           keys == {<<x.tenant, x.trace>> : x \in stamped}
           a == [s EXCEPT !.spans = {x \in @ : <<x.tenant, x.trace>> \notin keys} \cup stamped,
                          !.files = @ \cup RefsOf(stamped)]
           bad == \E x \in stamped : Foreign(x, t)
<1>0. s \in StoreType
  BY DEF Good
<1>1. \A r : Outcome(r, t, w) = IngestBatch(r, t, w.batch)
  BY DEF Outcome, IngestRequests
<1>2. CASE bad
  <2>1. \A r : Outcome(r, t, w) = Denied(r, "400")
    BY <1>1, <1>2 DEF IngestBatch
  <2> QED BY <2>1, SameIsAlike DEF Denied, WritesApart
<1>3. CASE ~bad
  <2>1. /\ Outcome(s, t, w) = Done(a)
        /\ Outcome(Only(s, t), t, w).status = "200"
    <3>1. IngestBatch(s, t, w.batch) = Done(a)
      BY <1>3 DEF IngestBatch
    <3>2. \A r : IngestBatch(r, t, w.batch).status = "200"
      BY <1>3 DEF IngestBatch, Done
    <3> QED BY <1>1, <3>1, <3>2
  <2>2. \A x \in stamped : x.tenant = t
    BY <1>3, StampsOwn
  <2>3. \A k \in keys : k[1] = t
    BY <2>2
  <2> HIDE DEF stamped, keys
  <2>4. /\ a.spans = {x \in s.spans : <<x.tenant, x.trace>> \notin keys} \cup stamped
        /\ a.files = s.files \cup RefsOf(stamped)
        /\ a.notes = s.notes /\ a.erasures = s.erasures /\ SameEntities(a, s)
    BY <1>0 DEF StoreType, SameEntities
  <2> HIDE DEF a
  <2>5. ASSUME NEW u \in Owners \ {t} PROVE Alike(s, a, u)
    <3>1. {x \in s.spans : x.tenant = u} = {x \in a.spans : x.tenant = u}
      BY <2>2, <2>3, <2>4
    <3> QED BY <2>4, <3>1 DEF Alike, SameEntities
  <2> QED BY <2>1, <2>5 DEF WritesApart, Done
<1> QED BY <1>2, <1>3

\* A score is judged against the tenant's own experiments.
LEMMA NotesApart ==
    ASSUME NEW s, Good(s), NEW t \in Tenants, NEW w \in NoteRequests
    PROVE  WritesApart(s, t, w)
<1> DEFINE n == Stamp(w.note, t)
           a == [s EXCEPT !.notes = @ \cup {n}]
           bad(r) == Foreign(n, t) \/ (w.note.experiment # Nil /\ ~ValidateScore(r, n))
<1>0. s \in StoreType
  BY DEF Good
<1>1. \A r : Outcome(r, t, w) = Annotate(r, t, w.note)
  BY DEF Outcome, NoteRequests
<1>2. ~Foreign(n, t) => n.tenant = t
  BY StampsOwn
<1> HIDE DEF n
<1>3. n.tenant = t => (ValidateScore(s, n) <=> ValidateScore(Only(s, t), n))
  BY <1>0, OnlyIs DEF ValidateScore
<1>4. bad(s) <=> bad(Only(s, t))
  BY <1>2, <1>3
<1>5. /\ Outcome(s, t, w) = IF bad(s) THEN Denied(s, "400") ELSE Done(a)
      /\ Outcome(Only(s, t), t, w).status = IF bad(Only(s, t)) THEN "400" ELSE "200"
  BY <1>1 DEF Annotate, n, Denied, Done
<1>6. CASE bad(s)
  BY <1>4, <1>5, <1>6, SameIsAlike DEF Denied, WritesApart
<1>7. CASE ~bad(s)
  <2>1. n.tenant = t
    BY <1>2, <1>7
  <2>2. /\ a.notes = s.notes \cup {n} /\ a.spans = s.spans /\ a.files = s.files
        /\ a.erasures = s.erasures /\ SameEntities(a, s)
    BY <1>0 DEF StoreType, SameEntities
  <2> HIDE DEF a, bad
  <2>3. \A u \in Owners \ {t} : Alike(s, a, u)
    BY <2>1, <2>2 DEF Alike, SameEntities
  <2> QED BY <1>4, <1>5, <1>7, <2>3 DEF WritesApart, Done
<1> QED BY <1>6, <1>7

\* A dataset made is of the binding.
LEMMA NewDatasetsApart ==
    ASSUME NEW s, Good(s), NEW t \in Tenants, NEW w \in DatasetRequests
    PROVE  WritesApart(s, t, w)
<1>1. \A r : Outcome(r, t, w) = CreateDataset(r, t, w.named)
  BY DEF Outcome, DatasetRequests
<1>2. CASE BindTenant(w.named, t) = Refused
  <2>1. \A r : Outcome(r, t, w) = Denied(r, Refused)
    BY <1>1, <1>2 DEF CreateDataset
  <2> QED BY <2>1, SameIsAlike DEF Denied, WritesApart, Refused
<1>3. CASE BindTenant(w.named, t) # Refused
  <2>1. BindTenant(w.named, t) = t /\ t # Nil /\ t \in Owners
    BY <1>3, BindsToOwn, Names
  <2>2. \A r : Outcome(r, t, w) = Done(NewDataset(r, t))
    BY <1>1, <1>3, <2>1 DEF CreateDataset
  <2> DEFINE a == NewDataset(s, t)
             d == [id |-> s.lastDataset + 1, tenant |-> t]
  <2>3. a.datasets = s.datasets \cup {d} /\ s \in StoreType
    BY <2>1, NewDatasetIsGood DEF Good
  <2>4. /\ a.spans = s.spans /\ a.notes = s.notes /\ a.versions = s.versions
        /\ a.tombstones = s.tombstones /\ a.experiments = s.experiments /\ a.runs = s.runs
        /\ a.erasures = s.erasures /\ a.files = s.files
    BY <2>3 DEF NewDataset, StoreType
  <2> HIDE DEF a
  <2>5. \A u \in Owners \ {t} : Alike(s, a, u)
    BY <2>3, <2>4 DEF Alike
  <2> QED BY <2>2, <2>5 DEF WritesApart, Done, a
<1> QED BY <1>2, <1>3

\* A dataset that the tenant finds is nobody else's.
LEMMA FoundIsNoOthers ==
    ASSUME NEW s, Good(s), NEW t \in Tenants, NEW id, DatasetIn(s, t, id) # {}, NEW u, u # t
    PROVE  id \in IdsOf(s, t) /\ id \notin IdsOf(s, u)
<1>1. s \in StoreType
  BY DEF Good
<1>2. PICK d \in s.datasets : d.id = id /\ d.tenant = t
  BY <1>1, FoundIsOwn
<1>3. \A e \in s.datasets : e.id = id => e = d
  BY <1>2 DEF Good, Numbered
<1> QED BY <1>2, <1>3 DEF IdsOf

\* A reference is allowed by what the tenant holds, in its part as in the whole.
LEMMA SameMayRefer ==
    ASSUME NEW s, Good(s), NEW t \in Tenants, NEW id, DatasetIn(s, t, id) # {}, NEW ref
    PROVE  MayRefer(s, t, id, ref) <=> MayRefer(Only(s, t), t, id, ref)
<1> DEFINE o == Only(s, t)
<1>1. s \in StoreType /\ t # Unbound /\ t \in Owners
  BY Names DEF Good
<1>2. PICK d \in s.datasets : d.id = id /\ d.tenant = t
  BY <1>1, FoundIsOwn
<1>3. \A e \in s.datasets : e.id = id => e = d
  BY <1>2 DEF Good, Numbered
<1>4. o.datasets = {e \in s.datasets : e.tenant = t}
  BY <1>1, OnlyIs
<1>5. SpanRefs(o, t) = SpanRefs(s, t) /\ ExampleRefs(o, t) = ExampleRefs(s, t)
  BY <1>1, SameSpans, SameRefs
<1>6. o.files = {r \in s.files : Reachable(s, t, r)}
  BY <1>1, OnlyIs
<1> HIDE DEF o
<1>7. MayRefer(s, t, id, ref) <=> Reachable(s, t, ref) /\ ref \in s.files
  BY <1>1, <1>2, <1>3 DEF MayRefer, Reachable
<1>8. MayRefer(o, t, id, ref) <=> Reachable(o, t, ref) /\ ref \in o.files
  BY <1>1, <1>2, <1>3, <1>4 DEF MayRefer, Reachable
<1> QED BY <1>5, <1>6, <1>7, <1>8 DEF Reachable, o

\* A version is added to a dataset that the tenant found, so to nobody else's.
LEMMA VersionsApart ==
    ASSUME NEW s, Good(s), NEW t \in Tenants, NEW w \in VersionRequests
    PROVE  WritesApart(s, t, w)
<1> DEFINE o == Only(s, t)
           v == [dataset |-> w.id, examples |-> w.examples]
           a == [s EXCEPT !.versions = @ \cup {v}]
           bad(r) == \E ref \in RefsOf(w.examples) : ~MayRefer(r, t, w.id, ref)
<1>0. s \in StoreType
  BY DEF Good
<1>1. \A r : Outcome(r, t, w) = CreateVersion(r, t, w.id, w.examples)
  BY DEF Outcome, VersionRequests
<1>2. DatasetIn(o, t, w.id) = DatasetIn(s, t, w.id)
  BY <1>0, SameDatasets
<1>3. CASE DatasetIn(s, t, w.id) = {}
  <2>1. \A r : DatasetIn(r, t, w.id) = {} => Outcome(r, t, w) = Denied(r, "400")
    BY <1>1 DEF CreateVersion
  <2> QED BY <1>2, <1>3, <2>1, SameIsAlike DEF Denied, WritesApart
<1>4. CASE DatasetIn(s, t, w.id) # {}
  <2>1. bad(s) <=> bad(o)
    BY <1>4, SameMayRefer
  <2>2. CASE bad(s)
    <3>1. \A r : DatasetIn(r, t, w.id) # {} /\ bad(r) => Outcome(r, t, w) = Denied(r, "409")
      BY <1>1 DEF CreateVersion
    <3> QED BY <1>2, <1>4, <2>1, <2>2, <3>1, SameIsAlike DEF Denied, WritesApart
  <2>3. CASE ~bad(s)
    <3>1. Outcome(s, t, w) = Done(a)
      BY <1>1, <1>4, <2>3 DEF CreateVersion
    <3>2. Outcome(o, t, w).status = "200"
      BY <1>1, <1>2, <1>4, <2>1, <2>3 DEF CreateVersion, Done
    <3>3. /\ a.versions = s.versions \cup {v} /\ v.dataset = w.id
          /\ a.spans = s.spans /\ a.notes = s.notes /\ a.datasets = s.datasets
          /\ a.tombstones = s.tombstones /\ a.experiments = s.experiments /\ a.runs = s.runs
          /\ a.erasures = s.erasures /\ a.files = s.files
      BY <1>0 DEF StoreType
    <3> HIDE DEF a, v
    <3>4. \A u \in Owners \ {t} : Alike(s, a, u)
      <4> SUFFICES ASSUME NEW u \in Owners \ {t} PROVE Alike(s, a, u)
        OBVIOUS
      <4>1. w.id \notin IdsOf(s, u)
        BY <1>4, FoundIsNoOthers
      <4> QED BY <3>3, <4>1 DEF Alike
    <3> QED BY <3>1, <3>2, <3>4 DEF WritesApart, Done
  <2> QED BY <2>2, <2>3
<1> QED BY <1>3, <1>4

\* So is a tombstone.
LEMMA TombstonesApart ==
    ASSUME NEW s, Good(s), NEW t \in Tenants, NEW w \in TombstoneRequests
    PROVE  WritesApart(s, t, w)
<1> DEFINE o == Only(s, t)
           v == [dataset |-> w.id, examples |-> w.examples]
           a == [s EXCEPT !.tombstones = @ \cup {v}]
           bad(r) == DatasetIn(r, t, w.id) = {} \/ v \notin r.versions
<1>0. s \in StoreType
  BY DEF Good
<1>1. \A r : Outcome(r, t, w) = TombstoneVersion(r, t, w.id, w.examples)
  BY DEF Outcome, TombstoneRequests
<1>2. DatasetIn(o, t, w.id) = DatasetIn(s, t, w.id)
  BY <1>0, SameDatasets
<1>3. bad(s) <=> bad(o)
  <2>1. DatasetIn(s, t, w.id) # {} => v.dataset \in IdsOf(s, t)
    BY <1>0, FoundIsOwn
  <2> QED BY <1>0, <1>2, <2>1, SameVersions
<1>4. CASE bad(s)
  <2>1. \A r : bad(r) => Outcome(r, t, w) = Denied(r, "400")
    BY <1>1 DEF TombstoneVersion
  <2> QED BY <1>3, <1>4, <2>1, SameIsAlike DEF Denied, WritesApart
<1>5. CASE ~bad(s)
  <2>1. Outcome(s, t, w) = Done(a)
    BY <1>1, <1>5 DEF TombstoneVersion
  <2>2. Outcome(o, t, w).status = "200"
    BY <1>1, <1>3, <1>5 DEF TombstoneVersion, Done
  <2>3. /\ a.tombstones = s.tombstones \cup {v} /\ v.dataset = w.id
        /\ a.spans = s.spans /\ a.notes = s.notes /\ a.datasets = s.datasets
        /\ a.versions = s.versions /\ a.experiments = s.experiments /\ a.runs = s.runs
        /\ a.erasures = s.erasures /\ a.files = s.files
    BY <1>0 DEF StoreType
  <2>4. DatasetIn(s, t, w.id) # {}
    BY <1>5
  <2> HIDE DEF a, v
  <2>5. \A u \in Owners \ {t} : Alike(s, a, u)
    <3> SUFFICES ASSUME NEW u \in Owners \ {t} PROVE Alike(s, a, u)
      OBVIOUS
    <3>1. w.id \notin IdsOf(s, u)
      BY <2>4, FoundIsNoOthers
    <3> QED BY <2>3, <3>1 DEF Alike
  <2> QED BY <2>1, <2>2, <2>5 DEF WritesApart, Done
<1> QED BY <1>4, <1>5

\* An experiment is of its dataset's tenant, which is the binding.
LEMMA ExperimentsApart ==
    ASSUME NEW s, Good(s), NEW t \in Tenants, NEW w \in ExperimentRequests
    PROVE  WritesApart(s, t, w)
<1> DEFINE o == Only(s, t)
           v == [dataset |-> w.id, examples |-> w.examples]
           e == [id |-> s.lastExperiment + 1, version |-> v, tenant |-> OwnerOf(s, v)]
           a == [s EXCEPT !.lastExperiment = @ + 1, !.experiments = @ \cup {e}]
           bad(r) == DatasetIn(r, t, w.id) = {} \/ v \notin r.versions
           gone(r) == v \in r.tombstones
<1>0. s \in StoreType
  BY DEF Good
<1>1. \A r : Outcome(r, t, w) = CreateExperiment(r, t, w.id, w.examples)
  BY DEF Outcome, ExperimentRequests
<1>2. DatasetIn(o, t, w.id) = DatasetIn(s, t, w.id)
  BY <1>0, SameDatasets
<1>3. (bad(s) <=> bad(o)) /\ (~bad(s) => (gone(s) <=> gone(o)))
  <2>1. DatasetIn(s, t, w.id) # {} => v.dataset \in IdsOf(s, t)
    BY <1>0, FoundIsOwn
  <2> QED BY <1>0, <1>2, <2>1, SameVersions
<1>4. CASE bad(s)
  <2>1. \A r : bad(r) => Outcome(r, t, w) = Denied(r, "400")
    BY <1>1 DEF CreateExperiment
  <2> QED BY <1>3, <1>4, <2>1, SameIsAlike DEF Denied, WritesApart
<1>5. CASE ~bad(s) /\ gone(s)
  <2>1. \A r : ~bad(r) /\ gone(r) => Outcome(r, t, w) = Denied(r, "409")
    BY <1>1 DEF CreateExperiment
  <2> QED BY <1>3, <1>5, <2>1, SameIsAlike DEF Denied, WritesApart
<1>6. CASE ~bad(s) /\ ~gone(s)
  <2>1. Outcome(s, t, w) = Done(a)
    BY <1>1, <1>6 DEF CreateExperiment
  <2>2. Outcome(o, t, w).status = "200"
    <3>1. \A r : ~bad(r) /\ ~gone(r) => \E x : Outcome(r, t, w) = Done(x)
      BY <1>1 DEF CreateExperiment
    <3> QED BY <1>3, <1>6, <3>1 DEF Done
  <2>3. OwnerOf(s, v) = t
    <3>1. PICK d \in s.datasets : d.id = w.id /\ d.tenant = t
      BY <1>0, <1>6, FoundIsOwn
    <3> QED BY <3>1, OwnerIs DEF Belongs
  <2>4. e.tenant = t /\ e.id = s.lastExperiment + 1
    BY <2>3
  <2> HIDE DEF v, e
  <2>5. /\ a.experiments = s.experiments \cup {e}
        /\ a.spans = s.spans /\ a.notes = s.notes /\ a.datasets = s.datasets
        /\ a.versions = s.versions /\ a.tombstones = s.tombstones /\ a.runs = s.runs
        /\ a.erasures = s.erasures /\ a.files = s.files
    BY <1>0 DEF StoreType
  <2> HIDE DEF a
  <2>6. \A u \in Owners \ {t} : Alike(s, a, u)
    BY <2>4, <2>5 DEF Alike
  <2> QED BY <2>1, <2>2, <2>6 DEF WritesApart, Done
<1> QED BY <1>4, <1>5, <1>6

\* A run is of an experiment that the tenant found.
LEMMA RunsApart ==
    ASSUME NEW s, Good(s), NEW t \in Tenants, NEW w \in RunRequests
    PROVE  WritesApart(s, t, w)
<1> DEFINE o == Only(s, t)
           r == [experiment |-> w.id, example |-> w.example, trace |-> w.trace]
           a == [s EXCEPT !.runs = @ \cup {r}]
           lists(q) == \E e \in ExperimentIn(q, t, w.id) :
                           \E x \in e.version.examples : x.id = w.example
<1>0. s \in StoreType
  BY DEF Good
<1>1. \A q : Outcome(q, t, w) = RecordRun(q, t, w.id, w.example, w.trace)
  BY DEF Outcome, RunRequests
<1>2. lists(o) <=> lists(s)
  BY <1>0, SameDatasets
<1>3. CASE ~lists(s)
  <2>1. \A q : ~lists(q) => Outcome(q, t, w) = Denied(q, "400")
    BY <1>1 DEF RecordRun
  <2> QED BY <1>2, <1>3, <2>1, SameIsAlike DEF Denied, WritesApart
<1>4. CASE lists(s)
  <2>1. Outcome(s, t, w) = Done(a)
    BY <1>1, <1>4 DEF RecordRun
  <2>2. Outcome(o, t, w).status = "200"
    BY <1>1, <1>2, <1>4 DEF RecordRun, Done
  <2>3. /\ a.runs = s.runs \cup {r} /\ r.experiment = w.id
        /\ a.spans = s.spans /\ a.notes = s.notes /\ a.datasets = s.datasets
        /\ a.versions = s.versions /\ a.tombstones = s.tombstones
        /\ a.experiments = s.experiments /\ a.erasures = s.erasures /\ a.files = s.files
    BY <1>0 DEF StoreType
  <2>4. PICK e \in s.experiments : e.id = w.id /\ e.tenant = t
    BY <1>0, <1>4, FoundIsOwn
  <2>5. \A f \in s.experiments : f.id = w.id => f.tenant = t
    BY <2>4 DEF Good, Numbered
  <2> HIDE DEF a, r
  <2>6. \A u \in Owners \ {t} : Alike(s, a, u)
    <3> SUFFICES ASSUME NEW u \in Owners \ {t} PROVE Alike(s, a, u)
      OBVIOUS
    <3>1. ~\E f \in s.experiments : f.tenant = u /\ f.id = r.experiment
      BY <2>3, <2>5
    <3>2. {q \in s.runs : \E f \in s.experiments : f.tenant = u /\ f.id = q.experiment}
              = {q \in a.runs : \E f \in s.experiments : f.tenant = u /\ f.id = q.experiment}
      BY <2>3, <3>1
    <3> QED BY <2>3, <3>2 DEF Alike
  <2> QED BY <2>1, <2>2, <2>6 DEF WritesApart, Done
<1> QED BY <1>3, <1>4

\* Whether it may erase depends on the credential and the subject only.
LEMMA ErasesOwn ==
    ASSUME NEW s, NEW t \in Tenants, NEW subject \in Subject
    PROVE  IF TenantOf(subject) = t
           THEN /\ subject.kind # "payload" /\ subject.tenant = t
                /\ EraseSubject(s, t, subject).status = "200"
                /\ EraseSubject(s, t, subject).store
                       = [Purge(s, subject) EXCEPT
                              !.erasures =
                                  @ \cup {[id |-> Cardinality(@) + 1, subject |-> subject]}]
           ELSE EraseSubject(s, t, subject) = Denied(s, Refused)
<1>1. t # Unbound /\ t # Nil
  BY Names
<1>2. subject.kind \in {"trace", "tenant", "payload"}
  BY DEF Subject
<1> QED BY <1>1, <1>2 DEF EraseSubject, TenantOf, Done

\* A purge of one tenant leaves every other's spans, annotations and entities ...
LEMMA RidsApart ==
    ASSUME NEW s, Good(s), NEW subject \in Subject, subject.kind # "payload",
           NEW u, u # subject.tenant
    PROVE  Alike(s, Rid(s, subject), u)
<1> DEFINE a == Rid(s, subject)
           kept == [s EXCEPT !.spans = {x \in @ : ~Covers(subject, x)},
                             !.notes = {n \in @ : ~Covers(subject, n)}]
<1>0. s \in StoreType /\ subject.kind \in {"trace", "tenant"}
  BY DEF Good, Subject
<1>1. \A x : x.tenant = u => ~Covers(subject, x)
  BY <1>0 DEF Covers
<1>2. /\ a.spans = {x \in s.spans : ~Covers(subject, x)}
      /\ a.notes = {n \in s.notes : ~Covers(subject, n)}
      /\ a.files = s.files /\ a.erasures = s.erasures
  BY RidIsGood
<1>3. CASE subject.kind # "tenant"
  <2>1. SameEntities(a, s)
    BY <1>3, RidIsGood
  <2> QED BY <1>1, <1>2, <2>1 DEF Alike, SameEntities
<1>4. CASE subject.kind = "tenant"
  <2>1. a = PurgeEvals(kept, subject.tenant)
    BY <1>4 DEF Rid
  <2>2. /\ Good(kept) /\ SameEntities(kept, s)
    BY KeptIsGood
  <2>3. kept \in StoreType
    BY <2>2 DEF Good
  <2> HIDE DEF kept, a
  <2>4. /\ a.datasets = {d \in s.datasets : d.tenant # subject.tenant}
        /\ a.versions = {v \in s.versions : OwnerOf(kept, v) # subject.tenant}
        /\ a.tombstones = s.tombstones \ {v \in s.versions : OwnerOf(kept, v) = subject.tenant}
        /\ a.experiments = {e \in s.experiments : e.tenant # subject.tenant}
        /\ a.runs = {r \in s.runs : r.experiment \notin Lost(kept, subject.tenant)}
    BY <2>1, <2>2, <2>3, PurgeEvalsIs DEF SameEntities
  <2>5. \A v : v.dataset \in IdsOf(s, u) => OwnerOf(kept, v) = u
    <3> SUFFICES ASSUME NEW v, v.dataset \in IdsOf(s, u) PROVE OwnerOf(kept, v) = u
      OBVIOUS
    <3>1. Belongs(kept, v, u)
      BY <2>2 DEF IdsOf, Belongs, SameEntities
    <3> QED BY <2>2, <3>1, OwnerIs
  <2>6. \A e \in s.experiments : e.tenant = u => e.id \notin Lost(kept, subject.tenant)
    BY <2>2 DEF Lost, Good, Numbered, SameEntities
  <2>7. {v \in s.versions : v.dataset \in IdsOf(s, u)}
            = {v \in a.versions : v.dataset \in IdsOf(s, u)}
    BY <2>4, <2>5
  <2>8. {v \in s.tombstones : v.dataset \in IdsOf(s, u)}
            = {v \in a.tombstones : v.dataset \in IdsOf(s, u)}
    BY <2>4, <2>5
  <2>9. {r \in s.runs : \E e \in s.experiments : e.tenant = u /\ e.id = r.experiment}
            = {r \in a.runs : \E e \in s.experiments : e.tenant = u /\ e.id = r.experiment}
    BY <2>4, <2>6
  <2>10. /\ {d \in s.datasets : d.tenant = u} = {d \in a.datasets : d.tenant = u}
         /\ {e \in s.experiments : e.tenant = u} = {e \in a.experiments : e.tenant = u}
    BY <2>4
  <2>11. /\ {x \in s.spans : x.tenant = u} = {x \in a.spans : x.tenant = u}
         /\ {n \in s.notes : n.tenant = u} = {n \in a.notes : n.tenant = u}
    BY <1>1, <1>2
  <2> QED BY <1>2, <2>7, <2>8, <2>9, <2>10, <2>11 DEF Alike, a
<1> QED BY <1>3, <1>4

\* ... and the bytes it reaches: the purge keeps what is still alive.
LEMMA ErasesApart ==
    ASSUME NEW s, Good(s), NEW t \in Tenants, NEW w \in EraseRequests
    PROVE  WritesApart(s, t, w)
<1> DEFINE subject == w.subject
<1>0. s \in StoreType /\ subject \in Subject
  BY DEF Good, EraseRequests
<1>1. \A r : Outcome(r, t, w) = EraseSubject(r, t, subject)
  BY DEF Outcome, EraseRequests
<1>2. CASE TenantOf(subject) # t
  <2>1. \A r : Outcome(r, t, w) = Denied(r, Refused)
    BY <1>0, <1>1, <1>2, ErasesOwn
  <2> QED BY <2>1, SameIsAlike DEF Denied, WritesApart, Refused
<1>3. CASE TenantOf(subject) = t
  <2> DEFINE b == Rid(s, subject)
             files == b.files \ (LiveRefs(s) \ LiveRefs(b))
             p == [b EXCEPT !.files = files]
             e == [id |-> Cardinality(p.erasures) + 1, subject |-> subject]
             a == [p EXCEPT !.erasures = @ \cup {e}]
  <2>1. subject.kind # "payload" /\ subject.tenant = t
    BY <1>0, <1>3, ErasesOwn
  <2>2. \A r : Outcome(r, t, w).status = "200"
    <3>1. ASSUME NEW r PROVE EraseSubject(r, t, subject).status = "200"
      BY <1>0, <1>3, ErasesOwn
    <3> QED BY <1>1, <3>1
  <2>3. Outcome(s, t, w).store = a
    <3>1. Purge(s, subject) = p
      BY <2>1, PurgeIs
    <3>2. Outcome(s, t, w).store
              = [Purge(s, subject) EXCEPT
                     !.erasures = @ \cup {[id |-> Cardinality(@) + 1, subject |-> subject]}]
      BY <1>0, <1>1, <1>3, ErasesOwn
    <3>3. Outcome(s, t, w).store
              = [p EXCEPT !.erasures = @ \cup {[id |-> Cardinality(@) + 1, subject |-> subject]}]
      BY <3>1, <3>2
    <3> HIDE DEF p
    <3> QED BY <3>3
  <2>4. /\ Good(b) /\ b.files = s.files /\ b.erasures = s.erasures
    BY <1>0, RidIsGood
  <2>5. files \in SUBSET Refs /\ b \in StoreType
    BY <2>4 DEF Good, StoreType
  <2>6. e.subject = subject
    OBVIOUS
  <2> HIDE DEF b, files, e
  <2>7. /\ p.spans = b.spans /\ p.notes = b.notes /\ p.files = files
        /\ p.erasures = b.erasures /\ SameEntities(p, b) /\ p \in StoreType
    BY <2>5 DEF StoreType, SameEntities
  <2> HIDE DEF p
  <2>8. /\ a.spans = b.spans /\ a.notes = b.notes /\ a.files = files
        /\ a.erasures = b.erasures \cup {e} /\ SameEntities(a, b)
    BY <2>7 DEF StoreType, SameEntities
  <2> HIDE DEF a
  <2>9. ASSUME NEW u \in Owners \ {t} PROVE Alike(s, a, u)
    <3>1. Alike(s, b, u)
      BY <1>0, <2>1, RidsApart DEF b
    <3>2. \A ref \in s.files : Reachable(s, u, ref) => ref \in a.files
      <4> SUFFICES ASSUME NEW ref \in s.files, Reachable(s, u, ref) PROVE ref \in a.files
        OBVIOUS
      <4>1. Reachable(b, u, ref)
        <5>1. SpanRefs(b, u) = SpanRefs(s, u)
          BY <3>1 DEF SpanRefs, Alike
        <5>2. IdsOf(b, u) = IdsOf(s, u)
          BY <3>1 DEF IdsOf, Alike
        <5>3. {v \in s.versions : v.dataset \in IdsOf(s, u)}
                  = {v \in b.versions : v.dataset \in IdsOf(b, u)}
          BY <3>1, <5>2 DEF Alike
        <5>4. ExampleRefs(b, u) = ExampleRefs(s, u)
          BY <2>4, <5>3, ExampleRefsAre
        <5> QED BY <5>1, <5>4 DEF Reachable
      <4>2. ref \in LiveRefs(b)
        BY <4>1, ReachedIsLive
      <4> QED BY <2>4, <2>8, <4>2 DEF files
    <3>3. TenantOf(e.subject) # u
      BY <1>3, <2>6
    <3>4. {x \in s.erasures : TenantOf(x.subject) = u}
              = {x \in a.erasures : TenantOf(x.subject) = u}
      BY <2>4, <2>8, <3>3
    <3> QED BY <2>8, <3>1, <3>2, <3>4 DEF Alike, SameEntities
  <2> QED BY <2>2, <2>3, <2>9 DEF WritesApart
<1> QED BY <1>2, <1>3

\* Every write.
LEMMA WritesAreApart ==
    ASSUME NEW s, Good(s), NEW t \in Tenants, NEW w \in WriteRequests
    PROVE  WritesApart(s, t, w)
BY IngestsApart, NotesApart, NewDatasetsApart, VersionsApart, ExperimentsApart, RunsApart,
   TombstonesApart, ErasesApart DEF WriteRequests

\* Every verdict on a bound credential's write is the one its part would give, and no
\* other tenant's part changes.
LEMMA GoodWritesOwn == credentials \subseteq Principals /\ Good(store) => WritesOwn
<1> SUFFICES ASSUME Good(store), NEW p \in Principals, NEW w \in WriteRequests,
                    p.tenant # Unbound
             PROVE  LET outcome == Outcome(store, p.tenant, w)
                    IN /\ outcome.status = Outcome(Only(store, p.tenant), p.tenant, w).status
                       /\ \A t \in Owners \ {p.tenant} : Untouched(store, outcome.store, t)
                       /\ outcome.status # "200" => outcome.store = store
  BY DEF WritesOwn
<1>1. p.tenant \in Tenants /\ p.tenant \in Bindings
  BY Names DEF Bindings
<1>2. WritesApart(store, p.tenant, w)
  BY <1>1, WritesAreApart
<1>3. Good(Outcome(store, p.tenant, w).store)
  BY <1>1, OutcomeIsGood
<1>4. \A t \in Owners \ {p.tenant} : Untouched(store, Outcome(store, p.tenant, w).store, t)
  BY <1>2, <1>3, AlikeIsUntouched DEF WritesApart
<1> QED BY <1>2, <1>4 DEF WritesApart

\* The owner of the version that has a promoted example is where it came from.
LEMMA GoodStaysHome == Good(store) => PromotionsStayHome
<1> SUFFICES ASSUME Good(store), NEW v \in store.versions, NEW x \in v.examples, x.from # Nil
             PROVE  x.from = OwnerOf(store, v)
  BY DEF PromotionsStayHome
<1>1. Belongs(store, v, x.from)
  BY DEF Good, AtHome
<1> QED BY <1>1, OwnerIs

\* Tenants are apart (TenantsStayApart): a bound credential's every answer, and every
\* verdict on its writes, is the one that its tenant's part of the store would give; its
\* writes change no other tenant's part; and a promoted example is in the tenant it was
\* read from (bind_tenant, dataset_in_scope, payload_in, validate_score, promote_failures).
THEOREM TenantsAreApart == TenancySpec => []TenantsStayApart
<1>1. TenancyInv => TenantsStayApart
  BY GoodReadsOwn, GoodWritesOwn, GoodStaysHome DEF TenancyInv, TenantsStayApart
<1> QED BY <1>1, TenancyInvInit, TenancyInvStep, PTL DEF TenancySpec
=============================================================================

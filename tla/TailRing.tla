------------------------------ MODULE TailRing -------------------------------
(***************************************************************************)
(* The live tail (src/src/tail.rs): a bounded ring of admitted spans,      *)
(* addressed by sequence numbers that count admissions of one process, and *)
(* the reads, gaps, veils and wake-ups its subscribers meet.               *)
(*                                                                         *)
(* A span is its key and its weight in the byte budget.  The ring's mutex  *)
(* makes every operation one step; the signal of publish comes after the   *)
(* mutex is released and is a step of its own.  A poisoned mutex and the   *)
(* token's text form are left out.                                         *)
(***************************************************************************)
EXTENDS Naturals, Sequences, SequencesExt, FiniteSetsExt, Functions

CONSTANTS
    Keys,       \* what an erasure names: the identity of a span
    Weights,    \* the sizes of spans, in units of the byte budget
    Capacity,   \* tail_ring_spans
    Budget,     \* tail_ring_bytes
    MaxSpans,   \* bound: admissions of one process
    MaxVeils,   \* bound: erasures of one process
    None

VARIABLES
    epoch,      \* which process counts
    first,      \* first_seq
    entries,    \* the spans retained, oldest first
    veils,      \* [keys, below] of the erasures that still shadow an entry
    signalled,  \* the subscribers the condition variable has woken
    unsignalled,\* a publication is past the mutex and before its notify_all
    erased,     \* history: for each key, the position its last erasure covers up to
    admitted    \* history: the keys of the spans published, by position

tailVars == <<epoch, first, entries, veils, signalled, unsignalled, erased, admitted>>

ASSUME TailAssumption ==
    /\ Weights \subseteq Nat
    /\ Capacity \in Nat \ {0}
    /\ Budget \in Nat \ {0}
    /\ MaxSpans \in Nat
    /\ MaxVeils \in Nat

Spans == [key: Keys, weight: Weights]

TailInit ==
    /\ epoch = 0
    /\ first = 0
    /\ entries = <<>>
    /\ veils = {}
    /\ signalled = {}
    /\ unsignalled = FALSE
    /\ erased = [k \in Keys |-> 0]
    /\ admitted = <<>>

NextSeq == first + Len(entries)

Resident(spans) == FoldSeq(LAMBDA s, sum : s.weight + sum, 0, spans)

\* The fewest of the oldest entries whose loss meets both bounds; never the newest.
Excess(spans) ==
    Min({n \in 0 .. Len(spans) - 1 :
            \/ n = Len(spans) - 1
            \/ LET kept == SubSeq(spans, n + 1, Len(spans)) IN
               Len(kept) <= Capacity /\ Resident(kept) <= Budget})

\* Mutant: a veil retires with the last entry but one it covers.
Pruned_Early(shadows, floor) == {v \in shadows : v.below > floor + 1}

\* A veil retires once everything it covers has been evicted.
Pruned(shadows, floor) == {v \in shadows : v.below > floor}

\* TailRing::push, span by span: the oldest leave until both bounds hold.  What
\* fits at the end fitted all along, so a batch leaves what it leaves pushed whole.
Push(ring, batch) ==
    LET grown == ring.entries \o batch
        lost == Excess(grown)
        floor == ring.first + lost IN
    [first |-> floor,
     entries |-> SubSeq(grown, lost + 1, Len(grown)),
     veils |-> Pruned(ring.veils, floor)]

\* TailChannel::publish, under the mutex.
Publish(batch) ==
    /\ Len(admitted) + Len(batch) <= MaxSpans
    /\ LET ring == Push([first |-> first, entries |-> entries, veils |-> veils], batch) IN
       /\ first' = ring.first
       /\ entries' = ring.entries
       /\ veils' = ring.veils
    /\ admitted' = admitted \o [i \in DOMAIN batch |-> batch[i].key]
    /\ unsignalled' = TRUE
    /\ UNCHANGED <<epoch, signalled, erased>>

\* notify_all, after the mutex.
Notify(sleepers) ==
    /\ unsignalled
    /\ unsignalled' = FALSE
    /\ signalled' = signalled \cup sleepers
    /\ UNCHANGED <<epoch, first, entries, veils, erased, admitted>>

\* TailRing::veil: nothing to withhold in an empty ring.
Veil(keys) ==
    /\ Cardinality(veils) < MaxVeils
    /\ entries # <<>>
    /\ veils' = veils \cup {[keys |-> keys, below |-> NextSeq]}
    /\ erased' = [k \in Keys |-> IF k \in keys THEN NextSeq ELSE erased[k]]
    /\ UNCHANGED <<epoch, first, entries, signalled, unsignalled, admitted>>

Veiled(seq, span) == \E v \in veils : seq < v.below /\ span.key \in v.keys

----------------------------------------------------------------------------
(* Reading.                                                                *)

Cursor(seq) == [epoch |-> epoch, seq |-> seq]

\* Mutant: any position the ring holds, whoever counted it.
Addressable_AnyProcess(cursor) == cursor.seq \in first .. NextSeq

Addressable(cursor) == cursor.epoch = epoch /\ cursor.seq \in first .. NextSeq

Start(cursor, backfill) ==
    IF cursor = None THEN Max({first, NextSeq - backfill}) ELSE cursor.seq

Delivered(from, upto, wanted) ==
    {q \in from .. upto - 1 : LET s == entries[q - first + 1] IN s.key \in wanted /\ ~Veiled(q, s)}

\* TailRing::read: the entries from the start that are wanted and not veiled, up
\* to limit of them, and the position behind the last entry consumed.
Read(cursor, backfill, limit, wanted) ==
    IF cursor # None /\ ~Addressable(cursor)
    THEN [gap |-> TRUE,
          missed |-> IF cursor.epoch = epoch THEN Max({first, cursor.seq}) - cursor.seq ELSE None]
    ELSE LET from == Start(cursor, backfill)
             stop == Max({p \in from .. NextSeq :
                            p = from \/ Cardinality(Delivered(from, p - 1, wanted)) < limit})
         IN [gap |-> FALSE, spans |-> Delivered(from, stop, wanted),
             from |-> from, cursor |-> Cursor(stop)]

----------------------------------------------------------------------------

TailTypeOK ==
    /\ epoch \in Nat
    /\ first \in 0 .. MaxSpans
    /\ entries \in Seq(Spans)
    /\ Len(entries) <= Capacity
    /\ Len(entries) > 1 => Resident(entries) <= Budget
    /\ veils \subseteq [keys: SUBSET Keys, below: 0 .. NextSeq]
    /\ unsignalled \in BOOLEAN
    /\ erased \in [Keys -> 0 .. MaxSpans]
    /\ NextSeq = Len(admitted)

(* An erasure covers a retained span for as long as it is retained: however *)
(* the ring turns over and whatever veils came and went, every entry whose *)
(* key was erased after its admission is withheld from every read          *)
(* (prune_veils).                                                          *)
VeilsOutlastEntries ==
    \A i \in DOMAIN entries :
        LET q == first + i - 1 IN q < erased[entries[i].key] => Veiled(q, entries[i])

=============================================================================

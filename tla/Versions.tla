------------------------------ MODULE Versions ------------------------------
(***************************************************************************)
(* Rows of span versions and how the engine resolves them.  A version is   *)
(* the number of the batch that carried the span, 0 for no span; a row     *)
(* gives one version per primary key.  Newer batches have larger numbers,  *)
(* so "last write wins" is a statement about these numbers.                *)
(***************************************************************************)
EXTENDS Integers, Sequences

CONSTANT Keys   \* primary keys (tenant, trace id, span id)

Row == [Keys -> Nat]
Empty == [k \in Keys |-> 0]

Larger(a, b) == IF a >= b THEN a ELSE b
Greatest(S) == IF S = {} THEN 0 ELSE CHOOSE n \in S : \A m \in S : m <= n

\* `newer` upserted over `older`.
Over(older, newer) == [k \in Keys |-> IF newer[k] # 0 THEN newer[k] ELSE older[k]]

\* The last of `parts` that holds a key, in the order of `at`, provides it:
\* segments by id, replayed frames by sequence.
Resolve(parts) ==
    [k \in Keys |->
        LET holding == {p \in parts : p.row[k] # 0}
        IN  IF holding = {} THEN 0
            ELSE (CHOOSE p \in holding : \A q \in holding : q.at <= p.at).row[k]]

\* What a store should show: of the admitted batches that are not gone, the
\* last one that carries each key.
Newest(admitted, gone) ==
    [k \in Keys |-> Greatest({b \in DOMAIN admitted \ gone : k \in admitted[b]})]
=============================================================================

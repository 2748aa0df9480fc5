----------------------------- MODULE SpanStore ------------------------------
(***************************************************************************)
(* What a Traza store promises its clients, with no buffer, log, segment   *)
(* or checkpoint in it: the store shows the newest version of every        *)
(* primary key, a batch appears whole, an acknowledged batch survives a    *)
(* crash, and what a crash takes is a suffix of the admissions.            *)
(*                                                                         *)
(* A version of a span is the number of the batch that carried it, 0 when  *)
(* the store holds none.  Store.tla implements this module.                *)
(***************************************************************************)
EXTENDS Versions

VARIABLES durable,      \* an acknowledgement is a promise (not Durability::Buffered)
          batches,      \* the keys each admitted batch carries, in admission order
          lost,         \* batches a crash took
          acked,        \* batches acknowledged to their client
          shown         \* the version of each key the store answers reads with

vars == <<durable, batches, lost, acked, shown>>

Init == durable \in BOOLEAN /\ batches = <<>> /\ lost = {} /\ acked = {} /\ shown = Empty

Admit == /\ \E ks \in (SUBSET Keys) \ {{}} : batches' = Append(batches, ks)
         /\ shown' = Newest(batches', lost)
         /\ UNCHANGED <<durable, lost, acked>>

Acknowledge == /\ \E b \in DOMAIN batches \ lost : acked' = acked \cup {b}
               /\ UNCHANGED <<durable, batches, lost, shown>>

Crash == /\ \E n \in 0..Len(batches) : lost' = lost \cup (n + 1)..Len(batches)
         /\ durable => lost' \cap acked = {}
         /\ shown' = Newest(batches, lost')
         /\ UNCHANGED <<durable, batches, acked>>

Next == Admit \/ Acknowledge \/ Crash

Spec == Init /\ [][Next]_vars
=============================================================================

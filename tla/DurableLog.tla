----------------------------- MODULE DurableLog -----------------------------
(***************************************************************************)
(* What the write-ahead log promises its callers, with no file, no fsync   *)
(* and no thread in it: a batch is acknowledged only when a crash cannot   *)
(* take it, and a crash takes only a suffix of what was appended.          *)
(*                                                                         *)
(* Batches are numbered in append order.  `settled` are the batches whose  *)
(* content the caller has put in fsynced segment files, or has deleted on  *)
(* purpose; they no longer need the log.  Wal.tla implements this module.  *)
(***************************************************************************)
EXTENDS Integers

VARIABLES
    appended,   \* number of batches ever appended
    held,       \* batches the log holds
    synced,     \* batches of the log that no crash can remove
    settled,    \* batches that no longer need the log
    acked       \* batches whose commit returned Ok

vars == <<appended, held, synced, settled, acked>>

Init == /\ appended = 0
        /\ held = {} /\ synced = {} /\ settled = {} /\ acked = {}

Append == /\ appended' = appended + 1
          /\ held' = held \cup {appended'}
          /\ UNCHANGED <<synced, settled, acked>>

Sync == /\ synced \subseteq synced' /\ synced' \subseteq held
        /\ UNCHANGED <<appended, held, settled, acked>>

Settle == /\ settled \subseteq settled' /\ settled' \subseteq settled \cup held
          /\ UNCHANGED <<appended, held, synced, acked>>

\* The log gives up what is settled and makes the rest durable.
Reclaim == /\ held' = held \ settled
           /\ synced' = held'
           /\ UNCHANGED <<appended, settled, acked>>

\* An acknowledgement may name several batches at once: one fsync covers every
\* commit that was waiting on it.
Acknowledge == /\ acked \subseteq acked' /\ acked' \subseteq acked \cup synced \cup settled
               /\ UNCHANGED <<appended, held, synced, settled>>

\* A crash keeps a prefix of the log, in append order.
Crash == /\ \E n \in 0..appended : held' = {b \in held : b <= n}
         /\ synced \subseteq synced' /\ synced' \subseteq held'
         /\ UNCHANGED <<appended, settled, acked>>

Next == Append \/ Sync \/ Settle \/ Reclaim \/ Acknowledge \/ Crash

Spec == Init /\ [][Next]_vars

\* An acknowledged batch is in the log or no longer needs it.
AckedKept == acked \subseteq held \cup settled
=============================================================================

--------------------------- MODULE DirectoryLock ---------------------------
(***************************************************************************)
(* The lock that keeps one store in a data directory (DirectoryLock in     *)
(* src/src/lib.rs): a LOCK file made with create_new that names its        *)
(* owner's pid, and a sentinel file that the processes which find a dead   *)
(* owner contend for before they swap the lock.                            *)
(*                                                                         *)
(* Every file operation is a step of its own, because every one of them    *)
(* can interleave with those of another process.  Simplifications:         *)
(*   - a pid is never reused (the code treats a reused pid as a live       *)
(*     owner, which only keeps the directory refused);                     *)
(*   - an unreadable LOCK or an unavailable `kill` is the same as a live   *)
(*     owner, as in the code, and is not a case of its own;                *)
(*   - time is the choice a judge has over an unnamed sentinel: ten        *)
(*     seconds old, or not yet.                                            *)
(***************************************************************************)
EXTENDS Naturals, FiniteSets

CONSTANTS
    Procs,     \* processes, by pid
    None,      \* no file at a path
    CrashAt,   \* the places where a process may die
    Stalls,    \* may a live process take ten seconds to name its sentinel?
    MaxDead    \* bound: how many processes may die

VARIABLES
    lock,      \* the LOCK file: None, or who created it and whether its pid is in it
    sentinel,  \* the reclaim sentinel, likewise
    pc         \* where each process is

lockVars == <<lock, sentinel, pc>>

Places == {"out", "naming", "refused", "claim", "claiming", "contested", "clear",
           "verify", "swap", "take", "retaking", "retook", "lost", "in", "dead"}

\* The places of a process that created the sentinel and has not removed it.
Reclaiming == {"claiming", "verify", "swap", "take", "retaking", "retook", "lost"}

\* The places of a process whose create_new of LOCK succeeded.
Owning == {"naming", "retaking", "retook", "in"}

\* A file of this protocol: who made it, and whether its pid is in it yet.
File == [by: Procs, named: BOOLEAN]

ASSUME LockAssumption ==
    /\ None \notin File
    /\ CrashAt \subseteq Places \ {"dead"}
    /\ Stalls \in BOOLEAN
    /\ MaxDead \in Nat

\* The files start absent; Directory.tla opens, closes and reopens from there.
LockInit ==
    /\ lock = None
    /\ sentinel = None
    /\ pc = [p \in Procs |-> "out"]

Dead == {p \in Procs : pc[p] = "dead"}

Goto(p, place) == pc' = [pc EXCEPT ![p] = place]

\* owner_is_dead: true only of a file that names a process that is gone.
OwnerIsDead(p, file) == file # None /\ file.named /\ file.by # p /\ file.by \in Dead

----------------------------------------------------------------------------
(* Opening.                                                                *)

\* try_create on the first attempt: create_new wins the path or finds it taken.
TryCreate(p) ==
    /\ pc[p] = "out"
    /\ IF lock = None
       THEN lock' = [by |-> p, named |-> FALSE] /\ Goto(p, "naming")
       ELSE lock' = lock /\ Goto(p, "refused")
    /\ UNCHANGED sentinel

\* The pid is written into the file this process created and synced.
WritePid(p) ==
    /\ pc[p] \in {"naming", "retaking"}
    /\ lock' = IF lock # None /\ lock.by = p THEN [lock EXCEPT !.named = TRUE] ELSE lock
    /\ Goto(p, IF pc[p] = "naming" THEN "in" ELSE "retook")
    /\ UNCHANGED sentinel

\* The write or the sync fails: whatever is at the path is removed.
WriteFails(p) ==
    /\ pc[p] \in {"naming", "retaking"}
    /\ lock' = None
    /\ Goto(p, IF pc[p] = "naming" THEN "out" ELSE "lost")
    /\ UNCHANGED sentinel

\* The taken lock is judged: a live owner refuses the open.
JudgeOwner(p) ==
    /\ pc[p] = "refused"
    /\ Goto(p, IF OwnerIsDead(p, lock) THEN "claim" ELSE "out")
    /\ UNCHANGED <<lock, sentinel>>

----------------------------------------------------------------------------
(* Reclaiming from a dead owner.                                           *)

\* reclaim_sentinel: exactly one create_new of the sentinel succeeds.
ClaimSentinel(p) ==
    /\ pc[p] = "claim"
    /\ IF sentinel = None
       THEN sentinel' = [by |-> p, named |-> FALSE] /\ Goto(p, "claiming")
       ELSE sentinel' = sentinel /\ Goto(p, "contested")
    /\ UNCHANGED lock

NameSentinel(p) ==
    /\ pc[p] = "claiming"
    /\ sentinel' = IF sentinel # None /\ sentinel.by = p
                   THEN [sentinel EXCEPT !.named = TRUE] ELSE sentinel
    /\ Goto(p, "verify")
    /\ UNCHANGED lock

\* Mutant: a sentinel is a corpse only by the pid in it.
MayBeOld_Never == FALSE

\* unreadable_and_old: an unnamed sentinel, ten seconds after it was made.
MayBeOld == sentinel # None /\ ~sentinel.named /\ (Stalls \/ sentinel.by \in Dead)

\* The sentinel of another process is judged a corpse ...
JudgeCorpse(p) ==
    /\ pc[p] = "contested"
    /\ OwnerIsDead(p, sentinel) \/ MayBeOld
    /\ Goto(p, "clear")
    /\ UNCHANGED <<lock, sentinel>>

\* ... or left alone; either way this attempt yields.
JudgeAlive(p) ==
    /\ pc[p] = "contested"
    /\ ~OwnerIsDead(p, sentinel)
    /\ Goto(p, "out")
    /\ UNCHANGED <<lock, sentinel>>

\* The corpse is removed by path, whatever the path holds by now.
ClearSentinel(p) ==
    /\ pc[p] = "clear"
    /\ sentinel' = None
    /\ Goto(p, "out")
    /\ UNCHANGED lock

\* Mutant: the winner of the sentinel trusts the first look at the owner.
VerifyOwner_Skip(p) ==
    /\ pc[p] = "verify"
    /\ Goto(p, "swap")
    /\ UNCHANGED <<lock, sentinel>>

\* The owner is judged again, now that the sentinel is held.
VerifyOwner(p) ==
    /\ pc[p] = "verify"
    /\ Goto(p, IF OwnerIsDead(p, lock) THEN "swap" ELSE "lost")
    /\ UNCHANGED <<lock, sentinel>>

RemoveStale(p) ==
    /\ pc[p] = "swap"
    /\ lock' = None
    /\ Goto(p, "take")
    /\ UNCHANGED sentinel

\* try_create again: an open that saw the gap may have won it.
Retake(p) ==
    /\ pc[p] = "take"
    /\ IF lock = None
       THEN lock' = [by |-> p, named |-> FALSE] /\ Goto(p, "retaking")
       ELSE lock' = lock /\ Goto(p, "lost")
    /\ UNCHANGED sentinel

\* The sentinel is removed on the way out, won or lost.
RemoveSentinel(p) ==
    /\ pc[p] \in {"retook", "lost"}
    /\ sentinel' = None
    /\ Goto(p, IF pc[p] = "retook" THEN "in" ELSE "out")
    /\ UNCHANGED lock

----------------------------------------------------------------------------
(* Closing and dying.                                                      *)

\* Drop removes the lock by path.
Drop(p) ==
    /\ pc[p] = "in"
    /\ lock' = None
    /\ Goto(p, "out")
    /\ UNCHANGED sentinel

\* Death leaves every file as it is.
Die(p) ==
    /\ pc[p] \in CrashAt
    /\ Cardinality(Dead) < MaxDead
    /\ Goto(p, "dead")
    /\ UNCHANGED <<lock, sentinel>>

Acquire(p) ==
    \/ TryCreate(p) \/ WritePid(p) \/ WriteFails(p) \/ JudgeOwner(p)
    \/ ClaimSentinel(p) \/ NameSentinel(p) \/ JudgeCorpse(p) \/ JudgeAlive(p)
    \/ ClearSentinel(p) \/ VerifyOwner(p) \/ RemoveStale(p) \/ Retake(p)
    \/ RemoveSentinel(p)

LockNext == \E p \in Procs : Acquire(p) \/ Drop(p) \/ Die(p)

LockSpec == LockInit /\ [][LockNext]_lockVars

----------------------------------------------------------------------------

LockTypeOK ==
    /\ lock \in File \cup {None}
    /\ sentinel \in File \cup {None}
    /\ pc \in [Procs -> Places]

(* Two processes never both hold the directory, however many find the same *)
(* dead owner and in whatever order they create and remove the two files   *)
(* (DirectoryLock::acquire: "exactly ONE winner").                         *)
MutualExclusion == \A p, q \in Procs : pc[p] \in Owning /\ pc[q] \in Owning => p = q

(* A lock left by a dead process is eventually gone, as long as someone    *)
(* keeps opening the directory: a crash must not wedge the store.          *)
DeadOwnerGivesWay ==
    [](lock # None /\ lock.by \in Dead => <>(lock = None \/ lock.by \notin Dead))

=============================================================================
